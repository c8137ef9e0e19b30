------------------------- MODULE RequestObjectProofs -------------------------
(* Theorems about what a page leaves behind, for every size of the buffer,   *)
(* every set of forms, queries, charsets, encodings, types and environment   *)
(* variables, and any number of requests and commands: channel, environment  *)
(* and files (ObjInv), the refill buffer (BufferInv), the parameters         *)
(* (ParmInv), the types of all variables, and last the form, which is read   *)
(* as it was sent (FormInv).                                                 *)
EXTENDS RequestObject, FoldFacts

(* The channel's settings and the response's charset have their types.       *)
Settings == [translation : {"auto", "lf", "crlf"},
             encoding : Encodings \cup {"default", "binary"}]
Responses == [printed : BOOLEAN, set : BOOLEAN, charset : Charsets \cup {None},
              type : Types \cup Charsets \cup {None, "text/html"}]

ChanOK ==
    /\ chan \in Settings /\ asked \in Settings /\ scopes \in Seq(Settings)
    /\ resp \in Responses /\ configured \in BOOLEAN

(* with_binary_output runs within a page only; the outermost of those that   *)
(* run holds what is to be in force when all have ended.                     *)
ScopesInv ==
    /\ scopes # <<>> => pc = "run" /\ scopes[1] = asked
    /\ scopes = <<>> => chan = asked

(* Outside of them a page of a charset has it on its channel.                *)
CharsetInv ==
    resp.charset \in Encodings /\ ~configured =>
        asked.encoding = resp.charset /\ texts \subseteq {resp.charset}

(* A variable counts as set after its group was loaded only if it was, and   *)
(* then holds the page's value.                                              *)
EnvSound(e) ==
    /\ e.loaded \subseteq {"common", "cgi", "vars"}
    /\ e.env = [k \in DOMAIN EnvGroup |-> e.env[k]]
    /\ \A k \in late : e.env[k] = "script" /\ EnvGroup[k] \in e.loaded \cup {"own"}

EnvInv == late \subseteq DOMAIN EnvGroup /\ EnvSound(Environment)

(* The temporary files are those of the uploads of this request: all of them *)
(* but for one that is not made yet, unless the parse failed.                *)
IsSeq(s)   == Len(s) \in Nat /\ s = [i \in 1..Len(s) |-> s[i]]
FilesUpTo(n) == \A i \in 1..n : [req |-> reqs, n |-> i] \in tmp

FilesInv ==
    /\ IsSeq(uploads) /\ reqs \in Nat
    /\ \A t \in tmp : t.req = reqs
    /\ pc = "idle" => tmp = {}
    /\ pc = "tmpfile" => FilesUpTo(Len(uploads) - 1)
    /\ pc \notin {"idle", "cleanup", "tmpfile"} => FilesUpTo(Len(uploads))

ObjInv == ChanOK /\ ScopesInv /\ CharsetInv /\ EnvInv /\ FilesInv
-----------------------------------------------------------------------------
LEMMA InitObj == Init => ObjInv
<1> SUFFICES ASSUME Init PROVE ObjInv
  OBVIOUS
<1>1. ChanOK
  <2>1. scopes \in Seq(Settings)
    BY DEF Init
  <2> QED
    BY <2>1 DEF Init, ChanOK, Text, Settings, Responses
<1>2. ScopesInv
  BY DEF Init, ScopesInv
<1>3. CharsetInv
  BY ObjectAssumption DEF Init, CharsetInv
<1>4. EnvInv
  BY DEF Init, EnvInv, EnvSound, Environment
<1>5. FilesInv
  BY DEF Init, BodyInit, FilesInv, IsSeq
<1> QED
  BY <1>1, <1>2, <1>3, <1>4, <1>5 DEF ObjInv

(* Putting the settings back puts all of them back.                          *)
LEMMA RestoredIsKept ==
    ASSUME NEW c \in Settings, NEW kept \in Settings
    PROVE  Restored(c, kept) = kept
BY DEF Restored, Set, Settings

LEMMA TypeKeepsCharset ==
    ASSUME NEW r \in Responses, NEW t \in Types \cup Charsets \cup {"text/html"}
    PROVE  SetHeaderType(r, t) \in Responses /\ SetHeaderType(r, t).charset = r.charset
BY DEF Responses, SetHeaderType

LEMMA HeadersKeepCharset ==
    ASSUME NEW r \in Responses
    PROVE  PrintHeaders(r) \in Responses /\ PrintHeaders(r).charset = r.charset
<1> DEFINE t == IF r.charset # None THEN r.charset ELSE "text/html"
<1>1. t \in Types \cup Charsets \cup {"text/html"}
  BY DEF Responses
<1>2. SetHeaderType(r, t) \in Responses /\ SetHeaderType(r, t).charset = r.charset
  BY <1>1, TypeKeepsCharset
<1>3. PrintHeaders(r) \in {r, [SetHeaderType(r, t) EXCEPT !.printed = TRUE]}
  BY DEF PrintHeaders
<1> HIDE DEF t
<1> QED
  BY <1>2, <1>3 DEF Responses

(* Loading a group changes no variable the page set after it was loaded.     *)
LEMMA LoadSound ==
    ASSUME late \subseteq DOMAIN EnvGroup,
           NEW e, EnvSound(e), NEW group \in {"common", "cgi", "vars"}
    PROVE  EnvSound(Load(e, group))
<1>1. CASE group \in e.loaded
  BY <1>1 DEF Load
<1>2. CASE group \notin e.loaded
  <2> DEFINE env2 == [k \in DOMAIN e.env |-> IF k \in Of(group) THEN "apache" ELSE e.env[k]]
  <2>1. Load(e, group) = [env |-> env2, loaded |-> e.loaded \cup {group}]
    BY <1>2 DEF Load
  <2>2. DOMAIN e.env = DOMAIN EnvGroup
    BY DEF EnvSound
  <2>3. ASSUME NEW k \in late
        PROVE  env2[k] = "script" /\ EnvGroup[k] \in e.loaded \cup {group} \cup {"own"}
    <3>1. EnvGroup[k] \in e.loaded \cup {"own"} /\ e.env[k] = "script" /\ k \in DOMAIN e.env
      BY <2>2 DEF EnvSound
    <3>2. k \notin Of(group)
      BY <1>2, <3>1 DEF Of
    <3> QED
      BY <3>1, <3>2
  <2>4. env2 = [k \in DOMAIN EnvGroup |-> env2[k]]
    BY <2>2
  <2>5. e.loaded \cup {group} \subseteq {"common", "cgi", "vars"}
    BY DEF EnvSound
  <2> HIDE DEF env2
  <2> QED
    BY <2>1, <2>3, <2>4, <2>5 DEF EnvSound
<1> QED
  BY <1>1, <1>2

LEMMA LoadAllSound == ASSUME EnvInv PROVE EnvSound(InitEnvVars(Environment))
<1> DEFINE c1 == Load(Environment, "cgi")
           c2 == Load(c1, "common")
<1>1. late \subseteq DOMAIN EnvGroup /\ EnvSound(Environment)
  BY DEF EnvInv
<1>2. EnvSound(c1)
  BY <1>1, LoadSound
<1>3. EnvSound(c2)
  <2> HIDE DEF c1
  <2> QED
    BY <1>1, <1>2, LoadSound
<1>4. EnvSound(Load(c2, "vars"))
  <2> HIDE DEF c2
  <2> QED
    BY <1>1, <1>3, LoadSound
<1> QED
  BY <1>4 DEF InitEnvVars

LEMMA LookupSound ==
    ASSUME EnvInv, NEW k \in DOMAIN EnvGroup
    PROVE  /\ EnvSound(GetEnvVar(Environment, k).state)
           /\ k \in late => GetEnvVar(Environment, k).val = "script"
<1> DEFINE common == Load(Environment, "common")
           cgi == Load(common, "cgi")
<1>1. late \subseteq DOMAIN EnvGroup /\ EnvSound(Environment)
  BY DEF EnvInv
<1>2. EnvSound(common)
  BY <1>1, LoadSound
<1>3. EnvSound(cgi)
  <2> HIDE DEF common
  <2> QED
    BY <1>1, <1>2, LoadSound
<1>4. CASE k \in Of("header")
  <2>1. GetEnvVar(Environment, k) = [state |-> Environment, val |-> "apache"]
    BY <1>4 DEF GetEnvVar
  <2>2. k \notin late
    BY <1>1, <1>4 DEF Of, EnvSound
  <2> QED
    BY <1>1, <2>1, <2>2
<1>5. CASE k \notin Of("header") /\ common.env[k] # None
  <2>1. GetEnvVar(Environment, k) = [state |-> common, val |-> common.env[k]]
    BY <1>5 DEF GetEnvVar
  <2>2. k \in late => common.env[k] = "script"
    BY <1>2 DEF EnvSound
  <2> HIDE DEF common
  <2> QED
    BY <1>2, <2>1, <2>2
<1>6. CASE k \notin Of("header") /\ common.env[k] = None
  <2>1. GetEnvVar(Environment, k).state = cgi
    BY <1>6 DEF GetEnvVar
  <2>2. k \notin late
    BY <1>2, <1>6 DEF EnvSound, None
  <2> HIDE DEF common, cgi
  <2> QED
    BY <1>3, <2>1, <2>2
<1> QED
  BY <1>4, <1>5, <1>6

(* Sequences of uploads: one more, or other data in one of them.             *)
LEMMA SeqIsSeq == ASSUME NEW S, NEW s \in Seq(S) PROVE IsSeq(s)
<1>1. Len(s) \in Nat /\ s \in [1..Len(s) -> S]
  BY LenProperties
<1> QED
  BY <1>1 DEF IsSeq

LEMMA AppendIsSeq ==
    ASSUME NEW s, IsSeq(s), NEW x
    PROVE  /\ IsSeq(Append(s, x)) /\ Len(Append(s, x)) = Len(s) + 1
           /\ \A i \in 1..Len(s) : Append(s, x)[i] = s[i]
<1> DEFINE S == {s[i] : i \in 1..Len(s)} \cup {x}
<1>1. s \in [1..Len(s) -> S]
  BY DEF IsSeq
<1>2. s \in Seq(S) /\ x \in S
  BY <1>1, SeqDef DEF IsSeq
<1> HIDE DEF S
<1>3. /\ Append(s, x) \in Seq(S) /\ Len(Append(s, x)) = Len(s) + 1
      /\ \A i \in 1..Len(s) : Append(s, x)[i] = s[i]
  BY <1>2, AppendProperties
<1> QED BY <1>3, SeqIsSeq

LEMMA ExceptIsSeq ==
    ASSUME NEW s, IsSeq(s), NEW i, NEW x
    PROVE  IsSeq([s EXCEPT ![i] = x]) /\ Len([s EXCEPT ![i] = x]) = Len(s)
<1> DEFINE S == {s[j] : j \in 1..Len(s)} \cup {x}
<1>1. s \in [1..Len(s) -> S]
  BY DEF IsSeq
<1>2. s \in Seq(S) /\ x \in S /\ DOMAIN s = 1..Len(s)
  BY <1>1, IsASeq DEF IsSeq
<1> HIDE DEF S
<1>3. CASE i \in 1..Len(s)
  <2>1. [s EXCEPT ![i] = x] \in Seq(S) /\ Len([s EXCEPT ![i] = x]) = Len(s)
    BY <1>2, <1>3, ExceptSeq
  <2> QED
    BY <2>1, SeqIsSeq
<1>4. CASE i \notin 1..Len(s)
  <2>1. [s EXCEPT ![i] = x] = s
    BY <1>1, <1>2, <1>4 DEF IsSeq
  <2> QED
    BY <2>1
<1> QED
  BY <1>3, <1>4

LEMMA ConcatFacts ==
    ASSUME NEW s, IsSeq(s), NEW t, IsSeq(t)
    PROVE  /\ IsSeq(s \o t) /\ Len(s \o t) >= Len(s)
           /\ \A i \in 1..Len(s) : (s \o t)[i] = s[i]
<1> DEFINE S == {s[i] : i \in 1..Len(s)} \cup {t[i] : i \in 1..Len(t)}
<1>1. s \in [1..Len(s) -> S] /\ t \in [1..Len(t) -> S] /\ Len(s) \in Nat /\ Len(t) \in Nat
  BY DEF IsSeq
<1>2. s \in Seq(S) /\ t \in Seq(S)
  BY <1>1, SeqDef
<1> HIDE DEF S
<1>3. s \o t \in Seq(S) /\ Len(s \o t) = Len(s) + Len(t)
  BY <1>2, ConcatProperties
<1>4. ASSUME NEW i \in 1..Len(s) PROVE (s \o t)[i] = s[i]
  <2>1. i \in 1..(Len(s) + Len(t)) /\ i <= Len(s)
    BY <1>1
  <2> QED BY <1>2, <2>1, ConcatProperties
<1>5. Len(s \o t) >= Len(s)
  <2>1. PICK m \in Nat, n \in Nat : m = Len(s) /\ n = Len(t)
    BY <1>1
  <2>2. Len(s \o t) = m + n
    BY <1>3, <2>1
  <2>3. m + n >= m
    BY <2>1
  <2> QED BY <2>1, <2>2, <2>3
<1> QED BY <1>3, <1>4, <1>5, SeqIsSeq

LEMMA PieceFacts ==
    ASSUME NEW s, IsSeq(s), NEW m \in 1..(Len(s) + 1), NEW n \in (m - 1)..Len(s)
    PROVE  /\ IsSeq(SubSeq(s, m, n)) /\ Len(SubSeq(s, m, n)) = n - m + 1
           /\ \A i \in 1..(n - m + 1) : SubSeq(s, m, n)[i] = s[m + i - 1]
<1> DEFINE S == {s[i] : i \in 1..Len(s)}
<1>1. m \in Int /\ n \in Int /\ Len(s) \in Nat /\ \A i \in m..n : s[i] \in S
  BY DEF IsSeq
<1> HIDE DEF S
<1>2. SubSeq(s, m, n) \in Seq(S) /\ Len(SubSeq(s, m, n)) = (IF m <= n THEN n - m + 1 ELSE 0)
  BY <1>1, SubSeqProperties
<1>3. (IF m <= n THEN n - m + 1 ELSE 0) = n - m + 1
  BY <1>1
<1>4. ASSUME NEW i \in 1..(n - m + 1) PROVE SubSeq(s, m, n)[i] = s[m + i - 1]
  BY <1>1, SubSeqProperties
<1> QED BY <1>2, <1>3, <1>4, SeqIsSeq
-----------------------------------------------------------------------------
(* The channel, the response and the texts.                                  *)

(* The parser works before the page and says nothing to it.                  *)
LEMMA ParseIsBefore ==
    ASSUME Parse PROVE pc \notin {"idle", "run", "cleanup"} /\ pc' # "idle" /\ reqs' = reqs
BY DEF Parse, ParseArgs, UtilRead, AtEof, FindBoundary, HeaderLine, Dispatch, TmpFile,
       MozillaCheck, ReadValue, ReadFile, WriteFails, Parsed, parmVars

LEMMA BinaryIsSettings == Binary \in Settings
BY DEF Binary, Settings

LEMMA SetIsSettings ==
    ASSUME NEW c \in Settings
    PROVE  /\ \A enc \in Encodings :
                 Set(c, "encoding", enc) \in Settings /\ Set(c, "encoding", enc).encoding = enc
           /\ Set(c, "translation", "crlf") \in Settings
BY DEF Set, Settings

ChannelInv == ChanOK /\ ScopesInv /\ CharsetInv

(* A step that leaves the channel's settings, and the response's charset,    *)
(* as they are, within the page.                                             *)
LEMMA SameChannel ==
    ASSUME ChannelInv, UNCHANGED chanVars, pc' = pc,
           resp' \in Responses, resp'.charset = resp.charset
    PROVE  ChannelInv'
BY DEF ChannelInv, ChanOK, ScopesInv, CharsetInv, chanVars

LEMMA ChannelBegins ==
    ASSUME ChannelInv, NEW s, NEW cs \in Charsets, BeginRequest(s, cs)
    PROVE  ChannelInv'
<1>1. pc = "idle" /\ scopes = <<>> /\ scopes' = scopes /\ chan = asked
  BY DEF ChannelInv, ScopesInv, BeginRequest, Begin, InitRequest
<1>2. chan \in Settings /\ scopes \in Seq(Settings)
  BY DEF ChannelInv, ChanOK
<1>3. chan' = asked' /\ chan' \in Settings
  BY <1>1, <1>2, SetIsSettings DEF BeginRequest, InitRequest
<1>4. resp' \in Responses /\ resp'.charset = cs /\ configured' = FALSE /\ texts' = {}
  BY DEF BeginRequest, InitRequest, Responses
<1>5. cs \in Encodings => asked'.encoding = cs
  <2>1. cs \in Encodings => asked' = Set(asked, "encoding", cs)
    BY DEF BeginRequest, InitRequest
  <2> QED
    BY <1>1, <1>2, <2>1, SetIsSettings
<1> QED
  BY <1>1, <1>2, <1>3, <1>4, <1>5 DEF ChannelInv, ChanOK, ScopesInv, CharsetInv

LEMMA ChannelPuts == ASSUME ChannelInv, Puts PROVE ChannelInv'
<1>1. resp' = resp /\ chan' = chan /\ asked' = asked /\ scopes' = scopes
      /\ configured' = configured /\ pc' = pc
  BY DEF Puts, Runs, bodyVars
<1>2. texts' = texts \/ (scopes = <<>> /\ texts' = texts \cup {chan.encoding})
  BY DEF Puts
<1> QED
  BY <1>1, <1>2 DEF ChannelInv, ChanOK, ScopesInv, CharsetInv

LEMMA ChannelConfigure ==
    ASSUME ChannelInv, NEW option, NEW v, Configure(option, v),
           Set(chan, option, v) \in Settings
    PROVE  ChannelInv'
<1>1. /\ resp' = resp /\ scopes' = scopes /\ configured' = TRUE /\ pc' = pc /\ pc = "run"
      /\ chan' \in Settings /\ asked' = IF scopes = <<>> THEN chan' ELSE asked
  BY DEF Configure, Runs, bodyVars
<1> QED
  BY <1>1 DEF ChannelInv, ChanOK, ScopesInv, CharsetInv

LEMMA ChannelBinaryBegins == ASSUME ChannelInv, BinaryBegins PROVE ChannelInv'
<1>1. /\ pc = "run" /\ pc' = pc /\ chan' = Binary /\ scopes' = Append(scopes, chan)
      /\ asked' = asked /\ configured' = configured /\ texts' = texts
      /\ resp' \in {resp, PrintHeaders(resp)}
  BY DEF BinaryBegins, Flushed, Runs, bodyVars
<1>2. /\ chan \in Settings /\ asked \in Settings /\ scopes \in Seq(Settings)
      /\ resp \in Responses /\ configured \in BOOLEAN
  BY DEF ChannelInv, ChanOK
<1>3. resp' \in Responses /\ resp'.charset = resp.charset
  BY <1>1, <1>2, HeadersKeepCharset
<1>4. scopes' \in Seq(Settings) /\ Len(scopes') = Len(scopes) + 1
      /\ scopes'[1] = IF scopes = <<>> THEN chan ELSE scopes[1]
  BY <1>1, <1>2, AppendProperties, EmptySeq, LenProperties
<1>5. scopes' # <<>>
  BY <1>2, <1>4, LenProperties, EmptySeq
<1>6. scopes'[1] = asked'
  BY <1>1, <1>4 DEF ChannelInv, ScopesInv
<1> QED
  BY <1>1, <1>2, <1>3, <1>4, <1>5, <1>6, BinaryIsSettings
  DEF ChannelInv, ChanOK, ScopesInv, CharsetInv

LEMMA ChannelBinaryEnds ==
    ASSUME ChannelInv, NEW ok, BinaryEnds(ok) PROVE ChannelInv'
<1>1. /\ pc = "run" /\ pc' = pc /\ scopes # <<>>
      /\ chan' = Restored(chan, Last(scopes)) /\ scopes' = Front(scopes)
      /\ asked' = asked /\ configured' = configured /\ texts' = texts
      /\ resp' \in {resp, PrintHeaders(resp)}
  BY DEF BinaryEnds, Flushed, bodyVars
<1>2. /\ chan \in Settings /\ asked \in Settings /\ scopes \in Seq(Settings)
      /\ resp \in Responses /\ configured \in BOOLEAN
  BY DEF ChannelInv, ChanOK
<1>3. resp' \in Responses /\ resp'.charset = resp.charset
  BY <1>1, <1>2, HeadersKeepCharset
<1>4. Len(scopes) \in Nat \ {0} /\ Last(scopes) = scopes[Len(scopes)]
      /\ Last(scopes) \in Settings
  BY <1>1, <1>2, LenProperties, EmptySeq, ElementOfSeq DEF Last
<1>5. chan' = Last(scopes)
  BY <1>1, <1>2, <1>4, RestoredIsKept
<1>6. scopes' \in Seq(Settings) /\ Len(scopes') = Len(scopes) - 1
      /\ \A i \in 1..(Len(scopes) - 1) : scopes'[i] = scopes[i]
  <2> DEFINE n == Len(scopes) - 1
  <2>1. n \in Nat /\ scopes' = SubSeq(scopes, 1, n)
    BY <1>1, <1>4 DEF Front
  <2>2. \A i \in 1..n : scopes[i] \in Settings
    BY <1>2, <1>4, ElementOfSeq
  <2> HIDE DEF n
  <2>3. /\ SubSeq(scopes, 1, n) \in Seq(Settings)
        /\ Len(SubSeq(scopes, 1, n)) = n
        /\ \A i \in 1..n : SubSeq(scopes, 1, n)[i] = scopes[i]
    BY <2>1, <2>2, SubSeqProperties
  <2> QED
    BY <2>1, <2>3 DEF n
<1>7. scopes[1] = asked
  BY <1>1 DEF ChannelInv, ScopesInv
<1>8. scopes' # <<>> => scopes'[1] = asked'
  BY <1>1, <1>4, <1>6, <1>7, EmptySeq
<1>9. scopes' = <<>> => chan' = asked'
  <2> SUFFICES ASSUME scopes' = <<>> PROVE chan' = asked'
    OBVIOUS
  <2>1. Len(scopes') = 0
    BY EmptySeq
  <2>2. Len(scopes) = 1
    BY <1>4, <1>6, <2>1
  <2> QED
    BY <1>1, <1>4, <1>5, <1>7, <2>2
<1> QED
  BY <1>1, <1>2, <1>3, <1>4, <1>5, <1>6, <1>8, <1>9
  DEF ChannelInv, ChanOK, ScopesInv, CharsetInv

(* Both set the channel and put it back.                                     *)
LEMMA ChannelWritten == ASSUME ChannelInv, WriteBinary \/ Include PROVE ChannelInv'
<1>1. /\ pc' = pc /\ chan' = Restored(Binary, chan) /\ resp' \in {resp, PrintHeaders(resp)}
      /\ UNCHANGED <<scopes, asked, configured, texts>>
  BY DEF WriteBinary, Include, Flushed, Runs, bodyVars
<1>2. chan \in Settings /\ resp \in Responses
  BY DEF ChannelInv, ChanOK
<1>3. chan' = chan
  BY <1>1, <1>2, RestoredIsKept, BinaryIsSettings
<1>4. resp' \in Responses /\ resp'.charset = resp.charset
  BY <1>1, <1>2, HeadersKeepCharset
<1> QED
  BY <1>1, <1>3, <1>4, SameChannel DEF chanVars

LEMMA ChannelStep == ASSUME ChannelInv, [Next]_vars PROVE ChannelInv'
<1>1. resp \in Responses
  BY DEF ChannelInv, ChanOK
<1>2. ASSUME NEW s \in Inputs, NEW cs \in Charsets, BeginRequest(s, cs) PROVE ChannelInv'
  BY <1>2, ChannelBegins
<1>3. CASE Parse /\ UNCHANGED objVars
  <2>1. pc # "run" /\ UNCHANGED <<resp, chan, scopes, asked, configured, texts>>
    BY <1>3, ParseIsBefore DEF objVars, chanVars
  <2> QED
    BY <2>1 DEF ChannelInv, ChanOK, ScopesInv, CharsetInv
<1>4. ASSUME NEW t \in Types, HeadersType(t) PROVE ChannelInv'
  <2>1. pc' = pc /\ UNCHANGED chanVars /\ resp' = SetHeaderType(resp, t)
    BY <1>4 DEF HeadersType, Runs, bodyVars
  <2> QED
    BY <1>1, <2>1, TypeKeepsCharset, SameChannel
<1>5. CASE Flush
  <2>1. pc' = pc /\ UNCHANGED chanVars /\ resp' \in {resp, PrintHeaders(resp)}
    BY <1>5 DEF Flush, Flushed, Runs, bodyVars
  <2> QED
    BY <1>1, <2>1, HeadersKeepCharset, SameChannel
<1>6. ASSUME NEW enc \in Encodings, Configure("encoding", enc) PROVE ChannelInv'
  <2>1. Set(chan, "encoding", enc) \in Settings
    BY SetIsSettings DEF ChannelInv, ChanOK
  <2> QED
    BY <1>6, <2>1, ChannelConfigure
<1>7. CASE Configure("translation", "crlf")
  <2>1. Set(chan, "translation", "crlf") \in Settings
    BY SetIsSettings DEF ChannelInv, ChanOK
  <2> QED
    BY <1>7, <2>1, ChannelConfigure
<1>8. ASSUME NEW k \in DOMAIN EnvGroup, Env(k) \/ TableSet(k) \/ TableUnset(k)
      PROVE ChannelInv'
  <2>1. pc' = pc /\ UNCHANGED chanVars /\ resp' = resp
    BY <1>8 DEF Env, TableSet, TableUnset, Runs, bodyVars
  <2> QED
    BY <1>1, <2>1, SameChannel
<1>9. CASE LoadEnv
  <2>1. pc' = pc /\ UNCHANGED chanVars /\ resp' = resp
    BY <1>9 DEF LoadEnv, Runs, bodyVars
  <2> QED
    BY <1>1, <2>1, SameChannel
<1>10. ASSUME NEW name, UploadSave(name) PROVE ChannelInv'
  <2>1. pc' = pc /\ UNCHANGED chanVars /\ resp' = resp
    BY <1>10 DEF UploadSave, Runs, bodyVars
  <2> QED
    BY <1>1, <2>1, SameChannel
<1>11. CASE EndPage
  <2>1. scopes = <<>> /\ UNCHANGED <<chan, scopes, asked, configured, texts>>
        /\ resp' \in {resp, PrintHeaders(resp)}
    BY <1>11 DEF EndPage, chanVars
  <2>2. resp' \in Responses /\ resp'.charset = resp.charset
    BY <1>1, <2>1, HeadersKeepCharset
  <2> QED
    BY <2>1, <2>2 DEF ChannelInv, ChanOK, ScopesInv, CharsetInv
<1>12. CASE UNCHANGED vars
  <2>1. pc' = pc /\ UNCHANGED chanVars /\ resp' = resp
    BY <1>12 DEF vars, bodyVars, objVars
  <2> QED
    BY <1>1, <2>1, SameChannel
<1>13. CASE Done
  BY <1>12, <1>13 DEF Done
<1> QED
  BY <1>2, <1>3, <1>4, <1>5, <1>6, <1>7, <1>8, <1>9, <1>10, <1>11, <1>12, <1>13,
     ChannelPuts, ChannelBinaryBegins, ChannelBinaryEnds, ChannelWritten DEF Next
-----------------------------------------------------------------------------
(* The environment.                                                          *)

LEMMA SameEnv ==
    ASSUME EnvInv, UNCHANGED envVars PROVE EnvInv'
BY DEF EnvInv, EnvSound, Environment, envVars

(* A command that only looks variables up, or loads them all.                *)
LEMMA EnvLooks ==
    ASSUME EnvInv, NEW e, EnvSound(e), SetEnvironment(e), late' = late PROVE EnvInv'
<1>1. env' = e.env /\ loaded' = e.loaded
  BY DEF SetEnvironment
<1> QED
  BY <1>1 DEF EnvInv, EnvSound, Environment

LEMMA EnvTable ==
    ASSUME EnvInv, NEW k \in DOMAIN EnvGroup, TableSet(k) \/ TableUnset(k) PROVE EnvInv'
<1>1. /\ late \subseteq DOMAIN EnvGroup /\ loaded \subseteq {"common", "cgi", "vars"}
      /\ env = [j \in DOMAIN EnvGroup |-> env[j]]
      /\ \A j \in late : env[j] = "script" /\ EnvGroup[j] \in loaded \cup {"own"}
  BY DEF EnvInv, EnvSound, Environment
<1>2. CASE TableSet(k)
  <2>1. /\ env' = [env EXCEPT ![k] = "script"] /\ loaded' = loaded
        /\ late' = IF EnvGroup[k] \in loaded \cup {"own"} THEN late \cup {k} ELSE late
    BY <1>2 DEF TableSet
  <2>2. env' = [j \in DOMAIN EnvGroup |-> env'[j]]
        /\ \A j \in DOMAIN EnvGroup : env'[j] = IF j = k THEN "script" ELSE env[j]
    BY <1>1, <2>1
  <2>3. late' \subseteq DOMAIN EnvGroup
        /\ \A j \in late' : env'[j] = "script" /\ EnvGroup[j] \in loaded' \cup {"own"}
    BY <1>1, <2>1, <2>2
  <2> QED
    BY <1>1, <2>1, <2>2, <2>3 DEF EnvInv, EnvSound, Environment
<1>3. CASE TableUnset(k)
  <2>1. /\ env' = [env EXCEPT ![k] = None] /\ loaded' = loaded /\ late' = late \ {k}
    BY <1>3 DEF TableUnset
  <2>2. env' = [j \in DOMAIN EnvGroup |-> env'[j]]
        /\ \A j \in DOMAIN EnvGroup : env'[j] = IF j = k THEN None ELSE env[j]
    BY <1>1, <2>1
  <2>3. late' \subseteq DOMAIN EnvGroup
        /\ \A j \in late' : env'[j] = "script" /\ EnvGroup[j] \in loaded' \cup {"own"}
    BY <1>1, <2>1, <2>2
  <2> QED
    BY <1>1, <2>1, <2>2, <2>3 DEF EnvInv, EnvSound, Environment
<1> QED
  BY <1>2, <1>3

LEMMA EnvStep == ASSUME EnvInv, [Next]_vars PROVE EnvInv'
<1>1. ASSUME NEW s \in Inputs, NEW cs \in Charsets, BeginRequest(s, cs) PROVE EnvInv'
  BY <1>1 DEF BeginRequest, InitRequest, EnvInv, EnvSound, Environment
<1>2. ASSUME NEW k \in DOMAIN EnvGroup, Env(k) PROVE EnvInv'
  <2>1. EnvSound(GetEnvVar(Environment, k).state)
    BY LookupSound
  <2>2. SetEnvironment(GetEnvVar(Environment, k).state) /\ late' = late
    BY <1>2 DEF Env
  <2> QED
    BY <2>1, <2>2, EnvLooks
<1>3. CASE LoadEnv
  <2>1. EnvSound(InitEnvVars(Environment))
    BY LoadAllSound
  <2>2. SetEnvironment(InitEnvVars(Environment)) /\ late' = late
    BY <1>3 DEF LoadEnv
  <2> QED
    BY <2>1, <2>2, EnvLooks
<1>4. ASSUME \/ Parse /\ UNCHANGED objVars
             \/ \E t \in Types : HeadersType(t)
             \/ Puts \/ Flush
             \/ \E enc \in Encodings : Configure("encoding", enc)
             \/ Configure("translation", "crlf")
             \/ BinaryBegins \/ \E ok \in BOOLEAN : BinaryEnds(ok)
             \/ WriteBinary \/ Include
             \/ \E name \in Range(UploadNames) : UploadSave(name)
             \/ EndPage \/ Done \/ UNCHANGED vars
      PROVE EnvInv'
  <2>1. UNCHANGED envVars
    BY <1>4 DEF objVars, vars, HeadersType, Puts, Flush, Configure, BinaryBegins, BinaryEnds,
                WriteBinary, Include, UploadSave, EndPage, Done
  <2> QED
    BY <2>1, SameEnv
<1>5. \A k \in DOMAIN EnvGroup : TableSet(k) \/ TableUnset(k) => EnvInv'
  BY EnvTable
<1> QED
  BY <1>1, <1>2, <1>3, <1>4, <1>5 DEF Next
-----------------------------------------------------------------------------
(* The temporary files.                                                      *)

LEMMA SameFiles ==
    ASSUME FilesInv, UNCHANGED <<pc, reqs, uploads, tmp>> PROVE FilesInv'
BY DEF FilesInv, FilesUpTo

(* Steps of the parser that neither find an upload nor make its file.        *)
LEMMA FilesParsed ==
    ASSUME FilesInv, pc \notin {"idle", "cleanup", "tmpfile"}, pc' \notin {"idle", "tmpfile"},
           reqs' = reqs, tmp' = tmp, IsSeq(uploads'), Len(uploads') = Len(uploads)
    PROVE  FilesInv'
BY DEF FilesInv, FilesUpTo

LEMMA FilesHeaderLine == ASSUME FilesInv, HeaderLine PROVE FilesInv'
<1>1. pc = "headers" /\ reqs' = reqs
  BY DEF HeaderLine
<1>2. /\ tmp' = tmp
      /\ \/ uploads' = uploads /\ pc' \in {"headers", "eof", "value"}
         \/ \E u : uploads' = Append(uploads, u) /\ pc' = "tmpfile"
  BY DEF HeaderLine, Dispatch, parmVars
<1>3. CASE uploads' = uploads /\ pc' \in {"headers", "eof", "value"}
  BY <1>1, <1>2, <1>3 DEF FilesInv, FilesUpTo
<1>4. ASSUME NEW u, uploads' = Append(uploads, u), pc' = "tmpfile" PROVE FilesInv'
  <2>1. IsSeq(uploads') /\ Len(uploads') = Len(uploads) + 1 /\ Len(uploads) \in Nat
    BY <1>4, AppendIsSeq DEF FilesInv, IsSeq
  <2>2. Len(uploads') - 1 = Len(uploads)
    BY <2>1
  <2>3. FilesUpTo(Len(uploads)) /\ reqs \in Nat /\ \A t \in tmp : t.req = reqs
    BY <1>1 DEF FilesInv
  <2> QED
    BY <1>1, <1>2, <1>4, <2>1, <2>2, <2>3 DEF FilesInv, FilesUpTo
<1> QED
  BY <1>2, <1>3, <1>4

LEMMA FilesTmpFile == ASSUME FilesInv, TmpFile PROVE FilesInv'
<1>1. /\ pc = "tmpfile" /\ reqs' = reqs /\ uploads' = uploads
      /\ \/ pc' = "mozilla" /\ tmp' = tmp \cup {[req |-> reqs, n |-> Len(uploads)]}
         \/ pc' = "cleanup" /\ tmp' = tmp
  BY DEF TmpFile, Parsed
<1>2. Len(uploads) \in Nat /\ FilesUpTo(Len(uploads) - 1) /\ \A t \in tmp : t.req = reqs
  BY <1>1 DEF FilesInv, IsSeq
<1>3. pc' = "mozilla" => \A i \in 1..Len(uploads) : [req |-> reqs, n |-> i] \in tmp'
  <2> SUFFICES ASSUME pc' = "mozilla", NEW i \in 1..Len(uploads)
               PROVE [req |-> reqs, n |-> i] \in tmp'
    OBVIOUS
  <2>1. i \in 1..(Len(uploads) - 1) \/ i = Len(uploads)
    BY <1>2
  <2> QED
    BY <1>1, <1>2, <2>1 DEF FilesUpTo
<1>4. \A t \in tmp' : t.req = reqs
  BY <1>1, <1>2
<1> QED
  BY <1>1, <1>3, <1>4 DEF FilesInv, FilesUpTo, IsSeq

LEMMA FilesParse == ASSUME FilesInv, Parse PROVE FilesInv'
<1>1. IsSeq(uploads)
  BY DEF FilesInv
<1>2. CASE ParseArgs \/ UtilRead \/ AtEof \/ FindBoundary \/ MozillaCheck \/ ReadValue
           \/ WriteFails
  <2>1. /\ pc \notin {"idle", "cleanup", "tmpfile"} /\ pc' \notin {"idle", "tmpfile"}
        /\ reqs' = reqs /\ tmp' = tmp /\ uploads' = uploads
    BY <1>2 DEF ParseArgs, UtilRead, AtEof, FindBoundary, MozillaCheck, ReadValue, WriteFails,
                Parsed, parmVars
  <2> QED
    BY <1>1, <2>1, FilesParsed
<1>3. CASE ReadFile
  <2>1. /\ pc \notin {"idle", "cleanup", "tmpfile"} /\ pc' \notin {"idle", "tmpfile"}
        /\ reqs' = reqs /\ tmp' = tmp
        /\ \E u : uploads' = [uploads EXCEPT ![Len(uploads)] = u]
    BY <1>3 DEF ReadFile
  <2>2. PICK u : uploads' = [uploads EXCEPT ![Len(uploads)] = u]
    BY <2>1
  <2>3. IsSeq(uploads') /\ Len(uploads') = Len(uploads)
    BY <1>1, <2>2, ExceptIsSeq
  <2> QED
    BY <2>1, <2>3, FilesParsed
<1> QED
  BY <1>2, <1>3, FilesHeaderLine, FilesTmpFile DEF Parse

LEMMA FilesStep == ASSUME FilesInv, [Next]_vars PROVE FilesInv'
<1>1. ASSUME NEW s \in Inputs, NEW cs \in Charsets, BeginRequest(s, cs) PROVE FilesInv'
  <2>1. /\ pc = "idle" /\ pc' = "parse" /\ reqs' = reqs + 1 /\ uploads' = <<>> /\ tmp' = tmp
    BY <1>1 DEF BeginRequest, Begin
  <2>2. IsSeq(<<>>) /\ Len(<<>>) = 0
    BY DEF IsSeq
  <2> QED
    BY <2>1, <2>2 DEF FilesInv, FilesUpTo
<1>2. CASE EndPage
  <2>1. pc' = "idle" /\ reqs' = reqs /\ uploads' = uploads /\ tmp' = {t \in tmp : t.req # reqs}
    BY <1>2 DEF EndPage, EndRequest
  <2>2. tmp' = {}
    BY <2>1 DEF FilesInv
  <2> QED
    BY <2>1, <2>2 DEF FilesInv
<1>3. ASSUME \/ \E t \in Types : HeadersType(t)
             \/ Puts \/ Flush
             \/ \E enc \in Encodings : Configure("encoding", enc)
             \/ Configure("translation", "crlf")
             \/ BinaryBegins \/ \E ok \in BOOLEAN : BinaryEnds(ok)
             \/ WriteBinary \/ Include
             \/ \E k \in DOMAIN EnvGroup : Env(k) \/ TableSet(k) \/ TableUnset(k)
             \/ LoadEnv
             \/ \E name \in Range(UploadNames) : UploadSave(name)
             \/ Done \/ UNCHANGED vars
      PROVE FilesInv'
  <2>1. UNCHANGED bodyVars
    BY <1>3 DEF vars, HeadersType, Puts, Flush, Configure, BinaryBegins, BinaryEnds, WriteBinary,
                Include, Env, TableSet, TableUnset, LoadEnv, UploadSave, Done, Runs
  <2>2. UNCHANGED <<pc, reqs, uploads, tmp>>
    BY <2>1 DEF bodyVars, parmVars
  <2> QED
    BY <2>2, SameFiles
<1> QED
  BY <1>1, <1>2, <1>3, FilesParse DEF Next
-----------------------------------------------------------------------------
(* The three parts hold in every state.                                      *)
THEOREM SpecObjInv == Spec => []ObjInv
<1>1. ObjInv /\ [Next]_vars => ObjInv'
  <2> SUFFICES ASSUME ObjInv, [Next]_vars PROVE ObjInv'
    OBVIOUS
  <2>1. ChannelInv /\ EnvInv /\ FilesInv
    BY DEF ObjInv, ChannelInv
  <2>2. ChannelInv' /\ EnvInv' /\ FilesInv'
    BY <2>1, ChannelStep, EnvStep, FilesStep
  <2> QED
    BY <2>2 DEF ObjInv, ChannelInv
<1> QED
  BY <1>1, InitObj, PTL DEF Spec

(* However the scripts of with_binary_output end, and whatever they do to    *)
(* the channel, outside of them it has the settings it was given outside.    *)
THEOREM SpecScopeRestores == Spec => []ScopeRestores
<1>1. ObjInv => ScopeRestores
  BY DEF ObjInv, ScopesInv, ScopeRestores
<1> QED
  BY <1>1, SpecObjInv, PTL

(* A page of a charset that Tcl knows has its text encoded in it.            *)
THEOREM SpecTextInCharset == Spec => []TextInCharset
<1>1. ObjInv => TextInCharset
  BY DEF ObjInv, CharsetInv, TextInCharset
<1> QED
  BY <1>1, SpecObjInv, PTL

(* The files of a page's uploads are there, and go with the request.         *)
THEOREM SpecTmpFilesGone == Spec => []TmpFilesGone
<1>1. ObjInv => TmpFilesGone
  <2> SUFFICES ASSUME FilesInv PROVE TmpFilesGone
    BY DEF ObjInv
  <2>1. DOMAIN uploads = 1..Len(uploads)
    BY DEF FilesInv, IsSeq
  <2> QED
    BY <2>1 DEF FilesInv, FilesUpTo, TmpFilesGone
<1> QED
  BY <1>1, SpecObjInv, PTL

(* What the page put into the environment is what a script reads there.      *)
THEOREM SpecEnvOverrideKept == Spec => []EnvOverrideKept
<1>1. ObjInv => EnvOverrideKept
  <2> SUFFICES ASSUME EnvInv, NEW k \in late
               PROVE  GetEnvVar(Environment, k).val = "script"
    BY DEF ObjInv, EnvOverrideKept
  <2>1. k \in DOMAIN EnvGroup
    BY DEF EnvInv
  <2> QED
    BY <2>1, LookupSound
<1> QED
  BY <1>1, SpecObjInv, PTL
-----------------------------------------------------------------------------
(* The buffer: its memory, and as many bytes in it as there is room for, or  *)
(* no place to read from, and then no bytes.                                 *)
BufOK(b) ==
    /\ DOMAIN b = {"mem", "begin", "n"}
    /\ b.mem = [i \in 0..BufSize |-> b.mem[i]]
    /\ b.n \in Nat /\ b.begin \in Int
    /\ \/ b.begin = NoPtr /\ b.n = 0
       \/ b.begin >= 0 /\ b.begin + b.n <= BufSize

(* The bytes of b are the last ones of the first p bytes of s.               *)
Holds(b, s, p) ==
    b.n <= p /\ \A i \in 1..b.n : b.mem[b.begin + i - 1] = s[p - b.n + i]

(* c holds the last bytes of whatever b does.                                *)
Follows(c, b) == \A s, p : p \in Nat /\ Holds(b, s, p) => Holds(c, s, p)

LEMMA BufSizeIs == BufSize \in Nat /\ BufSize >= FillUnit /\ BufSize > 1
<1>1. FillUnit \in Int /\ FillUnit > 1
  BY FillAssumption
<1> DEFINE m == IF FillUnit >= 7 THEN FillUnit ELSE 7
<1>2. {FillUnit, 1 + 6} \subseteq Nat /\ m \in {FillUnit, 1 + 6}
      /\ \A k \in {FillUnit, 1 + 6} : k <= m
  BY <1>1
<1>3. Max({FillUnit, 1 + 6}) = m
  <2> HIDE DEF m
  <2> QED BY <1>2, MaxIs
<1> QED BY <1>1, <1>3 DEF BufSize

LEMMA NewBufferOK == BufOK(NewBuffer) /\ NewBuffer.n = 0
BY BufSizeIs DEF BufOK, NewBuffer, NoPtr

LEMMA EmptyHolds ==
    ASSUME NEW b, b.n = 0, NEW s, NEW p \in Nat PROVE Holds(b, s, p)
BY DEF Holds

(* A block of k bytes of s.                                                  *)
LEMMA BlockFacts ==
    ASSUME NEW s, IsSeq(s), NEW p \in 0..Len(s), NEW k \in 0..(Len(s) - p)
    PROVE  /\ Len(SubSeq(s, p + 1, p + k)) = k
           /\ \A i \in 1..k : SubSeq(s, p + 1, p + k)[i] = s[p + i]
<1>1. Len(s) \in Nat /\ p \in Nat /\ k \in Nat /\ p + k <= Len(s)
  BY DEF IsSeq
<1> DEFINE m == p + 1
           n == p + k
<1>2. m \in 1..(Len(s) + 1) /\ n \in (m - 1)..Len(s) /\ n - m + 1 = k
  BY <1>1
<1>3. m \in Int
  BY <1>1
<1> HIDE DEF m, n
<1>4. Len(SubSeq(s, m, n)) = k /\ \A i \in 1..k : SubSeq(s, m, n)[i] = s[m + i - 1]
  BY <1>2, PieceFacts
<1>5. ASSUME NEW i \in 1..k PROVE SubSeq(s, m, n)[i] = s[p + i]
  <2>1. m + i - 1 = p + i
    BY <1>1 DEF m
  <2> QED BY <1>4, <2>1
<1> QED BY <1>4, <1>5 DEF m, n

LEMMA FillFacts ==
    ASSUME NEW b, BufOK(b), NEW s, IsSeq(s), NEW p \in 0..Len(s), NEW k \in 0..(Len(s) - p),
           b.n + k <= BufSize
    PROVE  /\ BufOK(Fill(b, SubSeq(s, p + 1, p + k)))
           /\ Fill(b, SubSeq(s, p + 1, p + k)).begin = 0
           /\ Fill(b, SubSeq(s, p + 1, p + k)).n = b.n + k
           /\ Holds(b, s, p) => Holds(Fill(b, SubSeq(s, p + 1, p + k)), s, p + k)
<1>0. /\ b.n \in Nat /\ b.begin \in Int /\ BufSize \in Nat
      /\ Len(s) \in Nat /\ k \in Nat /\ p \in Nat
  BY BufSizeIs DEF BufOK, IsSeq
<1>1. PICK block : block = SubSeq(s, p + 1, p + k)
  OBVIOUS
<1>2. Len(block) = k /\ \A i \in 1..k : block[i] = s[p + i]
  BY <1>1, BlockFacts
<1> DEFINE mem2 == [i \in 0..BufSize |-> IF i < b.n THEN b.mem[b.begin + i]
                      ELSE IF i < b.n + Len(block) THEN block[i - b.n + 1] ELSE b.mem[i]]
<1>3. Fill(b, block) = [mem |-> mem2, begin |-> 0, n |-> b.n + k]
  BY <1>2 DEF Fill
<1>4. mem2 = [i \in 0..BufSize |-> mem2[i]]
  OBVIOUS
<1>5. ASSUME Holds(b, s, p), NEW i \in 1..(b.n + k)
      PROVE  mem2[0 + i - 1] = s[(p + k) - (b.n + k) + i]
  <2>1. i - 1 \in 0..BufSize /\ 0 + i - 1 = i - 1 /\ (p + k) - (b.n + k) + i = p - b.n + i
    BY <1>0
  <2>2. CASE i <= b.n
    <3>1. i - 1 < b.n /\ i \in 1..b.n /\ b.begin + (i - 1) = b.begin + i - 1
      BY <1>0, <2>2
    <3>2. mem2[i - 1] = b.mem[b.begin + (i - 1)]
      BY <2>1, <3>1
    <3>3. b.mem[b.begin + i - 1] = s[p - b.n + i]
      BY <1>5, <3>1 DEF Holds
    <3> HIDE DEF mem2
    <3> QED BY <2>1, <3>1, <3>2, <3>3
  <2>3. CASE i > b.n
    <3>0. i \in Int /\ i >= 1 /\ i <= b.n + k
      BY <1>0
    <3>1. ~(i - 1 < b.n) /\ i - 1 < b.n + k /\ i - 1 - b.n + 1 = i - b.n /\ i - b.n \in 1..k
          /\ p + (i - b.n) = p - b.n + i
      <4>1. ~(i - 1 < b.n) /\ i - 1 < b.n + k
        BY <1>0, <2>3, <3>0
      <4>2. i - 1 - b.n + 1 = i - b.n /\ p + (i - b.n) = p - b.n + i
        BY <1>0, <3>0
      <4>3. i - b.n \in 1..k
        BY <1>0, <2>3, <3>0
      <4> QED BY <4>1, <4>2, <4>3
    <3>2. mem2[i - 1] = block[i - 1 - b.n + 1]
      BY <1>2, <2>1, <3>1
    <3>3. block[i - b.n] = s[p + (i - b.n)]
      BY <1>2, <3>1
    <3> HIDE DEF mem2
    <3> QED BY <2>1, <3>1, <3>2, <3>3
  <2> QED BY <1>0, <2>2, <2>3
<1> HIDE DEF mem2
<1>6. Fill(b, block).mem = mem2 /\ Fill(b, block).begin = 0 /\ Fill(b, block).n = b.n + k
  BY <1>3
<1>7. BufOK(Fill(b, block))
  BY <1>0, <1>3, <1>4, <1>6 DEF BufOK
<1>8. Holds(b, s, p) => Holds(Fill(b, block), s, p + k)
  <2> SUFFICES ASSUME Holds(b, s, p) PROVE Holds(Fill(b, block), s, p + k)
    OBVIOUS
  <2>1. b.n + k <= p + k
    BY <1>0 DEF Holds
  <2>2. PICK F : F = Fill(b, block)
    OBVIOUS
  <2>3. F.mem = mem2 /\ F.begin = 0 /\ F.n = b.n + k
    BY <1>6, <2>2
  <2>4. ASSUME NEW i \in 1..F.n PROVE F.mem[F.begin + i - 1] = s[(p + k) - F.n + i]
    <3>1. mem2[0 + i - 1] = s[(p + k) - (b.n + k) + i]
      BY <2>3, <2>4, <1>5
    <3> QED BY <2>3, <3>1
  <2>5. F.n <= p + k
    BY <2>1, <2>3
  <2> HIDE DEF mem2
  <2>6. \A i \in 1..F.n : F.mem[F.begin + i - 1] = s[(p + k) - F.n + i]
    BY <2>4
  <2>7. Holds(F, s, p + k)
    <3> SUFFICES /\ F.n <= p + k
                 /\ \A i \in 1..F.n : F.mem[F.begin + i - 1] = s[(p + k) - F.n + i]
      BY DEF Holds
    <3> QED BY <2>5, <2>6
  <2> QED BY <2>2, <2>7
<1> QED BY <1>1, <1>6, <1>7, <1>8

(* Bytes taken from the front leave the others where they are.               *)
LEMMA TakeFacts ==
    ASSUME NEW b, BufOK(b), b.begin >= 0, NEW c, NEW m \in 0..b.n,
           DOMAIN c = {"mem", "begin", "n"}, c.begin = b.begin + m, c.n = b.n - m,
           c.mem = [i \in 0..BufSize |-> c.mem[i]],
           \A i \in (b.begin + m)..(b.begin + b.n - 1) : c.mem[i] = b.mem[i]
    PROVE  BufOK(c) /\ Follows(c, b)
<1>0. b.n \in Nat /\ b.begin \in Int /\ BufSize \in Nat /\ b.begin + b.n <= BufSize /\ m \in Nat
      /\ c.begin = b.begin + m /\ c.n = b.n - m
  BY BufSizeIs DEF BufOK, NoPtr
<1>1. BufOK(c)
  BY <1>0 DEF BufOK
<1>2. ASSUME NEW s, NEW p \in Nat, Holds(b, s, p) PROVE Holds(c, s, p)
  <2>1. b.n <= p
    BY <1>2 DEF Holds
  <2>2. ASSUME NEW i \in 1..c.n PROVE c.mem[c.begin + i - 1] = s[p - c.n + i]
    <3>0. i \in 1..(b.n - m) /\ i \in Nat
      BY <1>0
    <3>1. m + i \in 1..b.n /\ b.begin + (m + i) - 1 = c.begin + i - 1
          /\ c.begin + i - 1 \in (b.begin + m)..(b.begin + b.n - 1)
          /\ p - b.n + (m + i) = p - c.n + i
      <4>1. m + i >= 1 /\ m + i <= b.n /\ m + i \in Int
        BY <1>0, <3>0
      <4>2. b.begin + (m + i) - 1 = c.begin + i - 1 /\ p - b.n + (m + i) = p - c.n + i
        <5>1. b.begin + (m + i) - 1 = (b.begin + m) + i - 1
          BY <1>0, <3>0
        <5>2. p - b.n + (m + i) = p - (b.n - m) + i
          BY <1>0, <3>0
        <5> QED BY <1>0, <5>1, <5>2
      <4>3. c.begin + i - 1 >= b.begin + m /\ c.begin + i - 1 <= b.begin + b.n - 1
            /\ c.begin + i - 1 \in Int
        <5>1. i >= 1 /\ i <= b.n - m
          BY <1>0, <3>0
        <5>2. c.begin + i - 1 = b.begin + m + (i - 1) /\ i - 1 >= 0 /\ m + (i - 1) <= b.n - 1
          BY <1>0, <3>0, <5>1
        <5> QED BY <1>0, <3>0, <5>1, <5>2
      <4> QED BY <1>0, <4>1, <4>2, <4>3
    <3>2. b.mem[b.begin + (m + i) - 1] = s[p - b.n + (m + i)]
      BY <3>1, <1>2 DEF Holds
    <3> QED BY <3>1, <3>2
  <2> QED BY <1>0, <2>1, <2>2 DEF Holds
<1> QED BY <1>1, <1>2 DEF Follows

(* next_line takes a line off the front, or nothing, or everything.          *)
LEMMA NextLineFacts ==
    ASSUME NEW b, BufOK(b)
    PROVE  BufOK(NextLine(b).buf) /\ Follows(NextLine(b).buf, b)
<1> DEFINE d == Data(b)
           P == {i \in 1..b.n : d[i] = LF}
           first == Min(P)
           strip == first > 1 /\ d[first - 1] = CR
           eol == IF strip THEN first - 1 ELSE first
           taken == [b EXCEPT !.mem[b.begin + eol - 1] = NUL,
                              !.begin = @ + first, !.n = @ - first]
           full == [b EXCEPT !.mem[BufSize] = NUL, !.begin = NoPtr, !.n = 0]
<1>0. /\ b.n \in Nat /\ b.begin \in Int /\ BufSize \in Nat
      /\ DOMAIN b = {"mem", "begin", "n"}
      /\ b.mem = [i \in 0..BufSize |-> b.mem[i]]
  BY BufSizeIs DEF BufOK
<1>1. NextLine(b).buf = IF P # {} THEN taken ELSE IF b.n < BufSize THEN b ELSE full
  BY DEF NextLine
<1>2. CASE P # {}
  <2>1. first \in P
    <3>1. P \subseteq Nat
      BY <1>0
    <3> HIDE DEF P
    <3> QED BY <1>2, <3>1, MinIn
  <2>2. first \in 1..b.n
    BY <2>1
  <2> HIDE DEF d, P, first
  <2>3. eol \in 1..first
    BY <1>0, <2>2
  <2>4. b.begin >= 0
    BY <1>0, <2>2 DEF BufOK
  <2> HIDE DEF strip, eol
  <2> DEFINE mem2 == [b.mem EXCEPT ![b.begin + eol - 1] = NUL]
  <2>5. PICK c : c = taken
    OBVIOUS
  <2>6. mem2 = [i \in 0..BufSize |-> mem2[i]]
    BY <1>0
  <2>7. ASSUME NEW i \in (b.begin + first)..(b.begin + b.n - 1) PROVE mem2[i] = b.mem[i]
    <3>1. i # b.begin + eol - 1
      BY <1>0, <2>2, <2>3
    <3> QED BY <1>0, <3>1
  <2>8. /\ DOMAIN c = {"mem", "begin", "n"} /\ c.mem = mem2
        /\ c.begin = b.begin + first /\ c.n = b.n - first
    BY <1>0, <2>5
  <2> HIDE DEF mem2, taken
  <2>9. first \in 0..b.n
    BY <1>0, <2>2
  <2>10. BufOK(c) /\ Follows(c, b)
    BY <2>4, <2>6, <2>7, <2>8, <2>9, TakeFacts
  <2> HIDE DEF full
  <2> QED BY <1>1, <1>2, <2>5, <2>10
<1>3. CASE P = {} /\ b.n < BufSize
  <2>1. Follows(b, b)
    BY DEF Follows
  <2> HIDE DEF P, taken, full
  <2> QED BY <1>1, <1>3, <2>1
<1>4. CASE P = {} /\ ~(b.n < BufSize)
  <2> DEFINE mem2 == [b.mem EXCEPT ![BufSize] = NUL]
  <2>1. PICK none \in Int : none = NoPtr
    BY DEF NoPtr
  <2>2. /\ DOMAIN full = {"mem", "begin", "n"}
        /\ full.mem = mem2 /\ full.begin = none /\ full.n = 0
    BY <1>0, <2>1
  <2>3. mem2 = [i \in 0..BufSize |-> mem2[i]]
    BY <1>0
  <2> HIDE DEF mem2, full
  <2>4. BufOK(full) /\ full.n = 0
    BY <2>1, <2>2, <2>3 DEF BufOK
  <2> HIDE DEF P, taken, full
  <2>5. NextLine(b).buf = full
    BY <1>1, <1>4
  <2>6. Follows(full, b)
    BY <2>4, EmptyHolds DEF Follows
  <2> QED BY <2>4, <2>5, <2>6
<1> QED BY <1>2, <1>3, <1>4

(* multipart_buffer_read takes a piece off the front.                        *)
LEMMA ReadFacts ==
    ASSUME NEW b, BufOK(b), b.begin >= 0, NEW bytes \in Nat, bytes > 1
    PROVE  BufOK(Read(b, bytes).buf) /\ Follows(Read(b, bytes).buf, b)
<1> DEFINE d == Data(b)
           P == {q \in b.begin..(b.begin + b.n - 1) : MatchesAt(b, q, BoundaryNext)}
           bound == MemStr(b, BoundaryNext)
           max == IF bound # NoPtr THEN bound - b.begin ELSE b.n
           most == Min({max, bytes - 1})
           len == IF bound # NoPtr /\ most > 0 /\ d[most] = CR THEN most - 1 ELSE most
           c == [b EXCEPT !.begin = @ + len, !.n = @ - len]
<1>0. /\ b.n \in Nat /\ b.begin \in Nat /\ BufSize \in Nat
      /\ DOMAIN b = {"mem", "begin", "n"}
      /\ b.mem = [i \in 0..BufSize |-> b.mem[i]]
  BY BufSizeIs DEF BufOK
<1>1. Read(b, bytes).buf = c
  BY DEF Read
<1>2. bound = IF P = {} THEN NoPtr ELSE Min(P)
  BY DEF MemStr
<1>3. max \in 0..b.n
  <2>1. P \subseteq Nat
    BY <1>0
  <2>2. P # {} => Min(P) \in P
    <3> HIDE DEF P
    <3> QED BY <2>1, MinIn
  <2>3. P # {} => Min(P) \in b.begin..(b.begin + b.n - 1)
    BY <2>2
  <2> HIDE DEF P, bound
  <2>4. CASE P = {}
    BY <1>0, <1>2, <2>4
  <2>5. CASE P # {}
    BY <1>0, <1>2, <2>3, <2>5
  <2> QED BY <2>4, <2>5
<1> HIDE DEF P, bound, max, d
<1>4. most \in 0..b.n
  <2>1. max \in Int /\ bytes - 1 \in Int /\ bytes - 1 >= 0
    BY <1>0, <1>3
  <2>2. most = IF max <= bytes - 1 THEN max ELSE bytes - 1
    BY <2>1, MinOfTwo
  <2> QED BY <1>0, <1>3, <2>1, <2>2
<1> HIDE DEF most
<1>5. len \in 0..b.n
  BY <1>0, <1>4
<1> HIDE DEF len
<1>6. PICK e : e = c
  OBVIOUS
<1>7. DOMAIN e = {"mem", "begin", "n"} /\ e.mem = b.mem
      /\ e.begin = b.begin + len /\ e.n = b.n - len
  BY <1>0, <1>6
<1> HIDE DEF c
<1>8. BufOK(e) /\ Follows(e, b)
  BY <1>0, <1>5, <1>7, TakeFacts
<1> QED BY <1>1, <1>6, <1>8

-----------------------------------------------------------------------------
(* The body, and how much of it was handed over; the buffer, which between   *)
(* the first fill and the end of the parse holds the bytes that came last.   *)
Streaming == {"eof", "boundary", "headers", "tmpfile", "mozilla", "value", "file"}
BodyInv == IsSeq(body) /\ pos \in 0..Len(body) /\ remaining \in Int /\ remaining <= Len(body)

BufferInv ==
    /\ BodyInv /\ BufOK(buf)
    /\ pc \in Streaming => Holds(buf, body, pos)

(* Apache hands over no more than it has, and than it was asked for.         *)
LEMMA BlocksFacts ==
    ASSUME BodyInv, NEW wanted \in Int, NEW k \in Blocks(wanted)
    PROVE  k \in 0..(Len(body) - pos) /\ (k = 0 \/ k <= wanted)
<1>1. Len(body) \in Nat /\ pos \in 0..Len(body) /\ remaining \in Int
  BY DEF BodyInv, IsSeq
<1> DEFINE most == Min({wanted, Len(body) - pos})
<1>2. most = IF wanted <= Len(body) - pos THEN wanted ELSE Len(body) - pos
  BY <1>1, MinOfTwo
<1>3. CASE wanted <= 0 \/ remaining <= 0
  <2>1. Blocks(wanted) = {0}
    BY <1>3 DEF Blocks
  <2> QED BY <1>1, <2>1
<1>4. CASE ~(wanted <= 0 \/ remaining <= 0)
  <2>1. Blocks(wanted) = {most} \cup {j \in ShortBlocks : j < most}
    BY <1>4 DEF Blocks
  <2>2. most \in Nat /\ most <= wanted /\ most <= Len(body) - pos
    BY <1>1, <1>2, <1>4
  <2>3. k = most \/ (k \in Nat /\ k < most)
    BY <2>1, BodyAssumption
  <2> HIDE DEF most
  <2> QED BY <1>1, <2>2, <2>3
<1> QED BY <1>3, <1>4

(* There is room for what a fill asks for.                                   *)
LEMMA WantedFits ==
    ASSUME NEW b, BufOK(b), NEW r \in Int
    PROVE  Wanted(b, r) \in Int /\ Wanted(b, r) <= BufSize - b.n /\ b.n <= BufSize
<1>1. b.n \in Nat /\ BufSize \in Nat /\ b.n <= BufSize
  BY BufSizeIs DEF BufOK
<1>2. Len(Boundary) \in Nat
  BY DEF Boundary
<1> DEFINE free == BufSize - b.n
           len == Len(Boundary)
<1>3. Wanted(b, r) = IF free >= r THEN r - len ELSE free
  BY DEF Wanted
<1>4. free \in Int /\ len \in Nat
  BY <1>1, <1>2
<1> HIDE DEF free, len
<1>5. Wanted(b, r) \in Int /\ Wanted(b, r) <= free
  BY <1>3, <1>4
<1> QED BY <1>1, <1>5 DEF free

(* c is a buffer that holds what Apache handed over with k bytes more.       *)
Got(c, k) ==
    /\ BufOK(c) /\ pos + k \in 0..Len(body)
    /\ Holds(buf, body, pos) => Holds(c, body, pos + k)

LEMMA FillGets ==
    ASSUME BodyInv, BufOK(buf), NEW k \in Blocks(Wanted(buf, remaining))
    PROVE  Got(Fill(buf, Block(k)), k) /\ Fill(buf, Block(k)).begin = 0
<1>1. IsSeq(body) /\ pos \in 0..Len(body) /\ remaining \in Int /\ Len(body) \in Nat
  BY DEF BodyInv, IsSeq
<1>2. Wanted(buf, remaining) \in Int /\ Wanted(buf, remaining) <= BufSize - buf.n
      /\ buf.n <= BufSize
  BY <1>1, WantedFits
<1>3. k \in 0..(Len(body) - pos) /\ (k = 0 \/ k <= Wanted(buf, remaining))
  BY <1>2, BlocksFacts
<1>4. buf.n \in Nat /\ BufSize \in Nat
  BY BufSizeIs DEF BufOK
<1>5. buf.n + k <= BufSize
  BY <1>1, <1>2, <1>3, <1>4
<1>6. PICK c : c = Fill(buf, SubSeq(body, pos + 1, pos + k))
  OBVIOUS
<1>7. /\ BufOK(c) /\ c.begin = 0
      /\ Holds(buf, body, pos) => Holds(c, body, pos + k)
  BY <1>1, <1>3, <1>5, <1>6, FillFacts
<1>8. pos + k \in 0..Len(body)
  BY <1>1, <1>3
<1> QED BY <1>6, <1>7, <1>8 DEF Got, Block

(* The same of a buffer from which bytes are taken.                          *)
LEMMA FollowerGot ==
    ASSUME BodyInv, NEW b, NEW c, NEW k, Got(b, k), BufOK(c), Follows(c, b) PROVE Got(c, k)
<1>1. PICK p : p = pos + k
  OBVIOUS
<1>2. p \in Nat
  BY <1>1 DEF Got, BodyInv, IsSeq
<1>3. Holds(b, body, p) => Holds(c, body, p)
  BY <1>2 DEF Follows
<1> QED BY <1>1, <1>3 DEF Got

LEMMA NothingGot ==
    ASSUME BodyInv, BufOK(buf) PROVE Got(buf, 0)
<1>1. pos + 0 = pos
  BY DEF BodyInv, IsSeq
<1> QED BY <1>1 DEF Got, BodyInv

LEMMA NoBlock == ASSUME BodyInv, NEW k \in Blocks(0) PROVE k = 0
<1>1. Blocks(0) = {0}
  BY DEF Blocks
<1> QED BY <1>1

LEMMA LineGets ==
    ASSUME BodyInv, BufOK(buf), NEW k \in Blocks(LineWants) PROVE Got(Line(k).buf, k)
<1>1. CASE NeedsFill(buf)
  <2>1. k \in Blocks(Wanted(buf, remaining)) /\ Line(k) = NextLine(Fill(buf, Block(k)))
    BY <1>1 DEF LineWants, Line, GetLine
  <2>2. PICK b : b = Fill(buf, Block(k))
    OBVIOUS
  <2>3. Got(b, k)
    BY <2>1, <2>2, FillGets
  <2>4. BufOK(NextLine(b).buf) /\ Follows(NextLine(b).buf, b)
    BY <2>3, NextLineFacts DEF Got
  <2>5. Got(NextLine(b).buf, k)
    BY <2>3, <2>4, FollowerGot
  <2> QED BY <2>1, <2>2, <2>5
<1>2. CASE ~NeedsFill(buf)
  <2>1. k \in Blocks(0) /\ Line(k) = NextLine(buf)
    BY <1>2 DEF LineWants, Line, GetLine
  <2>2. k = 0
    BY <2>1, NoBlock
  <2>3. BufOK(NextLine(buf).buf) /\ Follows(NextLine(buf).buf, buf)
    BY NextLineFacts
  <2>4. Got(buf, k)
    BY <2>2, NothingGot
  <2>5. Got(NextLine(buf).buf, k)
    BY <2>3, <2>4, FollowerGot
  <2> QED BY <2>1, <2>5
<1> QED BY <1>1, <1>2

LEMMA ReadGets ==
    ASSUME BodyInv, BufOK(buf), NEW k \in Blocks(ReadWants) PROVE Got(ReadOf(k).buf, k)
<1>1. PICK b : b = ReadFrom(k)
  OBVIOUS
<1>2. Got(b, k) /\ b.begin >= 0
  <2>1. CASE FillUnit > buf.n
    <3>1. k \in Blocks(Wanted(buf, remaining)) /\ b = Fill(buf, Block(k))
      BY <1>1, <2>1 DEF ReadWants, ReadFrom
    <3>2. Got(b, k) /\ b.begin = 0
      BY <3>1, FillGets
    <3> QED BY <3>2
  <2>2. CASE ~(FillUnit > buf.n)
    <3>1. k \in Blocks(0) /\ b = buf
      BY <1>1, <2>2 DEF ReadWants, ReadFrom
    <3>2. buf.n # 0 /\ buf.begin >= 0
      BY <2>2, FillAssumption DEF BufOK
    <3> QED BY <3>1, <3>2, NoBlock, NothingGot
  <2> QED BY <2>1, <2>2
<1>3. FillUnit \in Nat /\ FillUnit > 1
  BY FillAssumption
<1>4. BufOK(Read(b, FillUnit).buf) /\ Follows(Read(b, FillUnit).buf, b)
  BY <1>2, <1>3, ReadFacts DEF Got
<1>5. Got(Read(b, FillUnit).buf, k)
  BY <1>2, <1>4, FollowerGot
<1> QED BY <1>1, <1>5 DEF ReadOf
-----------------------------------------------------------------------------
(* The steps of the parser.                                                  *)
LEMMA SentIsSeq == \A q \in Queries : IsSeq(q)
BY InputAssumption, SeqIsSeq DEF IsText

LEMMA BufferParsed == ASSUME NEW code, Parsed(code) PROVE BufferInv'
<1>1. body' = <<>> /\ pos' = 0 /\ remaining' = 0 /\ buf' = NewBuffer
      /\ pc' \in {"run", "cleanup"}
  BY DEF Parsed
<1>2. IsSeq(<<>>) /\ Len(<<>>) = 0
  BY DEF IsSeq
<1> QED BY <1>1, <1>2, NewBufferOK DEF BufferInv, BodyInv, Streaming

LEMMA BufferReceived ==
    ASSUME BufferInv, pc \in Streaming, NEW k, Got(buf', k), Received(k), body' = body
    PROVE  BufferInv'
<1>1. IsSeq(body) /\ remaining \in Int /\ remaining <= Len(body) /\ Len(body) \in Nat
  BY DEF BufferInv, BodyInv, IsSeq
<1>2. pos' = pos + k /\ remaining' \in {0, remaining}
  BY DEF Received, Left
<1>3. Holds(buf, body, pos)
  BY DEF BufferInv
<1>4. pos' \in 0..Len(body) /\ BufOK(buf') /\ Holds(buf', body, pos')
  BY <1>2, <1>3 DEF Got
<1>5. remaining' \in Int /\ remaining' <= Len(body)
  BY <1>1, <1>2
<1> QED BY <1>1, <1>4, <1>5 DEF BufferInv, BodyInv

LEMMA BufferAtEof == ASSUME BufferInv, AtEof PROVE BufferInv'
<1>1. pc \in Streaming /\ BodyInv /\ BufOK(buf)
  BY DEF BufferInv, AtEof, Streaming
<1> DEFINE wanted == IF buf.n = 0 THEN Wanted(buf, remaining) ELSE 0
<1>2. PICK k \in Blocks(wanted) :
         \/ Parsed("ok")
         \/ /\ buf' = (IF buf.n = 0 THEN Fill(buf, Block(k)) ELSE buf)
            /\ Received(k) /\ body' = body
  BY DEF AtEof
<1>3. CASE Parsed("ok")
  BY <1>3, BufferParsed
<1>4. CASE buf.n = 0 /\ buf' = Fill(buf, Block(k)) /\ Received(k) /\ body' = body
  <2>1. Got(buf', k)
    BY <1>1, <1>2, <1>4, FillGets
  <2> QED BY <1>1, <1>4, <2>1, BufferReceived
<1>5. CASE buf.n # 0 /\ buf' = buf /\ Received(k) /\ body' = body
  <2>1. k = 0
    BY <1>1, <1>2, <1>5, NoBlock
  <2>2. Got(buf', k)
    BY <1>1, <1>5, <2>1, NothingGot
  <2> QED BY <1>1, <1>5, <2>2, BufferReceived
<1> QED BY <1>2, <1>3, <1>4, <1>5

LEMMA BufferLine == ASSUME BufferInv, FindBoundary \/ HeaderLine PROVE BufferInv'
<1>1. pc \in Streaming /\ BodyInv /\ BufOK(buf)
  BY DEF BufferInv, FindBoundary, HeaderLine, Streaming
<1>2. PICK k \in Blocks(LineWants) :
         \/ Parsed("ok")
         \/ buf' = Line(k).buf /\ Received(k) /\ body' = body
  BY DEF FindBoundary, HeaderLine
<1>3. CASE buf' = Line(k).buf /\ Received(k) /\ body' = body
  <2>1. Got(buf', k)
    BY <1>1, <1>3, LineGets
  <2> QED BY <1>1, <1>3, <2>1, BufferReceived
<1> QED BY <1>2, <1>3, BufferParsed

LEMMA BufferTmpFile == ASSUME BufferInv, TmpFile PROVE BufferInv'
<1>1. \/ Parsed("no temp file")
      \/ pc = "tmpfile" /\ UNCHANGED <<body, pos, remaining, buf>>
  BY DEF TmpFile, bufVars
<1>2. CASE pc = "tmpfile" /\ UNCHANGED <<body, pos, remaining, buf>>
  BY <1>2 DEF BufferInv, BodyInv, Streaming
<1> QED BY <1>1, <1>2, BufferParsed

LEMMA BufferMozilla == ASSUME BufferInv, MozillaCheck PROVE BufferInv'
<1>1. pc \in Streaming /\ BodyInv /\ BufOK(buf)
  BY DEF BufferInv, MozillaCheck, Streaming
<1>2. PICK k \in Blocks(Wanted(buf, remaining)) :
         /\ buf' = Fill(buf, Block(k)) /\ pos' = pos + k /\ body' = body
         /\ remaining' \in {Left(k), Left(k) - 2}
  BY DEF MozillaCheck
<1>3. Got(buf', k)
  BY <1>1, <1>2, FillGets
<1>4. IsSeq(body) /\ remaining \in Int /\ remaining <= Len(body) /\ Len(body) \in Nat
  BY <1>1 DEF BodyInv, IsSeq
<1>5. Left(k) \in {0, remaining}
  BY DEF Left
<1>6. remaining' \in Int /\ remaining' <= Len(body)
  BY <1>2, <1>4, <1>5
<1>7. pos' \in 0..Len(body) /\ BufOK(buf') /\ Holds(buf', body, pos')
  BY <1>1, <1>2, <1>3 DEF Got, BufferInv
<1> QED BY <1>2, <1>4, <1>6, <1>7 DEF BufferInv, BodyInv

LEMMA BufferRead == ASSUME BufferInv, ReadValue \/ ReadFile PROVE BufferInv'
<1>1. pc \in Streaming /\ BodyInv /\ BufOK(buf)
  BY DEF BufferInv, ReadValue, ReadFile, Streaming
<1>2. PICK k \in Blocks(ReadWants) : buf' = ReadOf(k).buf /\ Received(k) /\ body' = body
  BY DEF ReadValue, ReadFile, Reading
<1>3. Got(buf', k)
  BY <1>1, <1>2, ReadGets
<1> QED BY <1>1, <1>2, <1>3, BufferReceived

LEMMA BufferUtilRead == ASSUME BufferInv, UtilRead PROVE BufferInv'
<1>1. BodyInv /\ BufOK(buf)
  BY DEF BufferInv
<1>2. PICK k \in Blocks(Len(body)) :
         \/ Parsed("ok")
         \/ Received(k) /\ UNCHANGED <<pc, body, buf>>
  BY DEF UtilRead
<1>3. CASE Received(k) /\ UNCHANGED <<pc, body, buf>>
  <2>1. IsSeq(body) /\ remaining \in Int /\ remaining <= Len(body) /\ Len(body) \in Nat
        /\ pos \in Nat
    BY <1>1 DEF BodyInv, IsSeq
  <2>2. k \in 0..(Len(body) - pos)
    BY <1>1, <1>2, <2>1, BlocksFacts
  <2>3. pos' = pos + k /\ remaining' \in {0, remaining} /\ pc' = "util_read"
    BY <1>3 DEF Received, Left, UtilRead
  <2>4. pos' \in 0..Len(body) /\ remaining' \in Int /\ remaining' <= Len(body)
    BY <2>1, <2>2, <2>3
  <2> QED BY <1>1, <1>3, <2>1, <2>3, <2>4 DEF BufferInv, BodyInv, Streaming
<1> QED BY <1>2, <1>3, BufferParsed

LEMMA BufferParseArgs == ASSUME BufferInv, ParseArgs PROVE BufferInv'
<1>1. \/ \E code : Parsed(code)
      \/ buf' = NewBuffer /\ UNCHANGED <<body, pos, remaining>>
  BY DEF ParseArgs
<1>2. CASE buf' = NewBuffer /\ UNCHANGED <<body, pos, remaining>>
  <2>1. pos \in Nat
    BY DEF BufferInv, BodyInv, IsSeq
  <2> QED BY <1>2, <2>1, NewBufferOK, EmptyHolds DEF BufferInv, BodyInv
<1> QED BY <1>1, <1>2, BufferParsed

(* What a client sends is a sequence of bytes.                               *)
LEMMA EncodeIsSeq == ASSUME NEW f \in Forms PROVE IsSeq(Encode(f))
<1> DEFINE parts == f.parts
           n == Len(parts)
           S == {"-", "B", CR, LF} \cup Range(f.preamble)
                \cup UNION {Range(parts[i].headers) \cup Range(parts[i].data)
                            \cup Range(parts[i].end) : i \in 1..n}
<1>1. n \in Nat /\ DOMAIN parts = 1..n
  <2>1. parts \in Seq(Range(parts))
    BY InputAssumption DEF IsText
  <2> HIDE DEF parts
  <2> QED BY <2>1, LenProperties
<1>2. /\ f.preamble \in Seq(Range(f.preamble))
      /\ \A i \in 1..n : /\ parts[i].headers \in Seq(Range(parts[i].headers))
                         /\ parts[i].data \in Seq(Range(parts[i].data))
                         /\ parts[i].end \in Seq(Range(parts[i].end))
  BY <1>1, InputAssumption DEF IsText
<1>3. /\ {"-", "B", CR, LF} \subseteq S /\ Range(f.preamble) \subseteq S
      /\ \A i \in 1..n : /\ Range(parts[i].headers) \subseteq S
                         /\ Range(parts[i].data) \subseteq S
                         /\ Range(parts[i].end) \subseteq S
  OBVIOUS
<1> HIDE DEF S, n, parts
<1>4. f.preamble \in Seq(S)
  BY <1>2, <1>3, SeqMonotonic
<1>5. ASSUME NEW i \in 1..n
      PROVE  parts[i].headers \in Seq(S) /\ parts[i].data \in Seq(S) /\ parts[i].end \in Seq(S)
  BY <1>2, <1>3, SeqMonotonic
<1>6. CRLF \in Seq(S) /\ Boundary \in Seq(S) /\ <<"-", "-">> \in Seq(S)
  <2>1. CR \in S /\ LF \in S /\ "-" \in S /\ "B" \in S
    BY <1>3
  <2>2. <<CR, LF>> \in Seq(S)
    BY <2>1
  <2>3. <<"-", "-", "B">> \in Seq(S)
    BY <2>1
  <2>4. <<"-", "-">> \in Seq(S)
    BY <2>1
  <2> QED BY <2>2, <2>3, <2>4 DEF CRLF, Boundary
<1>7. ASSUME NEW i \in 1..n PROVE EncodePart(parts[i]) \in Seq(S)
  <2> DEFINE hs == parts[i].headers
             lines == [j \in DOMAIN hs |-> <<hs[j]>> \o CRLF]
  <2>1. Len(hs) \in Nat /\ DOMAIN hs = 1..Len(hs) /\ \A j \in 1..Len(hs) : hs[j] \in S
    <3>1. hs \in Seq(S)
      BY <1>5
    <3> HIDE DEF hs
    <3> QED BY <3>1, LenProperties, ElementOfSeq
  <2>2. lines \in Seq(Seq(S))
    <3>1. ASSUME NEW j \in 1..Len(hs) PROVE <<hs[j]>> \o CRLF \in Seq(S)
      <4>1. <<hs[j]>> \in Seq(S)
        BY <2>1
      <4> QED BY <4>1, <1>6, ConcatProperties
    <3> HIDE DEF hs
    <3>2. lines \in [1..Len(hs) -> Seq(S)]
      BY <2>1, <3>1
    <3> HIDE DEF lines
    <3> QED BY <2>1, <3>2, SeqDef
  <2>3. FlattenSeq(lines) \in Seq(S)
    <3> HIDE DEF lines
    <3> QED BY <2>2, FlattenIsSeq
  <2>4. PICK all : all = FlattenSeq(lines)
    OBVIOUS
  <2>5. EncodePart(parts[i]) =
            Boundary \o CRLF \o all \o CRLF \o parts[i].data \o parts[i].end
    BY <2>4 DEF EncodePart
  <2>6. all \in Seq(S) /\ parts[i].data \in Seq(S) /\ parts[i].end \in Seq(S)
    BY <1>5, <2>3, <2>4
  <2>7. Boundary \o CRLF \in Seq(S)
    BY <1>6, ConcatProperties
  <2>8. Boundary \o CRLF \o all \in Seq(S)
    BY <2>6, <2>7, ConcatProperties
  <2>9. Boundary \o CRLF \o all \o CRLF \in Seq(S)
    BY <1>6, <2>8, ConcatProperties
  <2>10. Boundary \o CRLF \o all \o CRLF \o parts[i].data \in Seq(S)
    BY <2>6, <2>9, ConcatProperties
  <2>11. Boundary \o CRLF \o all \o CRLF \o parts[i].data \o parts[i].end \in Seq(S)
    BY <2>6, <2>10, ConcatProperties
  <2> QED BY <2>5, <2>11
<1> DEFINE encoded == [i \in DOMAIN parts |-> EncodePart(parts[i])]
<1>8. encoded \in Seq(Seq(S))
  <2>1. encoded \in [1..n -> Seq(S)]
    BY <1>1, <1>7
  <2> HIDE DEF encoded
  <2> QED BY <1>1, <2>1, SeqDef
<1>9. FlattenSeq(encoded) \in Seq(S)
  <2> HIDE DEF encoded
  <2> QED BY <1>8, FlattenIsSeq
<1>10. PICK all : all = FlattenSeq(encoded)
  OBVIOUS
<1>11. Encode(f) = f.preamble \o all \o Boundary \o <<"-", "-">> \o CRLF
  BY <1>10 DEF Encode, parts
<1>12. f.preamble \o all \in Seq(S)
  BY <1>4, <1>9, <1>10, ConcatProperties
<1>13. f.preamble \o all \o Boundary \in Seq(S)
  BY <1>6, <1>12, ConcatProperties
<1>14. f.preamble \o all \o Boundary \o <<"-", "-">> \in Seq(S)
  BY <1>6, <1>13, ConcatProperties
<1>15. f.preamble \o all \o Boundary \o <<"-", "-">> \o CRLF \in Seq(S)
  BY <1>6, <1>14, ConcatProperties
<1> QED BY <1>11, <1>15, SeqIsSeq

LEMMA BodyIsSeq ==
    ASSUME NEW s \in Inputs
    PROVE  IsSeq(s.args) /\ IsSeq(IF s.kind = "multipart" THEN Encode(s.form) ELSE s.vars)
<1>1. IsSeq(<<>>)
  BY DEF IsSeq
<1>2. \/ s.kind = "multipart" /\ s.form \in Forms /\ s.args \in Queries
      \/ s.kind # "multipart" /\ s.vars \in Queries \cup {<<>>} /\ s.args \in Queries
  BY DEF Inputs, Sent
<1>3. CASE s.kind = "multipart" /\ s.form \in Forms /\ s.args \in Queries
  BY <1>3, SentIsSeq, EncodeIsSeq
<1>4. CASE s.kind # "multipart" /\ s.vars \in Queries \cup {<<>>} /\ s.args \in Queries
  BY <1>1, <1>4, SentIsSeq
<1> QED BY <1>2, <1>3, <1>4

(* The request object leaves the parser's variables alone, but for the two   *)
(* ends of a request.                                                        *)
LEMMA BodySteps ==
    ASSUME [Next]_vars
    PROVE  \/ \E s \in Inputs, cs \in Charsets : BeginRequest(s, cs)
           \/ Parse /\ UNCHANGED objVars
           \/ EndPage
           \/ UNCHANGED bodyVars
BY DEF Next, vars, HeadersType, Puts, Flush, Configure, BinaryBegins, BinaryEnds, WriteBinary,
       Include, Env, TableSet, TableUnset, LoadEnv, UploadSave, Done, Runs

LEMMA BufferStep == ASSUME BufferInv, [Next]_vars PROVE BufferInv'
<1>1. ASSUME NEW s \in Inputs, NEW cs \in Charsets, BeginRequest(s, cs) PROVE BufferInv'
  <2>1. /\ body' = IF s.kind = "multipart" THEN Encode(s.form) ELSE s.vars
        /\ pos' = 0 /\ remaining' = Len(body') /\ pc' = "parse" /\ buf' = buf
    BY <1>1 DEF BeginRequest, Begin
  <2>2. IsSeq(body')
    BY <2>1, BodyIsSeq
  <2>3. Len(body') \in Nat
    BY <2>2 DEF IsSeq
  <2> QED BY <2>1, <2>2, <2>3 DEF BufferInv, BodyInv, Streaming
<1>2. CASE Parse
  BY <1>2, BufferParseArgs, BufferUtilRead, BufferAtEof, BufferLine, BufferTmpFile,
     BufferMozilla, BufferRead, BufferParsed DEF Parse, WriteFails
<1>3. CASE EndPage
  <2>1. pc' = "idle" /\ UNCHANGED <<body, pos, remaining, buf>>
    BY <1>3 DEF EndPage, EndRequest, bufVars
  <2> QED BY <2>1 DEF BufferInv, BodyInv, Streaming
<1>4. CASE UNCHANGED bodyVars
  <2>1. UNCHANGED <<pc, body, pos, remaining, buf>>
    BY <1>4 DEF bodyVars, bufVars
  <2> QED BY <2>1 DEF BufferInv, BodyInv, Streaming
<1> QED BY <1>1, <1>2, <1>3, <1>4, BodySteps

LEMMA InitBuffer == Init => BufferInv
<1>1. IsSeq(<<>>) /\ Len(<<>>) = 0
  BY DEF IsSeq
<1> QED BY <1>1, NewBufferOK DEF Init, BodyInit, BufferInv, BodyInv, Streaming

(* Whatever lengths Apache hands the body over in, the buffer holds the      *)
(* bytes that came last.                                                     *)
THEOREM SpecBufferInv == Spec => []BufferInv
<1>1. BufferInv /\ [Next]_vars => BufferInv'
  BY BufferStep
<1> QED BY <1>1, InitBuffer, PTL DEF Spec

(* The parser never looks at a byte of an earlier fill as if it were new,    *)
(* and loses none: what is in the buffer is the next data of the body.       *)
THEOREM SpecBufferIsNextData == Spec => []BufferIsNextData
<1>1. BufferInv => BufferIsNextData
  <2> SUFFICES ASSUME BufferInv, pc \in Streaming
               PROVE  /\ buf.begin = NoPtr => buf.n = 0
                      /\ buf.n <= pos
                      /\ Data(buf) = SubSeq(body, pos - buf.n + 1, pos)
    BY DEF BufferIsNextData, Streaming
  <2>1. BufOK(buf) /\ Holds(buf, body, pos) /\ IsSeq(body) /\ pos \in 0..Len(body)
    BY DEF BufferInv, BodyInv
  <2>2. (buf.begin = NoPtr => buf.n = 0) /\ buf.n <= pos
    BY <2>1 DEF BufOK, Holds, NoPtr
  <2> DEFINE p == pos - buf.n
             sub == SubSeq(body, p + 1, p + buf.n)
  <2>3. /\ p \in 0..Len(body) /\ buf.n \in 0..(Len(body) - p) /\ p + buf.n = pos
        /\ buf.n \in Nat
    BY <2>1, <2>2 DEF BufOK, IsSeq
  <2>4. Len(sub) = buf.n /\ \A i \in 1..buf.n : sub[i] = body[p + i]
    <3> HIDE DEF p
    <3> QED BY <2>1, <2>3, BlockFacts
  <2>5. IsSeq(sub)
    <3> DEFINE S == {body[i] : i \in 1..Len(body)}
    <3>1. \A i \in (p + 1)..(p + buf.n) : body[i] \in S
      BY <2>1, <2>3 DEF IsSeq
    <3>2. p + 1 \in Int /\ p + buf.n \in Int
      BY <2>1, <2>3 DEF IsSeq
    <3> HIDE DEF p, S
    <3>3. sub \in Seq(S)
      BY <3>1, <3>2, SubSeqProperties
    <3> HIDE DEF sub
    <3> QED BY <3>3, SeqIsSeq
  <2>6. sub = [i \in 1..buf.n |-> body[p + i]]
    <3> HIDE DEF sub, p
    <3> QED BY <2>4, <2>5 DEF IsSeq
  <2>7. Data(buf) = [i \in 1..buf.n |-> body[p + i]]
    <3>1. \A i \in 1..buf.n : buf.mem[buf.begin + i - 1] = body[p + i]
      BY <2>1 DEF Holds
    <3> QED BY <3>1 DEF Data
  <2>8. sub = SubSeq(body, pos - buf.n + 1, pos)
    BY <2>3
  <2> HIDE DEF sub, p
  <2> QED BY <2>2, <2>6, <2>7, <2>8
<1> QED BY <1>1, SpecBufferInv, PTL

-----------------------------------------------------------------------------
(* The parameters: those of the query string, then those of the body; the    *)
(* value that is read belongs to the body.                                   *)
ArgsFirst ==
    nargs = Len(sends.args) /\ nargs <= Len(parms) /\ \A i \in 1..nargs : parms[i] = sends.args[i]

ParmInv ==
    /\ IsSeq(parms) /\ IsSeq(sends.args) /\ nargs \in 0..Len(parms)
    /\ pc = "parse" => nargs = 0
    /\ pc \notin {"idle", "parse"} => ArgsFirst
    /\ pc = "value" => Len(parms) > nargs

(* Steps that leave the parameters alone, within a request or at its end.    *)
LEMMA SameParms ==
    ASSUME ParmInv, UNCHANGED <<sends, parms, nargs>>, pc \notin {"idle", "parse"},
           pc' \notin {"parse", "value"}
    PROVE  ParmInv'
BY DEF ParmInv, ArgsFirst

(* More parameters, behind those of the query string.                        *)
LEMMA MoreParms ==
    ASSUME ParmInv, UNCHANGED <<sends, nargs>>, pc \notin {"idle", "parse"}, pc' # "parse",
           IsSeq(parms'), Len(parms') >= Len(parms),
           pc' = "value" => Len(parms') > Len(parms),
           \A i \in 1..nargs : parms'[i] = parms[i]
    PROVE  ParmInv'
<1>1. ArgsFirst /\ Len(parms) \in Nat /\ Len(parms') \in Nat /\ nargs \in 0..Len(parms)
      /\ IsSeq(sends.args)
  BY DEF ParmInv, IsSeq
<1>2. nargs' \in 0..Len(parms') /\ nargs' <= Len(parms')
  BY <1>1
<1>3. pc' = "value" => Len(parms') > nargs'
  BY <1>1
<1>4. ArgsFirst'
  BY <1>1, <1>2 DEF ArgsFirst
<1> QED BY <1>1, <1>2, <1>3, <1>4 DEF ParmInv

LEMMA ParmParseArgs == ASSUME ParmInv, ParseArgs PROVE ParmInv'
<1>1. /\ pc = "parse" /\ parms' = sends.args /\ sends' = sends
      /\ nargs' = IF sends.args = <<>> THEN nargs ELSE Len(sends.args)
      /\ pc' \in {"run", "cleanup", "eof", "util_read"}
  BY DEF ParseArgs, Parsed
<1>2. IsSeq(sends.args) /\ nargs = 0 /\ Len(sends.args) \in Nat
  BY <1>1 DEF ParmInv, IsSeq
<1>3. nargs' = Len(sends.args)
  BY <1>1, <1>2
<1> QED BY <1>1, <1>2, <1>3 DEF ParmInv, ArgsFirst

LEMMA ParmUtilRead == ASSUME ParmInv, BodyInv, UtilRead PROVE ParmInv'
<1>1. /\ pc = "util_read" /\ UNCHANGED <<sends, nargs>>
      /\ \/ pc' = pc /\ parms' = parms
         \/ pc' \in {"run", "cleanup"} /\ parms' = parms \o SubSeq(body, 1, pos)
  BY DEF UtilRead, Parsed
<1>2. IsSeq(parms) /\ nargs \in 0..Len(parms)
  BY DEF ParmInv
<1>3. IsSeq(SubSeq(body, 1, pos))
  <2>1. IsSeq(body) /\ pos \in (1 - 1)..Len(body) /\ 1 \in 1..(Len(body) + 1)
    BY DEF BodyInv, IsSeq
  <2> QED BY <2>1, PieceFacts
<1>4. CASE parms' = parms \o SubSeq(body, 1, pos) /\ pc' \in {"run", "cleanup"}
  <2>1. /\ IsSeq(parms') /\ Len(parms') >= Len(parms)
        /\ \A i \in 1..Len(parms) : parms'[i] = parms[i]
    BY <1>2, <1>3, <1>4, ConcatFacts
  <2>2. \A i \in 1..nargs : parms'[i] = parms[i]
    <3>1. 1..nargs \subseteq 1..Len(parms)
      BY <1>2 DEF IsSeq
    <3> QED BY <2>1, <3>1
  <2> QED BY <1>1, <1>4, <2>1, <2>2, MoreParms
<1> QED BY <1>1, <1>4, SameParms

LEMMA ParmHeaderLine == ASSUME ParmInv, HeaderLine PROVE ParmInv'
<1>1. /\ pc = "headers" /\ sends' = sends /\ nargs' = nargs
      /\ \/ pc' \in {"headers", "eof"} /\ parms' = parms
         \/ pc' \in {"value", "tmpfile"} /\ \E x : parms' = Append(parms, x)
  BY DEF HeaderLine, Dispatch, parmVars
<1>2. IsSeq(parms) /\ nargs \in 0..Len(parms)
  BY DEF ParmInv
<1>3. ASSUME NEW x, parms' = Append(parms, x), pc' \in {"value", "tmpfile"} PROVE ParmInv'
  <2>1. /\ IsSeq(parms') /\ Len(parms') = Len(parms) + 1
        /\ \A i \in 1..Len(parms) : parms'[i] = parms[i]
    BY <1>2, <1>3, AppendIsSeq
  <2>2. Len(parms') > Len(parms) /\ Len(parms') >= Len(parms) /\ 1..nargs \subseteq 1..Len(parms)
    BY <1>2, <2>1 DEF IsSeq
  <2> QED BY <1>1, <1>3, <2>1, <2>2, MoreParms
<1> QED BY <1>1, <1>3, SameParms

LEMMA ParmReadValue == ASSUME ParmInv, ReadValue PROVE ParmInv'
<1>1. /\ pc = "value" /\ sends' = sends /\ nargs' = nargs /\ pc' \in {"eof", "value"}
      /\ \E x : parms' = [parms EXCEPT ![Len(parms)] = x]
  BY DEF ReadValue
<1>2. PICK x : parms' = [parms EXCEPT ![Len(parms)] = x]
  BY <1>1
<1>3. IsSeq(parms) /\ nargs \in 0..Len(parms) /\ Len(parms) > nargs /\ ArgsFirst
      /\ IsSeq(sends.args)
  BY <1>1 DEF ParmInv
<1>4. IsSeq(parms') /\ Len(parms') = Len(parms)
  BY <1>2, <1>3, ExceptIsSeq
<1>5. \A i \in 1..nargs : parms'[i] = parms[i]
  <2> SUFFICES ASSUME NEW i \in 1..nargs PROVE parms'[i] = parms[i]
    OBVIOUS
  <2>1. i # Len(parms) /\ i \in 1..Len(parms)
    BY <1>3 DEF IsSeq
  <2>2. DOMAIN parms = 1..Len(parms)
    BY <1>3 DEF IsSeq
  <2> QED BY <1>2, <2>1, <2>2
<1>6. ArgsFirst'
  BY <1>1, <1>3, <1>4, <1>5 DEF ArgsFirst
<1> QED BY <1>1, <1>3, <1>4, <1>6 DEF ParmInv

LEMMA ParmStep == ASSUME ParmInv, BodyInv, [Next]_vars PROVE ParmInv'
<1>1. ASSUME NEW s \in Inputs, NEW cs \in Charsets, BeginRequest(s, cs) PROVE ParmInv'
  <2>1. sends' = s /\ parms' = <<>> /\ nargs' = 0 /\ pc' = "parse"
    BY <1>1 DEF BeginRequest, Begin
  <2>2. IsSeq(<<>>) /\ Len(<<>>) = 0
    BY DEF IsSeq
  <2>3. IsSeq(s.args)
    BY BodyIsSeq
  <2> QED BY <2>1, <2>2, <2>3 DEF ParmInv
<1>2. CASE AtEof \/ FindBoundary \/ TmpFile \/ MozillaCheck \/ ReadFile \/ WriteFails
  <2>1. /\ UNCHANGED <<sends, parms, nargs>> /\ pc \notin {"idle", "parse"}
        /\ pc' \notin {"parse", "value"}
    BY <1>2 DEF AtEof, FindBoundary, TmpFile, MozillaCheck, ReadFile, WriteFails, Parsed, parmVars
  <2> QED BY <2>1, SameParms
<1>3. CASE Parse
  BY <1>2, <1>3, ParmParseArgs, ParmUtilRead, ParmHeaderLine, ParmReadValue DEF Parse
<1>4. CASE EndPage
  <2>1. /\ UNCHANGED <<sends, parms, nargs>> /\ pc \notin {"idle", "parse"}
        /\ pc' \notin {"parse", "value"}
    BY <1>4 DEF EndPage, EndRequest
  <2> QED BY <2>1, SameParms
<1>5. CASE UNCHANGED bodyVars
  <2>1. UNCHANGED <<pc, sends, parms, nargs>>
    BY <1>5 DEF bodyVars, parmVars
  <2> QED BY <2>1 DEF ParmInv, ArgsFirst
<1> QED BY <1>1, <1>3, <1>4, <1>5, BodySteps

LEMMA InitParm == Init => ParmInv
<1>1. IsSeq(<<>>) /\ Len(<<>>) = 0
  BY DEF IsSeq
<1> QED BY <1>1 DEF Init, BodyInit, ParmInv, ArgsFirst, Sent
-----------------------------------------------------------------------------
(* Where the parser is, what it has counted, and the values of the           *)
(* environment.                                                              *)
EnvValues == [DOMAIN EnvGroup -> {None, "apache", "script"}]

CountInv ==
    /\ pc \in Streaming \cup {"idle", "parse", "util_read", "run", "cleanup"}
    /\ reqs \in 0..MaxRequests /\ cmds \in 0..MaxCommands
    /\ pc # "idle" => reqs > 0
    /\ pc = "tmpfile" => Len(uploads) > 0
    /\ tmp \subseteq [req : 1..MaxRequests, n : 1..Len(uploads)]

LEMMA CountStep == ASSUME CountInv, FilesInv, [Next]_vars PROVE CountInv'
<1>0. /\ reqs \in Nat /\ IsSeq(uploads) /\ Len(uploads) \in Nat
      /\ MaxRequests \in Nat /\ MaxCommands \in Nat
  BY BodyAssumption, ObjectAssumption DEF FilesInv, IsSeq
<1>1. ASSUME NEW s \in Inputs, NEW cs \in Charsets, BeginRequest(s, cs) PROVE CountInv'
  <2>1. /\ pc = "idle" /\ reqs < MaxRequests /\ reqs' = reqs + 1 /\ pc' = "parse"
        /\ tmp' = tmp /\ cmds' = 0
    BY <1>1 DEF BeginRequest, Begin, InitRequest
  <2>2. tmp' = {}
    BY <2>1 DEF FilesInv
  <2> QED BY <1>0, <2>1, <2>2 DEF CountInv
<1>2. ASSUME pc \notin {"idle"}, reqs' = reqs, cmds' = cmds, uploads' = uploads, tmp' \subseteq tmp,
             pc' \in Streaming \cup {"idle", "parse", "util_read", "run", "cleanup"},
             pc' # "tmpfile"
      PROVE  CountInv'
  BY <1>2 DEF CountInv
<1>3. ASSUME Parse, UNCHANGED objVars PROVE CountInv'
  <2>1. cmds' = cmds
    BY <1>3 DEF objVars
  <2>2. CASE ParseArgs \/ UtilRead \/ AtEof \/ FindBoundary \/ MozillaCheck \/ ReadValue
             \/ WriteFails
    <3>1. /\ pc # "idle" /\ reqs' = reqs /\ uploads' = uploads /\ tmp' = tmp
          /\ pc' \in Streaming \cup {"idle", "parse", "util_read", "run", "cleanup"}
          /\ pc' # "tmpfile"
      BY <2>2 DEF ParseArgs, UtilRead, AtEof, FindBoundary, MozillaCheck, ReadValue, WriteFails,
                  Parsed, parmVars, Streaming
    <3> QED BY <1>2, <2>1, <3>1
  <2>3. CASE HeaderLine
    <3>1. /\ pc = "headers" /\ reqs' = reqs /\ tmp' = tmp
          /\ \/ uploads' = uploads /\ pc' \in {"headers", "eof", "value"}
             \/ \E u : uploads' = Append(uploads, u) /\ pc' = "tmpfile"
      BY <2>3 DEF HeaderLine, Dispatch, parmVars
    <3>2. ASSUME NEW u, uploads' = Append(uploads, u), pc' = "tmpfile" PROVE CountInv'
      <4>1. Len(uploads') = Len(uploads) + 1
        BY <1>0, <3>2, AppendIsSeq
      <4>2. 1..Len(uploads) \subseteq 1..Len(uploads') /\ Len(uploads') > 0
        BY <1>0, <4>1
      <4> QED BY <2>1, <3>1, <3>2, <4>2 DEF CountInv, Streaming
    <3>3. CASE uploads' = uploads /\ pc' \in {"headers", "eof", "value"}
      BY <1>2, <2>1, <3>1, <3>3 DEF Streaming
    <3> QED BY <3>1, <3>2, <3>3
  <2>4. CASE TmpFile
    <3>1. /\ pc = "tmpfile" /\ reqs' = reqs /\ uploads' = uploads
          /\ pc' \in {"mozilla", "cleanup"}
          /\ tmp' \subseteq tmp \cup {[req |-> reqs, n |-> Len(uploads)]}
      BY <2>4 DEF TmpFile, Parsed
    <3>2. reqs \in 1..MaxRequests /\ Len(uploads) \in 1..Len(uploads)
      BY <1>0, <3>1 DEF CountInv
    <3> QED BY <2>1, <3>1, <3>2 DEF CountInv, Streaming
  <2>5. CASE ReadFile
    <3>1. /\ pc = "file" /\ reqs' = reqs /\ tmp' = tmp /\ pc' \in {"eof", "file"}
          /\ \E u : uploads' = [uploads EXCEPT ![Len(uploads)] = u]
      BY <2>5 DEF ReadFile
    <3>2. Len(uploads') = Len(uploads)
      BY <1>0, <3>1, ExceptIsSeq
    <3> QED BY <2>1, <3>1, <3>2 DEF CountInv, Streaming
  <2> QED BY <1>3, <2>2, <2>3, <2>4, <2>5 DEF Parse
<1>4. CASE EndPage
  <2>1. /\ pc # "idle" /\ reqs' = reqs /\ cmds' = cmds /\ uploads' = uploads /\ tmp' \subseteq tmp
        /\ pc' = "idle"
    BY <1>4 DEF EndPage, EndRequest
  <2> QED BY <1>2, <2>1
<1>5. ASSUME UNCHANGED bodyVars, cmds' \in {cmds, cmds + 1}, cmds' = cmds \/ cmds < MaxCommands
      PROVE  CountInv'
  <2>1. UNCHANGED <<pc, reqs, uploads, tmp>>
    BY <1>5 DEF bodyVars, parmVars
  <2>2. cmds' \in 0..MaxCommands
    BY <1>0, <1>5 DEF CountInv
  <2> QED BY <2>1, <2>2 DEF CountInv
<1>6. ASSUME \/ \E t \in Types : HeadersType(t)
             \/ Puts \/ Flush
             \/ \E enc \in Encodings : Configure("encoding", enc)
             \/ Configure("translation", "crlf")
             \/ BinaryBegins \/ \E ok \in BOOLEAN : BinaryEnds(ok)
             \/ WriteBinary \/ Include
             \/ \E k \in DOMAIN EnvGroup : Env(k) \/ TableSet(k) \/ TableUnset(k)
             \/ LoadEnv
             \/ \E name \in Range(UploadNames) : UploadSave(name)
             \/ Done \/ UNCHANGED vars
      PROVE CountInv'
  <2>1. /\ UNCHANGED bodyVars /\ cmds' \in {cmds, cmds + 1}
        /\ cmds' = cmds \/ cmds < MaxCommands
    BY <1>6 DEF vars, objVars, HeadersType, Puts, Flush, Configure, BinaryBegins, BinaryEnds,
                WriteBinary, Include, Env, TableSet, TableUnset, LoadEnv, UploadSave, Done, Runs
  <2> QED BY <1>5, <2>1
<1> QED BY <1>1, <1>3, <1>4, <1>6 DEF Next

LEMMA LoadTyped ==
    ASSUME NEW e, e.env \in EnvValues, NEW group \in {"common", "cgi", "vars"}
    PROVE  Load(e, group).env \in EnvValues
<1>1. CASE group \in e.loaded
  BY <1>1 DEF Load
<1>2. CASE group \notin e.loaded
  <2>1. Load(e, group).env = [k \in DOMAIN e.env |-> IF k \in Of(group) THEN "apache" ELSE e.env[k]]
    BY <1>2 DEF Load
  <2> QED BY <2>1 DEF EnvValues
<1> QED BY <1>1, <1>2

LEMMA LookupTyped ==
    ASSUME env \in EnvValues, NEW k
    PROVE  GetEnvVar(Environment, k).state.env \in EnvValues
<1> DEFINE common == Load(Environment, "common")
           cgi == Load(common, "cgi")
<1>1. Environment.env \in EnvValues
  BY DEF Environment
<1>2. common.env \in EnvValues
  BY <1>1, LoadTyped
<1>3. cgi.env \in EnvValues
  <2> HIDE DEF common
  <2> QED BY <1>2, LoadTyped
<1>4. GetEnvVar(Environment, k).state \in {Environment, common, cgi}
  <2>1. CASE k \in Of("header")
    BY <2>1 DEF GetEnvVar
  <2>2. CASE k \notin Of("header") /\ common.env[k] # None
    BY <2>2 DEF GetEnvVar
  <2>3. CASE k \notin Of("header") /\ common.env[k] = None
    BY <2>3 DEF GetEnvVar
  <2> QED BY <2>1, <2>2, <2>3
<1> HIDE DEF common, cgi
<1> QED BY <1>1, <1>2, <1>3, <1>4

LEMMA LoadAllTyped ==
    ASSUME env \in EnvValues PROVE InitEnvVars(Environment).env \in EnvValues
<1> DEFINE c1 == Load(Environment, "cgi")
           c2 == Load(c1, "common")
<1>1. Environment.env \in EnvValues
  BY DEF Environment
<1>2. c1.env \in EnvValues
  BY <1>1, LoadTyped
<1>3. c2.env \in EnvValues
  <2> HIDE DEF c1
  <2> QED BY <1>2, LoadTyped
<1>4. Load(c2, "vars").env \in EnvValues
  <2> HIDE DEF c2
  <2> QED BY <1>3, LoadTyped
<1> QED BY <1>4 DEF InitEnvVars

LEMMA EnvTypedStep == ASSUME env \in EnvValues, [Next]_vars PROVE env' \in EnvValues
<1>1. ASSUME NEW k \in DOMAIN EnvGroup, Env(k) PROVE env' \in EnvValues
  BY <1>1, LookupTyped DEF Env, SetEnvironment
<1>2. CASE LoadEnv
  BY <1>2, LoadAllTyped DEF LoadEnv, SetEnvironment
<1>3. ASSUME NEW k \in DOMAIN EnvGroup, TableSet(k) \/ TableUnset(k) PROVE env' \in EnvValues
  BY <1>3 DEF TableSet, TableUnset, EnvValues
<1>4. ASSUME NEW s, NEW cs, BeginRequest(s, cs) PROVE env' \in EnvValues
  BY <1>4 DEF BeginRequest, InitRequest, EnvValues
<1>5. ASSUME \/ Parse /\ UNCHANGED objVars
             \/ \E t \in Types : HeadersType(t)
             \/ Puts \/ Flush
             \/ \E enc \in Encodings : Configure("encoding", enc)
             \/ Configure("translation", "crlf")
             \/ BinaryBegins \/ \E ok \in BOOLEAN : BinaryEnds(ok)
             \/ WriteBinary \/ Include
             \/ \E name \in Range(UploadNames) : UploadSave(name)
             \/ EndPage \/ Done \/ UNCHANGED vars
      PROVE env' \in EnvValues
  <2>1. env' = env
    BY <1>5 DEF objVars, vars, envVars, HeadersType, Puts, Flush, Configure, BinaryBegins,
                BinaryEnds, WriteBinary, Include, UploadSave, EndPage, Done
  <2> QED BY <2>1
<1> QED BY <1>1, <1>2, <1>3, <1>4, <1>5 DEF Next

(* All that is known of the variables of the parser and of the request.      *)
RequestInv == ObjInv /\ BufferInv /\ ParmInv /\ CountInv /\ env \in EnvValues

(* RequestInv holds in every state: of the object, of the buffer, of the     *)
(* parameters and of the environment, whatever arrives and whatever pages    *)
(* do.                                                                       *)
THEOREM SpecRequestInv == Spec => []RequestInv
<1>1. Init => RequestInv
  <2> SUFFICES ASSUME Init PROVE RequestInv
    OBVIOUS
  <2>1. ObjInv /\ BufferInv /\ ParmInv
    BY InitObj, InitBuffer, InitParm
  <2>2. CountInv
    BY BodyAssumption, ObjectAssumption DEF Init, BodyInit, CountInv
  <2>3. env \in EnvValues
    BY DEF Init, EnvValues
  <2> QED BY <2>1, <2>2, <2>3 DEF RequestInv
<1>2. RequestInv /\ [Next]_vars => RequestInv'
  <2> SUFFICES ASSUME RequestInv, [Next]_vars PROVE RequestInv'
    OBVIOUS
  <2>1. ChannelInv /\ EnvInv /\ FilesInv /\ BufferInv /\ BodyInv /\ ParmInv /\ CountInv
        /\ env \in EnvValues
    BY DEF RequestInv, ObjInv, ChannelInv, BufferInv
  <2>2. ChannelInv' /\ EnvInv' /\ FilesInv'
    BY <2>1, ChannelStep, EnvStep, FilesStep
  <2>3. BufferInv' /\ ParmInv' /\ CountInv' /\ env' \in EnvValues
    BY <2>1, BufferStep, ParmStep, CountStep, EnvTypedStep
  <2> QED BY <2>2, <2>3 DEF RequestInv, ObjInv, ChannelInv
<1> QED BY <1>1, <1>2, PTL DEF Spec

(* The variables of the parser and the request object have their types: of   *)
(* what Apache hands over no byte falls outside of the buffer, whatever the  *)
(* size of the blocks, and the parameters of the query string are among the  *)
(* parameters.                                                               *)
THEOREM SpecTypeOK == Spec => []TypeOK
<1>1. RequestInv => TypeOK
  <2> SUFFICES ASSUME RequestInv PROVE TypeOK
    OBVIOUS
  <2>1. ChanOK /\ EnvInv /\ FilesInv /\ BufferInv /\ ParmInv /\ CountInv /\ env \in EnvValues
    BY DEF RequestInv, ObjInv
  <2>2. pc \in {"idle", "parse", "util_read", "eof", "boundary", "headers", "tmpfile",
                "mozilla", "value", "file", "run", "cleanup"}
    BY <2>1 DEF CountInv, Streaming
  <2>3. reqs \in 0..MaxRequests /\ cmds \in 0..MaxCommands
        /\ tmp \subseteq [req : 1..MaxRequests, n : 1..Len(uploads)]
    BY <2>1 DEF CountInv
  <2>4. pos \in 0..Len(body) /\ remaining \in Int /\ remaining <= Len(body)
    BY <2>1 DEF BufferInv, BodyInv
  <2>5. buf.n \in 0..BufSize /\ buf.begin \in NoPtr..(BufSize + 1)
    <3>1. BufOK(buf)
      BY <2>1 DEF BufferInv
    <3> QED BY <3>1, BufSizeIs DEF BufOK, NoPtr
  <2>6. nargs \in 0..Len(parms)
    BY <2>1 DEF ParmInv
  <2>7. resp \in [printed : BOOLEAN, set : BOOLEAN, charset : Charsets \cup {None},
                  type : Types \cup Charsets \cup {None, "text/html"}]
    BY <2>1 DEF ChanOK, Responses
  <2>8. chan \in [translation : {"auto", "lf", "crlf"},
                  encoding : Encodings \cup {"default", "binary"}]
    BY <2>1 DEF ChanOK, Settings
  <2>9. loaded \subseteq {"common", "cgi", "vars"}
    BY <2>1 DEF EnvInv, EnvSound, Environment
  <2>10. env \in [DOMAIN EnvGroup -> {None, "apache", "script"}]
    BY <2>1 DEF EnvValues
  <2> QED BY <2>2, <2>3, <2>4, <2>5, <2>6, <2>7, <2>8, <2>9, <2>10 DEF TypeOK
<1> QED BY <1>1, SpecRequestInv, PTL

-----------------------------------------------------------------------------
(* The lookups in the table of the parameters.                               *)

(* The values of k among the first parameters, one parameter after the other.*)
Collects(g, k, table) ==
    /\ g[0] = <<>>
    /\ \A i \in 1..Len(table) :
          g[i] = IF table[i].key = k THEN Append(g[i - 1], table[i].val) ELSE g[i - 1]

LEMMA CollectSteps ==
    ASSUME NEW table, IsSeq(table), NEW k
    PROVE  \E g : /\ Collects(g, k, table) /\ ValuesOf(k, table) = g[Len(table)]
                  /\ \A i \in 0..Len(table) : IsSeq(g[i])
<1> DEFINE n == Len(table)
           S == {table[i].val : i \in 1..n}
           V == Seq(S)
           G == [p \in V \X (1..n) |->
                    IF table[p[2]].key = k THEN Append(p[1], table[p[2]].val) ELSE p[1]]
           Eq(u) == u = [s \in SUBSET (DOMAIN table) |->
                      IF s = {} THEN <<>>
                      ELSE IF table[Max(s)].key = k
                           THEN Append(u[s \ {Max(s)}], table[Max(s)].val)
                           ELSE u[s \ {Max(s)}]]
<1>1. n \in Nat /\ DOMAIN table = 1..n
  BY DEF IsSeq
<1>2. <<>> \in V
  BY EmptySeq
<1>3. G \in [V \X (1..n) -> V]
  <2>1. ASSUME NEW p \in V \X (1..n)
        PROVE  (IF table[p[2]].key = k THEN Append(p[1], table[p[2]].val) ELSE p[1]) \in V
    <3>1. p[1] \in Seq(S) /\ p[2] \in 1..n
      BY <1>1
    <3>2. table[p[2]].val \in S
      BY <3>1
    <3> HIDE DEF S
    <3> QED BY <3>1, <3>2, AppendProperties
  <2> HIDE DEF V
  <2> QED BY <2>1
<1>4. \E f : Eq(f)
  <2>1. PICK f \in [SUBSET (1..n) -> V] : Iterates(f, n, <<>>, G)
    <3> HIDE DEF G, n, V
    <3> QED BY <1>1, <1>2, <1>3, IterationExists
  <2>2. ASSUME NEW s \in SUBSET (1..n), s # {}
        PROVE  f[s] = IF table[Max(s)].key = k
                      THEN Append(f[s \ {Max(s)}], table[Max(s)].val) ELSE f[s \ {Max(s)}]
    <3>1. Max(s) \in s
      <4> HIDE DEF n
      <4> QED BY <2>2, <1>1, MaxIn
    <3>2. f[s] = G[<<f[s \ {Max(s)}], Max(s)>>]
      BY <2>2, <2>1 DEF Iterates
    <3>3. <<f[s \ {Max(s)}], Max(s)>> \in V \X (1..n)
      <4> HIDE DEF V
      <4> QED BY <2>1, <3>1
    <3> HIDE DEF V, n
    <3> QED BY <3>2, <3>3
  <2>3. f[{}] = <<>>
    BY <2>1 DEF Iterates
  <2>4. f = [s \in SUBSET (1..n) |-> f[s]]
    BY <2>1
  <2> HIDE DEF n, G, V
  <2>5. Eq(f)
    BY <2>2, <2>3, <2>4, <1>1
  <2> HIDE DEF Eq
  <2> QED BY <2>5
<1>5. PICK w : Eq(w) /\ ValuesOf(k, table) = w[1..n]
  <2>1. ValuesOf(k, table) = (CHOOSE u : Eq(u))[DOMAIN table]
    BY DEF ValuesOf, FoldLeft, MapThenFoldSet
  <2> HIDE DEF Eq, n
  <2> QED BY <1>1, <1>4, <2>1
<1>6. \A s \in SUBSET (1..n) :
          w[s] = IF s = {} THEN <<>>
                 ELSE IF table[Max(s)].key = k
                      THEN Append(w[s \ {Max(s)}], table[Max(s)].val) ELSE w[s \ {Max(s)}]
  BY <1>1, <1>5
<1>7. FoldEquations(w, n, V, <<>>, G)
  <2>1. w[{}] = <<>>
    <3>1. {} \in SUBSET (1..n)
      OBVIOUS
    <3> HIDE DEF n, Eq
    <3> QED BY <1>6, <3>1
  <2>2. ASSUME NEW s \in SUBSET (1..n), s # {}, w[s \ {Max(s)}] \in V
        PROVE  w[s] = G[<<w[s \ {Max(s)}], Max(s)>>]
    <3>1. Max(s) \in 1..n
      <4> HIDE DEF n
      <4> QED BY <2>2, <1>1, MaxIn
    <3>2. <<w[s \ {Max(s)}], Max(s)>> \in V \X (1..n)
      <4> HIDE DEF V, n
      <4> QED BY <2>2, <3>1
    <3> HIDE DEF V, n, Eq
    <3> QED BY <2>2, <3>2, <1>6
  <2> HIDE DEF n, V, G, Eq
  <2> QED BY <2>1, <2>2 DEF FoldEquations
<1>8. PICK g : Walks(g, n, V, <<>>, G) /\ g[n] = w[1..n]
  <2>1. n \in Nat
    BY <1>1
  <2> HIDE DEF n, V, G, Eq
  <2>2. PICK base \in V : base = <<>>
    BY <1>2
  <2>3. FoldEquations(w, n, V, base, G)
    BY <1>7, <2>2
  <2>4. FoldWalks(w, n, V, base, G)
    BY <2>1, <1>3, <2>3, FoldSteps
  <2> QED BY <2>2, <2>4 DEF FoldWalks
<1>9. g \in [0..n -> V] /\ g[0] = <<>>
  BY <1>8 DEF Walks
<1>10. ASSUME NEW i \in 1..n
       PROVE  g[i] = IF table[i].key = k THEN Append(g[i - 1], table[i].val) ELSE g[i - 1]
  <2>1. i - 1 \in 0..n
    BY <1>1
  <2>2. g[i] = G[<<g[i - 1], i>>] /\ <<g[i - 1], i>> \in V \X (1..n)
    <3> HIDE DEF V, G
    <3> QED BY <1>8, <1>9, <2>1 DEF Walks
  <2> HIDE DEF V, n
  <2> QED BY <2>2
<1>11. ASSUME NEW i \in 0..n PROVE IsSeq(g[i])
  <2>1. g[i] \in Seq(S)
    BY <1>9, <1>11
  <2> HIDE DEF S
  <2> QED BY <2>1, SeqIsSeq
<1>12. Collects(g, k, table)
  BY <1>9, <1>10 DEF Collects
<1> HIDE DEF Eq, V, G
<1> QED BY <1>5, <1>8, <1>11, <1>12

(* A name has values if and only if it is in the table.                      *)
LEMMA ValuesFound ==
    ASSUME NEW table, IsSeq(table), NEW k
    PROVE  ValuesOf(k, table) # <<>> <=> \E i \in 1..Len(table) : table[i].key = k
<1> DEFINE n == Len(table)
<1>1. PICK g : /\ Collects(g, k, table) /\ ValuesOf(k, table) = g[n]
               /\ \A i \in 0..n : IsSeq(g[i])
  BY CollectSteps
<1>2. n \in Nat
  BY DEF IsSeq
<1> HIDE DEF n
<1>3. g[0] = <<>>
      /\ \A i \in 1..n : g[i] = IF table[i].key = k THEN Append(g[i - 1], table[i].val)
                                                     ELSE g[i - 1]
  BY <1>1 DEF Collects, n
<1> DEFINE T == {m \in 0..n : g[m] # <<>> <=> \E i \in 1..m : table[i].key = k}
<1>4. \A m \in 0..n : m \in T
  <2>1. 0 \in T
    BY <1>2, <1>3
  <2>2. \A m \in 0..n : m \in T /\ m < n => m + 1 \in T
    <3> SUFFICES ASSUME NEW m \in 0..n, m \in T, m < n PROVE m + 1 \in T
      OBVIOUS
    <3>1. /\ m + 1 \in 1..n /\ m + 1 \in 0..n /\ (m + 1) - 1 = m
          /\ 1..(m + 1) = (1..m) \cup {m + 1}
      BY <1>2
    <3>2. g[m] # <<>> <=> \E i \in 1..m : table[i].key = k
      OBVIOUS
    <3>3. CASE table[m + 1].key = k
      <4>1. g[m + 1] = Append(g[m], table[m + 1].val)
        BY <1>3, <3>1, <3>3
      <4>2. IsSeq(g[m + 1]) /\ Len(g[m + 1]) = Len(g[m]) + 1 /\ Len(g[m]) \in Nat
        BY <1>1, <4>1, AppendIsSeq DEF IsSeq
      <4>3. Len(g[m + 1]) # 0
        BY <4>2
      <4>4. g[m + 1] # <<>>
        BY <4>3
      <4> QED BY <3>1, <3>3, <4>4
    <3>4. CASE table[m + 1].key # k
      <4>1. g[m + 1] = g[m]
        BY <1>3, <3>1, <3>4
      <4> QED BY <3>1, <3>2, <3>4, <4>1
    <3> QED BY <3>3, <3>4
  <2> HIDE DEF T
  <2> QED BY <1>2, <2>1, <2>2, Induction
<1>5. n \in 0..n
  BY <1>2
<1>6. g[n] # <<>> <=> \E i \in 1..n : table[i].key = k
  BY <1>4, <1>5
<1> QED BY <1>1, <1>6 DEF n

(* What of the table each of the three commands looks at.                    *)
LEMMA VisibleFacts ==
    ASSUME IsSeq(parms), nargs \in 0..Len(parms), NEW source \in Sources
    PROVE  IsSeq(Visible(source)) /\ Len(Visible(source)) = VarNumber(source)
<1>1. Len(parms) \in Nat
  BY DEF IsSeq
<1>2. CASE source = "qs"
  <2>1. Visible(source) = SubSeq(parms, 1, nargs) /\ VarNumber(source) = nargs
    BY <1>2 DEF Visible, VarNumber
  <2>2. 1 \in 1..(Len(parms) + 1) /\ nargs \in (1 - 1)..Len(parms) /\ nargs - 1 + 1 = nargs
    BY <1>1
  <2> QED BY <2>1, <2>2, PieceFacts
<1>3. CASE source = "post"
  <2>1. Visible(source) = SubSeq(parms, nargs + 1, Len(parms))
        /\ VarNumber(source) = Len(parms) - nargs
    BY <1>3 DEF Visible, VarNumber
  <2> DEFINE m == nargs + 1
             l == Len(parms)
  <2>2. m \in 1..(Len(parms) + 1) /\ l \in (m - 1)..Len(parms) /\ l - m + 1 = l - nargs
    BY <1>1
  <2> HIDE DEF m, l
  <2>3. IsSeq(SubSeq(parms, m, l)) /\ Len(SubSeq(parms, m, l)) = l - m + 1
    BY <2>2, PieceFacts
  <2> QED BY <2>1, <2>2, <2>3 DEF m, l
<1>4. CASE source = "all"
  <2>1. Visible(source) = SubSeq(parms, 1, Len(parms)) /\ VarNumber(source) = Len(parms)
    BY <1>4 DEF Visible, VarNumber
  <2>2. 1 \in 1..(Len(parms) + 1) /\ Len(parms) \in (1 - 1)..Len(parms)
        /\ Len(parms) - 1 + 1 = Len(parms)
    BY <1>1
  <2> QED BY <2>1, <2>2, PieceFacts
<1> QED BY <1>2, <1>3, <1>4 DEF Sources

KeysOf(table) == {table[i].key : i \in 1..Len(table)}

LEMMA VarAllDomain ==
    ASSUME NEW source, IsSeq(Visible(source))
    PROVE  DOMAIN VarAll(source, <<>>) = KeysOf(Visible(source))
<1> DEFINE table == Visible(source)
           keys == {table[i].key : i \in DOMAIN table}
<1>1. DOMAIN VarAll(source, <<>>) = keys \cup DOMAIN <<>>
  BY DEF VarAll
<1>2. DOMAIN table = 1..Len(table) /\ DOMAIN <<>> = {}
  BY DEF IsSeq
<1> QED BY <1>1, <1>2 DEF KeysOf

LEMMA LookupFacts ==
    ASSUME IsSeq(parms), nargs \in 0..Len(parms), NEW source \in Sources, NEW k
    PROVE  /\ VarExists(k, source) <=> VarList(k, source) # <<>>
           /\ VarExists(k, source) <=> k \in DOMAIN VarAll(source, <<>>)
           /\ ~VarExists(k, source) => VarGet(k, source, <<None>>) = <<None>>
<1>1. PICK table : table = Visible(source)
  OBVIOUS
<1>2. IsSeq(table) /\ DOMAIN table = 1..Len(table)
  BY <1>1, VisibleFacts DEF IsSeq
<1>3. VarExists(k, source) <=> \E i \in 1..Len(table) : table[i].key = k
  BY <1>1, <1>2 DEF VarExists
<1>4. VarList(k, source) = ValuesOf(k, table)
  BY <1>1 DEF VarList
<1>5. VarExists(k, source) <=> VarList(k, source) # <<>>
  BY <1>2, <1>3, <1>4, ValuesFound
<1>6. DOMAIN VarAll(source, <<>>) = KeysOf(table)
  BY <1>1, <1>2, VarAllDomain
<1>7. ~VarExists(k, source) => VarGet(k, source, <<None>>) = <<None>>
  <2> SUFFICES ASSUME VarList(k, source) = <<>> PROVE VarGet(k, source, <<None>>) = <<None>>
    BY <1>5
  <2>1. FlattenSeq(<<>>) = <<>>
    BY DEF FlattenSeq
  <2> QED BY <2>1 DEF VarGet
<1> QED BY <1>3, <1>5, <1>6, <1>7 DEF KeysOf

(* var_qs sees the parameters of this request's query string, var_post those *)
(* of its body, var both in this order; and for each of them `exists`,       *)
(* `list`, `all`, `get` and `number` agree with each other.  It holds in     *)
(* every request that has a page, however its body was read.                 *)
THEOREM SpecVarSources == Spec => []VarSources
<1>1. RequestInv => VarSources
  <2> SUFFICES ASSUME RequestInv, pc = "run"
               PROVE  /\ Visible("qs") = sends.args
                      /\ Visible("all") = Visible("qs") \o Visible("post")
                      /\ \A source \in Sources :
                           /\ VarNumber(source) = Len(VarNames(source))
                           /\ \A k \in Range(VarNames("all")) :
                                /\ VarExists(k, source) <=> VarList(k, source) # <<>>
                                /\ VarExists(k, source) <=> k \in DOMAIN VarAll(source, <<>>)
                                /\ ~VarExists(k, source) =>
                                       VarGet(k, source, <<None>>) = <<None>>
    BY DEF VarSources
  <2>1. IsSeq(parms) /\ IsSeq(sends.args) /\ nargs \in 0..Len(parms) /\ ArgsFirst
        /\ Len(parms) \in Nat
    BY DEF RequestInv, ParmInv, IsSeq
  <2>2. Visible("qs") = SubSeq(parms, 1, nargs) /\ Visible("all") = SubSeq(parms, 1, Len(parms))
        /\ Visible("post") = SubSeq(parms, nargs + 1, Len(parms))
    BY DEF Visible
  <2>3. Visible("qs") = sends.args
    <3> DEFINE qs == SubSeq(parms, 1, nargs)
    <3>1. 1 \in 1..(Len(parms) + 1) /\ nargs \in (1 - 1)..Len(parms) /\ nargs - 1 + 1 = nargs
      BY <2>1
    <3>2. IsSeq(qs) /\ Len(qs) = nargs /\ \A i \in 1..nargs : qs[i] = parms[1 + i - 1]
      BY <2>1, <3>1, PieceFacts
    <3> HIDE DEF qs
    <3>3. \A i \in 1..nargs : qs[i] = sends.args[i]
      <4> SUFFICES ASSUME NEW i \in 1..nargs PROVE qs[i] = sends.args[i]
        OBVIOUS
      <4>1. 1 + i - 1 = i
        OBVIOUS
      <4> QED BY <2>1, <3>2, <4>1 DEF ArgsFirst
    <3>4. sends.args = [i \in 1..nargs |-> sends.args[i]] /\ qs = [i \in 1..nargs |-> qs[i]]
      BY <2>1, <3>2 DEF IsSeq, ArgsFirst
    <3>5. qs = sends.args
      BY <3>3, <3>4
    <3> QED BY <2>2, <3>5 DEF qs
  <2>4. Visible("all") = Visible("qs") \o Visible("post")
    <3> DEFINE S == {parms[i] : i \in 1..Len(parms)}
               n == Len(parms)
    <3>1. parms \in Seq(S)
      <4>1. parms \in [1..Len(parms) -> S]
        BY <2>1 DEF IsSeq
      <4> HIDE DEF S
      <4> QED BY <2>1, <4>1, SeqDef
    <3>2. 1 \in 1..(Len(parms) + 1) /\ nargs \in (1 - 1)..Len(parms) /\ n \in nargs..Len(parms)
      BY <2>1
    <3> HIDE DEF S, n
    <3>3. SubSeq(parms, 1, nargs) \o SubSeq(parms, nargs + 1, n) = SubSeq(parms, 1, n)
      BY <3>1, <3>2, ConcatAdjacentSubSeq
    <3> QED BY <2>2, <3>3 DEF n
  <2>5. ASSUME NEW source \in Sources PROVE VarNumber(source) = Len(VarNames(source))
    <3>1. PICK table : table = Visible(source)
      OBVIOUS
    <3>2. IsSeq(table) /\ Len(table) = VarNumber(source)
      BY <2>1, <3>1, VisibleFacts
    <3>3. VarNames(source) = [i \in 1..Len(table) |-> table[i].key] /\ Len(table) \in Nat
      BY <3>1, <3>2 DEF VarNames, IsSeq
    <3>4. Len([i \in 1..Len(table) |-> table[i].key]) = Len(table)
      <4> DEFINE S == {table[i].key : i \in 1..Len(table)}
                 names == [i \in 1..Len(table) |-> table[i].key]
      <4>1. names \in [1..Len(table) -> S]
        OBVIOUS
      <4> HIDE DEF S, names
      <4>2. names \in Seq(S) /\ DOMAIN names = 1..Len(table)
        BY <3>3, <4>1, SeqDef
      <4>3. Len(names) = Len(table)
        BY <3>3, <4>2, LenProperties
      <4> QED BY <4>3 DEF names
    <3> QED BY <3>2, <3>3, <3>4
  <2> QED BY <2>1, <2>3, <2>4, <2>5, LookupFacts
<1> QED BY <1>1, SpecRequestInv, PTL

-----------------------------------------------------------------------------
(* The form and the bytes it is sent as.  The parser's place in the body is  *)
(* what it has taken of it: the bytes handed over without those that are     *)
(* still in the buffer.                                                      *)
Taken == pos - buf.n

(* The bytes of s from a + 1 to b.                                           *)
Piece(s, a, b) == [i \in 1..(b - a) |-> s[a + i]]

(* A boundary behind t bytes, and the next line end, which ends a part's     *)
(* boundary or the last one.                                                 *)
BoundaryAt(s, t) == s[t + 1] = "-" /\ s[t + 2] = "-" /\ s[t + 3] = "B"
PartAt(s, t) == BoundaryAt(s, t) /\ s[t + 4] = CR /\ s[t + 5] = LF
EndAt(s, t) ==
    /\ BoundaryAt(s, t) /\ s[t + 4] = "-" /\ s[t + 5] = "-" /\ s[t + 6] = CR /\ s[t + 7] = LF
    /\ Len(s) = t + 7

(* From q on there are whole lines without a boundary until t.               *)
LinesUntil(s, q, t) ==
    /\ q \in 0..t
    /\ \A i \in (q + 1)..t : s[i] \notin {"B", NUL}
    /\ q < t => s[t] = LF

(* A part behind t bytes: its headers, its data and its end.                 *)
HeaderAt(t, i) == t + 5 + 3 * i
DataAt(t, p)   == HeaderAt(t, Len(p.headers)) + 2
EndOf(t, p)    == DataAt(t, p) + Len(p.data)
PartLies(s, t, p) ==
    /\ PartAt(s, t)
    /\ \A i \in 1..Len(p.headers) :
          /\ s[HeaderAt(t, i) - 2] = p.headers[i]
          /\ s[HeaderAt(t, i) - 1] = CR /\ s[HeaderAt(t, i)] = LF
    /\ s[DataAt(t, p) - 1] = CR /\ s[DataAt(t, p)] = LF
    /\ \A i \in 1..Len(p.data) : s[DataAt(t, p) + i] = p.data[i]
    /\ p.end = CRLF => s[EndOf(t, p) + 1] = CR /\ s[EndOf(t, p) + 2] = LF

(* A function on 1..n is a sequence of that length.                          *)
LEMMA FunIsSeq ==
    ASSUME NEW n \in Nat, NEW g, g = [i \in 1..n |-> g[i]]
    PROVE  IsSeq(g) /\ Len(g) = n
<1> DEFINE S == {g[i] : i \in 1..n}
<1>1. g \in [1..n -> S]
  OBVIOUS
<1>2. g \in Seq(S) /\ DOMAIN g = 1..n
  BY <1>1, SeqDef
<1> HIDE DEF S
<1>3. PICK m \in Nat : m = Len(g) /\ 1..m = 1..n
  BY <1>2, LenProperties
<1>4. m = n
  <2>1. CASE m > n
    BY <1>3, <2>1
  <2>2. CASE m < n
    BY <1>3, <2>2
  <2> QED BY <2>1, <2>2
<1> QED BY <1>3, <1>4 DEF IsSeq

(* Two sequences of the same bytes are the same.                             *)
LEMMA SameSeq ==
    ASSUME NEW s, IsSeq(s), NEW t, IsSeq(t), Len(s) = Len(t), \A i \in 1..Len(s) : s[i] = t[i]
    PROVE  s = t
BY DEF IsSeq

(* Pieces are sequences, what SubSeq gives, and pieces of pieces.            *)
LEMMA PieceIsSeq ==
    ASSUME NEW s, NEW a \in Int, NEW b \in Int, a <= b
    PROVE  IsSeq(Piece(s, a, b)) /\ Len(Piece(s, a, b)) = b - a
<1>1. PICK g : g = Piece(s, a, b)
  OBVIOUS
<1>2. b - a \in Nat
  OBVIOUS
<1>3. g = [i \in 1..(b - a) |-> g[i]]
  BY <1>1 DEF Piece
<1> QED BY <1>1, <1>2, <1>3, FunIsSeq

LEMMA SubSeqIsPiece ==
    ASSUME NEW s, IsSeq(s), NEW n \in 0..Len(s)
    PROVE  SubSeq(s, 1, n) = Piece(s, 0, n)
<1>1. PICK t : t = SubSeq(s, 1, n)
  OBVIOUS
<1>2. n \in Nat /\ Len(s) \in Nat /\ 1 \in 1..(Len(s) + 1) /\ n \in (1 - 1)..Len(s)
  BY DEF IsSeq
<1>3. IsSeq(t) /\ Len(t) = n - 1 + 1 /\ \A i \in 1..(n - 1 + 1) : t[i] = s[1 + i - 1]
  BY <1>1, <1>2, PieceFacts
<1>4. Len(t) = n /\ \A i \in 1..n : t[i] = s[i]
  BY <1>2, <1>3
<1>5. t = [i \in 1..n |-> s[i]]
  BY <1>3, <1>4 DEF IsSeq
<1>6. Piece(s, 0, n) = [i \in 1..n |-> s[i]]
  BY <1>2 DEF Piece
<1> QED BY <1>1, <1>5, <1>6

LEMMA PieceOfAPiece ==
    ASSUME NEW s, NEW a \in Int, NEW b \in Int, NEW n \in Nat, n <= b - a
    PROVE  Piece(Piece(s, a, b), 0, n) = Piece(s, a, a + n)
<1>1. PICK g : g = Piece(s, a, b)
  OBVIOUS
<1>2. ASSUME NEW i \in 1..n PROVE g[0 + i] = s[a + i]
  <2>1. i \in 1..(b - a) /\ 0 + i = i
    OBVIOUS
  <2> QED BY <1>1, <2>1 DEF Piece
<1>3. Piece(g, 0, n) = [i \in 1..n |-> s[a + i]]
  <2>1. Piece(g, 0, n) = [i \in 1..(n - 0) |-> g[0 + i]] /\ n - 0 = n
    BY DEF Piece
  <2> QED BY <1>2, <2>1
<1>4. (a + n) - a = n
  OBVIOUS
<1>5. Piece(s, a, a + n) = [i \in 1..n |-> s[a + i]]
  BY <1>4 DEF Piece
<1> QED BY <1>1, <1>3, <1>5

(* A piece behind a piece.                                                   *)
LEMMA PiecesJoined ==
    ASSUME NEW s, NEW a \in Int, NEW b \in Int, NEW c \in Int, a <= b, b <= c
    PROVE  Piece(s, a, b) \o Piece(s, b, c) = Piece(s, a, c)
<1>1. PICK x, y, z : x = Piece(s, a, b) /\ y = Piece(s, b, c) /\ z = Piece(s, a, c)
  OBVIOUS
<1>2. PICK m \in Nat, n \in Nat : m = b - a /\ n = c - b
  OBVIOUS
<1>3. IsSeq(x) /\ Len(x) = m /\ IsSeq(y) /\ Len(y) = n /\ IsSeq(z) /\ Len(z) = m + n
  <2>1. c - a = m + n /\ a <= c
    BY <1>2
  <2> QED BY <1>1, <1>2, <2>1, PieceIsSeq
<1> DEFINE S == {x[i] : i \in 1..m} \cup {y[i] : i \in 1..n}
<1>4. x \in Seq(S) /\ y \in Seq(S)
  <2>1. x \in [1..m -> S] /\ y \in [1..n -> S]
    BY <1>3 DEF IsSeq
  <2> HIDE DEF S
  <2> QED BY <2>1, SeqDef
<1> HIDE DEF S
<1>5. PICK w : w = x \o y
  OBVIOUS
<1>6. w \in Seq(S) /\ Len(w) = m + n
  BY <1>3, <1>4, <1>5, ConcatProperties
<1>7. \A i \in 1..(m + n) : w[i] = IF i <= m THEN x[i] ELSE y[i - m]
  BY <1>3, <1>4, <1>5, ConcatProperties
<1>8. IsSeq(w)
  BY <1>6, SeqIsSeq
<1>9. ASSUME NEW i \in 1..(m + n) PROVE w[i] = z[i]
  <2>1. z[i] = s[a + i]
    BY <1>1, <1>2 DEF Piece
  <2>2. CASE i <= m
    <3>1. i \in 1..(b - a)
      BY <1>2, <2>2
    <3>2. x[i] = s[a + i]
      BY <1>1, <3>1 DEF Piece
    <3> QED BY <1>7, <2>1, <2>2, <3>2
  <2>3. CASE ~(i <= m)
    <3>1. i - m \in 1..(c - b) /\ b + (i - m) = a + i
      BY <1>2, <2>3
    <3>2. y[i - m] = s[b + (i - m)]
      BY <1>1, <3>1 DEF Piece
    <3> QED BY <1>7, <2>1, <2>3, <3>1, <3>2
  <2> QED BY <2>2, <2>3
<1>10. w = z
  BY <1>3, <1>6, <1>8, <1>9, SameSeq
<1> QED BY <1>1, <1>5, <1>10

LEMMA PieceElement ==
    ASSUME NEW s, NEW a \in Int, NEW b \in Int, NEW i \in 1..(b - a)
    PROVE  Piece(s, a, b)[i] = s[a + i]
BY DEF Piece

LEMMA DataIsPiece ==
    ASSUME NEW b, BufOK(b), NEW s, NEW p \in Nat, Holds(b, s, p)
    PROVE  /\ Data(b) = Piece(s, p - b.n, p) /\ IsSeq(Data(b)) /\ Len(Data(b)) = b.n
           /\ b.n \in 0..p
<1>1. b.n \in Nat /\ b.n <= p
  BY DEF BufOK, Holds
<1>2. PICK n \in Nat : n = b.n
  BY <1>1
<1>3. ASSUME NEW i \in 1..n PROVE b.mem[b.begin + i - 1] = s[(p - n) + i]
  BY <1>2 DEF Holds
<1>4. Data(b) = [i \in 1..n |-> s[(p - n) + i]]
  BY <1>2, <1>3 DEF Data
<1>5. p - (p - n) = n
  OBVIOUS
<1>6. Piece(s, p - n, p) = [i \in 1..n |-> s[(p - n) + i]]
  BY <1>5 DEF Piece
<1>7. Data(b) = Piece(s, p - n, p)
  BY <1>4, <1>6
<1>8. IsSeq(Piece(s, p - n, p)) /\ Len(Piece(s, p - n, p)) = n
  <2>1. p - n \in Int /\ p \in Int /\ p - n <= p
    OBVIOUS
  <2> QED BY <1>5, <2>1, PieceIsSeq
<1> QED BY <1>1, <1>2, <1>7, <1>8

(* What next_line makes of s from q on, if p bytes of s have come: a line    *)
(* that ends with the first line end; or there is none among them, and it    *)
(* gives no line, or all of a full buffer.  n bytes are left.                *)
LineOf(s, q, p, line, n) ==
    \/ \E e \in (q + 1)..p :
          /\ s[e] = LF /\ \A i \in (q + 1)..(e - 1) : s[i] # LF
          /\ n = p - e
          /\ line = Piece(s, q, IF e > q + 1 /\ s[e - 1] = CR THEN e - 2 ELSE e - 1)
    \/ /\ \A i \in (q + 1)..p : s[i] # LF
       /\ \/ line = NoLine /\ n = p - q
          \/ line = Piece(s, q, p) /\ n = 0 /\ p - q >= BufSize

LEMMA NextLineReads ==
    ASSUME NEW b, BufOK(b), NEW s, NEW p \in Nat, Holds(b, s, p)
    PROVE  LineOf(s, p - b.n, p, NextLine(b).line, NextLine(b).buf.n)
<1>1. PICK q, n : q = p - b.n /\ n = b.n
  OBVIOUS
<1>2. n \in Nat /\ q \in Nat /\ p - q = n /\ q + n = p
  <2>1. b.n \in Nat /\ b.n <= p
    BY DEF BufOK, Holds
  <2> QED BY <1>1, <2>1
<1>3. PICK d : d = Data(b)
  OBVIOUS
<1>4. d = Piece(s, q, p) /\ IsSeq(d) /\ Len(d) = n
  BY <1>1, <1>3, DataIsPiece
<1>5. ASSUME NEW i \in 1..n PROVE d[i] = s[q + i]
  <2>1. i \in 1..(p - q)
    BY <1>2
  <2>2. Piece(s, q, p)[i] = s[q + i]
    BY <1>2, <2>1, PieceElement
  <2> QED BY <1>4, <2>2
<1> DEFINE P == {i \in 1..n : d[i] = LF}
           first == Min(P)
           strip == first > 1 /\ d[first - 1] = CR
           eol == IF strip THEN first - 1 ELSE first
           taken == [b EXCEPT !.mem[b.begin + eol - 1] = NUL,
                              !.begin = @ + first, !.n = @ - first]
           full == [b EXCEPT !.mem[BufSize] = NUL, !.begin = NoPtr, !.n = 0]
<1>6. NextLine(b) = IF P # {} THEN [line |-> SubSeq(d, 1, eol - 1), buf |-> taken]
                    ELSE IF n < BufSize THEN [line |-> NoLine, buf |-> b]
                    ELSE [line |-> d, buf |-> full]
  BY <1>1, <1>3 DEF NextLine
<1>7. DOMAIN b = {"mem", "begin", "n"}
  BY DEF BufOK
<1>8. taken.n = n - first /\ full.n = 0
  BY <1>1, <1>7
<1> HIDE DEF taken, full
<1>9. CASE P # {}
  <2>1. first \in P /\ \A i \in P : first <= i
    <3>1. P \subseteq Nat
      OBVIOUS
    <3> HIDE DEF P
    <3> QED BY <1>9, <3>1, MinIn
  <2>2. first \in 1..n /\ d[first] = LF /\ \A i \in 1..n : d[i] = LF => first <= i
    BY <2>1
  <2>3. NextLine(b).line = SubSeq(d, 1, eol - 1) /\ NextLine(b).buf.n = n - first
    <3> HIDE DEF P, first, eol
    <3>1. NextLine(b) = [line |-> SubSeq(d, 1, eol - 1), buf |-> taken]
      BY <1>6, <1>9
    <3>2. PICK x, c : x = SubSeq(d, 1, eol - 1) /\ c = taken
      OBVIOUS
    <3>4. NextLine(b) = [line |-> x, buf |-> c]
      BY <3>1, <3>2
    <3>5. NextLine(b).line = x /\ NextLine(b).buf = c
      BY <3>4
    <3>3. taken.n = n - first
      BY <1>8
    <3> QED BY <3>2, <3>3, <3>5
  <2> HIDE DEF P, first
  <2>4. PICK e \in Int : e = q + first
    BY <1>2, <2>2
  <2>5. e \in (q + 1)..p /\ n - first = p - e
    BY <1>2, <2>2, <2>4
  <2>6. s[e] = LF
    BY <1>5, <2>2, <2>4
  <2>7. ASSUME NEW i \in (q + 1)..(e - 1) PROVE s[i] # LF
    <3>1. i - q \in 1..n /\ q + (i - q) = i /\ ~(first <= i - q)
      BY <1>2, <2>2, <2>4
    <3> QED BY <1>5, <2>2, <3>1
  <2>8. strip <=> e > q + 1 /\ s[e - 1] = CR
    <3>1. first > 1 <=> e > q + 1
      BY <1>2, <2>2, <2>4
    <3>2. first > 1 => first - 1 \in 1..n /\ q + (first - 1) = e - 1
      BY <1>2, <2>2, <2>4
    <3>3. first > 1 => d[first - 1] = s[e - 1]
      BY <1>5, <3>2
    <3> QED BY <3>1, <3>3
  <2> DEFINE x == IF e > q + 1 /\ s[e - 1] = CR THEN e - 2 ELSE e - 1
  <2>9. eol - 1 \in 0..n /\ q + (eol - 1) = x
    <3>1. CASE strip
      <4>1. eol = first - 1 /\ x = e - 2 /\ first > 1
        BY <2>8, <3>1
      <4> HIDE DEF eol, x
      <4> QED BY <1>2, <2>2, <2>4, <4>1
    <3>2. CASE ~strip
      <4>1. eol = first /\ x = e - 1
        BY <2>8, <3>2
      <4> HIDE DEF eol, x
      <4> QED BY <1>2, <2>2, <2>4, <4>1
    <3> QED BY <3>1, <3>2
  <2> HIDE DEF strip, eol, x
  <2>10. SubSeq(d, 1, eol - 1) = Piece(d, 0, eol - 1)
    BY <1>4, <2>9, SubSeqIsPiece
  <2>11. PICK m \in Nat : m = eol - 1 /\ m <= p - q
    BY <1>2, <2>9
  <2>12. Piece(d, 0, m) = Piece(s, q, q + m)
    BY <1>2, <1>4, <2>11, PieceOfAPiece
  <2>13. NextLine(b).line = Piece(s, q, x)
    BY <2>3, <2>9, <2>10, <2>11, <2>12
  <2>14. NextLine(b).buf.n = p - e
    BY <2>3, <2>5
  <2> QED BY <1>1, <2>5, <2>6, <2>7, <2>13, <2>14 DEF LineOf, x
<1>10. CASE P = {}
  <2>1. ASSUME NEW i \in (q + 1)..p PROVE s[i] # LF
    <3>1. i - q \in 1..n /\ q + (i - q) = i
      BY <1>2
    <3> QED BY <1>5, <1>10, <3>1
  <2> HIDE DEF P
  <2>2. CASE n < BufSize
    <3>1. NextLine(b).line = NoLine /\ NextLine(b).buf.n = p - q
      BY <1>1, <1>2, <1>6, <1>10, <2>2
    <3> QED BY <1>1, <2>1, <3>1 DEF LineOf
  <2>3. CASE ~(n < BufSize)
    <3>1. NextLine(b).line = d /\ NextLine(b).buf.n = 0 /\ p - q >= BufSize
      BY <1>2, <1>6, <1>8, <1>10, <2>3, BufSizeIs
    <3> QED BY <1>1, <1>4, <2>1, <3>1 DEF LineOf
  <2> QED BY <2>2, <2>3
<1> QED BY <1>9, <1>10

(* What a line read takes of the body, and how much Apache handed over.      *)
LEMMA LineRead ==
    ASSUME BodyInv, BufOK(buf), Holds(buf, body, pos), NEW k \in Blocks(LineWants)
    PROVE  /\ pos + k \in 0..Len(body) /\ Taken \in 0..(pos + k)
           /\ LineOf(body, Taken, pos + k, Line(k).line, Line(k).buf.n)
<1>1. IsSeq(body) /\ pos \in 0..Len(body) /\ remaining \in Int /\ Len(body) \in Nat /\ pos \in Nat
  BY DEF BodyInv, IsSeq
<1>2. PICK b : b = IF NeedsFill(buf) THEN Fill(buf, Block(k)) ELSE buf
  OBVIOUS
<1>3. Line(k) = NextLine(b)
  BY <1>2 DEF Line, GetLine
<1>4. Got(b, k) /\ k \in 0..(Len(body) - pos) /\ b.n = buf.n + k
  <2>1. CASE NeedsFill(buf)
    <3>1. k \in Blocks(Wanted(buf, remaining)) /\ b = Fill(buf, Block(k))
      BY <1>2, <2>1 DEF LineWants
    <3>2. Got(b, k)
      BY <3>1, FillGets
    <3>3. Wanted(buf, remaining) \in Int
      BY <1>1, WantedFits
    <3>4. k \in 0..(Len(body) - pos)
      BY <3>1, <3>3, BlocksFacts
    <3>5. Len(Block(k)) = k
      BY <1>1, <3>4, BlockFacts DEF Block
    <3>6. b.n = buf.n + k
      BY <3>1, <3>5 DEF Fill
    <3> QED BY <3>2, <3>4, <3>6
  <2>2. CASE ~NeedsFill(buf)
    <3>1. k \in Blocks(0) /\ b = buf
      BY <1>2, <2>2 DEF LineWants
    <3>2. k = 0
      BY <3>1, NoBlock
    <3>3. buf.n \in Nat
      BY DEF BufOK
    <3> QED BY <1>1, <3>1, <3>2, <3>3, NothingGot
  <2> QED BY <2>1, <2>2
<1>5. PICK p \in Nat : p = pos + k
  BY <1>1, <1>4
<1>6. BufOK(b) /\ Holds(b, body, p) /\ p \in 0..Len(body)
  BY <1>4, <1>5 DEF Got
<1>7. LineOf(body, p - b.n, p, NextLine(b).line, NextLine(b).buf.n) /\ b.n \in 0..p
  BY <1>6, NextLineReads, DataIsPiece
<1>8. p - b.n = Taken
  <2>1. buf.n \in Nat
    BY DEF BufOK
  <2> QED BY <1>1, <1>4, <1>5, <2>1 DEF Taken
<1> QED BY <1>3, <1>5, <1>6, <1>7, <1>8

LEMMA BoundaryFacts == IsSeq(Boundary) /\ Len(Boundary) = 3
                       /\ Boundary[1] = "-" /\ Boundary[2] = "-" /\ Boundary[3] = "B"
BY DEF Boundary, IsSeq

LEMMA BufSizeFits == BufSize \in Nat /\ BufSize >= 7
<1>1. FillUnit \in Int /\ FillUnit > 1
  BY FillAssumption
<1> DEFINE m == IF FillUnit >= 7 THEN FillUnit ELSE 7
<1>2. {FillUnit, 1 + 6} \subseteq Nat /\ m \in {FillUnit, 1 + 6}
      /\ \A k \in {FillUnit, 1 + 6} : k <= m
  BY <1>1
<1>3. Max({FillUnit, 1 + 6}) = m
  <2> HIDE DEF m
  <2> QED BY <1>2, MaxIs
<1> QED BY <1>1, <1>3 DEF BufSize

LEMMA PieceIsBoundary ==
    ASSUME NEW s, NEW q \in Nat, NEW x \in Nat, q <= x
    PROVE  Piece(s, q, x) = Boundary <=> x = q + 3 /\ BoundaryAt(s, q)
<1>1. PICK g : g = Piece(s, q, x)
  OBVIOUS
<1>2. IsSeq(g) /\ Len(g) = x - q
  BY <1>1, PieceIsSeq
<1>3. PICK b : b = Boundary
  OBVIOUS
<1>4. IsSeq(b) /\ Len(b) = 3 /\ b[1] = "-" /\ b[2] = "-" /\ b[3] = "B"
  BY <1>3, BoundaryFacts
<1>5. ASSUME x = q + 3 PROVE g[1] = s[q + 1] /\ g[2] = s[q + 2] /\ g[3] = s[q + 3]
  <2>1. 1 \in 1..(x - q) /\ 2 \in 1..(x - q) /\ 3 \in 1..(x - q)
    BY <1>5
  <2> QED BY <1>1, <2>1, PieceElement
<1>6. ASSUME g = b PROVE x = q + 3 /\ BoundaryAt(s, q)
  <2>1. x = q + 3
    <3>1. Len(g) = 3
      BY <1>4, <1>6
    <3>2. x - q = 3
      BY <1>2, <3>1
    <3> QED BY <3>2
  <2> QED BY <1>4, <1>5, <1>6, <2>1 DEF BoundaryAt
<1>7. ASSUME x = q + 3, BoundaryAt(s, q) PROVE g = b
  <2>1. Len(g) = Len(b) /\ Len(g) = 3
    BY <1>2, <1>4, <1>7
  <2>2. g[1] = b[1] /\ g[2] = b[2] /\ g[3] = b[3]
    BY <1>4, <1>5, <1>7 DEF BoundaryAt
  <2>3. \A i \in 1..Len(g) : g[i] = b[i]
    BY <2>1, <2>2
  <2> QED BY <1>2, <1>4, <2>1, <2>3, SameSeq
<1> QED BY <1>1, <1>3, <1>6, <1>7

LEMMA PieceIsNoLine ==
    ASSUME NEW s, NEW q \in Nat, NEW x \in Nat, q <= x, Piece(s, q, x) = NoLine
    PROVE  x = q + 1 /\ s[q + 1] = NUL
<1>1. PICK g : g = Piece(s, q, x)
  OBVIOUS
<1>2. IsSeq(g) /\ Len(g) = x - q
  BY <1>1, PieceIsSeq
<1>3. g = <<NUL>>
  BY <1>1 DEF NoLine
<1>4. Len(g) = 1 /\ g[1] = NUL
  BY <1>3
<1>5. x = q + 1 /\ 1 \in 1..(x - q)
  <2>1. x - q = 1
    BY <1>2, <1>4
  <2> QED BY <2>1
<1> QED BY <1>1, <1>4, <1>5, PieceElement

(* A line that next_line gives is a piece of s.                              *)
LEMMA LineIsPiece ==
    ASSUME NEW s, NEW q \in Nat, NEW p \in Nat, q <= p, NEW line, NEW n,
           LineOf(s, q, p, line, n), line # NoLine
    PROVE  \E x \in q..p : line = Piece(s, q, x) /\ n \in 0..(p - x)
                           /\ (x = p => n = 0 /\ p - q >= BufSize) /\ \A i \in (q + 1)..x : s[i] # LF
<1>1. CASE \E e \in (q + 1)..p : /\ s[e] = LF /\ \A i \in (q + 1)..(e - 1) : s[i] # LF
                                 /\ n = p - e
                                 /\ line = Piece(s, q, IF e > q + 1 /\ s[e - 1] = CR THEN e - 2 ELSE e - 1)
  <2>1. PICK e \in (q + 1)..p : /\ s[e] = LF /\ \A i \in (q + 1)..(e - 1) : s[i] # LF
                                /\ n = p - e
                                /\ line = Piece(s, q, IF e > q + 1 /\ s[e - 1] = CR THEN e - 2 ELSE e - 1)
    BY <1>1
  <2>2. PICK x \in Int : x = IF e > q + 1 /\ s[e - 1] = CR THEN e - 2 ELSE e - 1
    OBVIOUS
  <2>3. x \in q..p /\ x < e /\ n \in 0..(p - x) /\ x # p
    BY <2>1, <2>2
  <2>4. \A i \in (q + 1)..x : s[i] # LF
    BY <2>1, <2>3
  <2>5. line = Piece(s, q, x)
    BY <2>1, <2>2
  <2> QED BY <2>3, <2>4, <2>5
<1>2. CASE /\ \A i \in (q + 1)..p : s[i] # LF
           /\ line = Piece(s, q, p) /\ n = 0 /\ p - q >= BufSize
  <2>1. p \in q..p /\ 0 \in 0..(p - p)
    OBVIOUS
  <2> QED BY <1>2, <2>1
<1> QED BY <1>1, <1>2 DEF LineOf

(* No line comes when the next one has not all come.                         *)
LEMMA LineIsMissing ==
    ASSUME NEW s, NEW q \in Nat, NEW p \in Nat, q <= p, NEW n, LineOf(s, q, p, NoLine, n),
           s[q + 1] # NUL, NEW e \in Nat, q < e, s[e] = LF
    PROVE  p < e
<1>1. ASSUME NEW x \in q..p PROVE NoLine # Piece(s, q, x)
  <2>1. x \in Nat /\ q <= x
    OBVIOUS
  <2> QED BY <2>1, PieceIsNoLine
<1>2. CASE \E d \in (q + 1)..p : NoLine = Piece(s, q, IF d > q + 1 /\ s[d - 1] = CR THEN d - 2 ELSE d - 1)
  <2>1. PICK d \in (q + 1)..p : NoLine = Piece(s, q, IF d > q + 1 /\ s[d - 1] = CR THEN d - 2 ELSE d - 1)
    BY <1>2
  <2>2. PICK x \in Int : x = IF d > q + 1 /\ s[d - 1] = CR THEN d - 2 ELSE d - 1
    OBVIOUS
  <2>3. x \in q..p /\ NoLine = Piece(s, q, x)
    BY <2>1, <2>2
  <2> QED BY <1>1, <2>3
<1>3. CASE \A i \in (q + 1)..p : s[i] # LF
  BY <1>3
<1> QED BY <1>2, <1>3 DEF LineOf

(* Lines before a boundary are passed over.                                  *)
LEMMA LineBefore ==
    ASSUME NEW s, NEW q \in Nat, NEW p \in Nat, q <= p, NEW line, NEW n,
           LineOf(s, q, p, line, n), line # NoLine, NEW t \in Nat, q < t, LinesUntil(s, q, t)
    PROVE  line # Boundary /\ p - n \in Nat /\ LinesUntil(s, p - n, t)
<1>1. s[t] = LF /\ \A i \in (q + 1)..t : s[i] \notin {"B", NUL}
  BY DEF LinesUntil
<1>2. PICK x \in q..p : line = Piece(s, q, x) /\ n \in 0..(p - x)
                        /\ (x = p => n = 0 /\ p - q >= BufSize) /\ \A i \in (q + 1)..x : s[i] # LF
  BY LineIsPiece
<1>3. x \in Nat /\ x < t
  BY <1>1, <1>2
<1>4. line # Boundary
  <2> SUFFICES ASSUME line = Boundary PROVE FALSE
    OBVIOUS
  <2>1. x = q + 3 /\ BoundaryAt(s, q)
    BY <1>2, <1>3, PieceIsBoundary
  <2>2. s[q + 3] = "B" /\ q + 3 \in (q + 1)..t
    BY <1>3, <2>1 DEF BoundaryAt
  <2> QED BY <1>1, <2>2
<1>5. p - n \in q..t
  <2>1. CASE \E e \in (q + 1)..p : /\ s[e] = LF /\ \A i \in (q + 1)..(e - 1) : s[i] # LF
                                   /\ n = p - e
    <3>1. PICK e \in (q + 1)..p : (\A i \in (q + 1)..(e - 1) : s[i] # LF) /\ n = p - e
      BY <2>1
    <3>2. ~(t \in (q + 1)..(e - 1))
      BY <1>1, <3>1
    <3> QED BY <3>1, <3>2
  <2>2. CASE (\A i \in (q + 1)..p : s[i] # LF) /\ n = 0
    <3>1. ~(t \in (q + 1)..p)
      BY <1>1, <2>2
    <3> QED BY <2>2, <3>1
  <2> QED BY <2>1, <2>2 DEF LineOf
<1> QED BY <1>1, <1>4, <1>5 DEF LinesUntil

LEMMA LineAtPart ==
    ASSUME NEW s, NEW t \in Nat, NEW p \in Nat, t <= p, NEW line, NEW n,
           LineOf(s, t, p, line, n), line # NoLine, PartAt(s, t)
    PROVE  line = Boundary /\ p - n = t + 5
<1>1. BoundaryAt(s, t) /\ s[t + 4] = CR /\ s[t + 5] = LF
      /\ s[t + 1] # LF /\ s[t + 2] # LF /\ s[t + 3] # LF /\ s[t + 4] # LF
  BY DEF PartAt, BoundaryAt, CR, LF
<1>2. CASE (\A i \in (t + 1)..p : s[i] # LF) /\ p - t >= BufSize
  <2>1. t + 5 \in (t + 1)..p
    BY <1>2, BufSizeFits
  <2> QED BY <1>1, <1>2, <2>1
<1>3. CASE \E e \in (t + 1)..p : /\ s[e] = LF /\ \A i \in (t + 1)..(e - 1) : s[i] # LF
                                 /\ n = p - e
                                 /\ line = Piece(s, t, IF e > t + 1 /\ s[e - 1] = CR THEN e - 2 ELSE e - 1)
  <2>1. PICK e \in (t + 1)..p : /\ s[e] = LF /\ \A i \in (t + 1)..(e - 1) : s[i] # LF
                                /\ n = p - e
                                /\ line = Piece(s, t, IF e > t + 1 /\ s[e - 1] = CR THEN e - 2 ELSE e - 1)
    BY <1>3
  <2>2. ~(t + 5 \in (t + 1)..(e - 1))
    BY <1>1, <2>1
  <2>3. e # t + 1 /\ e # t + 2 /\ e # t + 3 /\ e # t + 4
    BY <1>1, <2>1
  <2>4. e = t + 5
    BY <2>2, <2>3
  <2>5. e - 1 = t + 4 /\ e > t + 1 /\ e - 2 = t + 3
    BY <2>4
  <2>6. line = Piece(s, t, t + 3)
    BY <1>1, <2>1, <2>5
  <2>7. Piece(s, t, t + 3) = Boundary
    BY <1>1, PieceIsBoundary
  <2> QED BY <2>1, <2>4, <2>6, <2>7
<1> QED BY <1>2, <1>3 DEF LineOf

LEMMA LineAtEnd ==
    ASSUME NEW s, NEW t \in Nat, NEW p \in Nat, t <= p, p <= Len(s), NEW line, NEW n,
           LineOf(s, t, p, line, n), line # NoLine, EndAt(s, t)
    PROVE  line # Boundary /\ p - n = Len(s)
<1>1. BoundaryAt(s, t) /\ s[t + 4] = "-" /\ s[t + 5] = "-" /\ s[t + 6] = CR /\ s[t + 7] = LF
      /\ Len(s) = t + 7
  BY DEF EndAt
<1>2. s[t + 1] # LF /\ s[t + 2] # LF /\ s[t + 3] # LF /\ s[t + 4] # LF /\ s[t + 5] # LF /\ s[t + 6] # LF
  BY <1>1 DEF BoundaryAt, CR, LF
<1>3. CASE (\A i \in (t + 1)..p : s[i] # LF) /\ p - t >= BufSize
  <2>1. t + 7 \in (t + 1)..p
    BY <1>3, BufSizeFits
  <2> QED BY <1>1, <1>3, <2>1
<1>4. CASE \E e \in (t + 1)..p : /\ s[e] = LF /\ \A i \in (t + 1)..(e - 1) : s[i] # LF
                                 /\ n = p - e
                                 /\ line = Piece(s, t, IF e > t + 1 /\ s[e - 1] = CR THEN e - 2 ELSE e - 1)
  <2>1. PICK e \in (t + 1)..p : /\ s[e] = LF /\ \A i \in (t + 1)..(e - 1) : s[i] # LF
                                /\ n = p - e
                                /\ line = Piece(s, t, IF e > t + 1 /\ s[e - 1] = CR THEN e - 2 ELSE e - 1)
    BY <1>4
  <2>2. e # t + 1 /\ e # t + 2 /\ e # t + 3 /\ e # t + 4 /\ e # t + 5 /\ e # t + 6
    BY <1>2, <2>1
  <2>3. e = t + 7
    BY <1>1, <2>2
  <2>4. e - 1 = t + 6 /\ e > t + 1 /\ e - 2 = t + 5
    BY <2>3
  <2>5. line = Piece(s, t, t + 5)
    BY <1>1, <2>1, <2>4
  <2>6. ~(t + 5 = t + 3)
    OBVIOUS
  <2>7. Piece(s, t, t + 5) # Boundary
    <3>1. t + 5 \in Nat /\ t <= t + 5
      OBVIOUS
    <3> QED BY <2>6, <3>1, PieceIsBoundary
  <2> QED BY <1>1, <2>1, <2>3, <2>5, <2>7
<1> QED BY <1>3, <1>4 DEF LineOf

(* A header line, and the empty line.                                        *)
LEMMA LineAtHeader ==
    ASSUME NEW s, NEW q \in Nat, NEW p \in Nat, q <= p, NEW line, NEW n,
           LineOf(s, q, p, line, n), line # NoLine,
           s[q + 1] \notin {CR, LF}, s[q + 2] = CR, s[q + 3] = LF
    PROVE  line = Piece(s, q, q + 1) /\ p - n = q + 3
<1>1. s[q + 1] # LF /\ s[q + 2] # LF
  BY DEF CR, LF
<1>2. CASE (\A i \in (q + 1)..p : s[i] # LF) /\ p - q >= BufSize
  <2>1. q + 3 \in (q + 1)..p
    BY <1>2, BufSizeFits
  <2> QED BY <1>2, <2>1
<1>3. CASE \E e \in (q + 1)..p : /\ s[e] = LF /\ \A i \in (q + 1)..(e - 1) : s[i] # LF
                                 /\ n = p - e
                                 /\ line = Piece(s, q, IF e > q + 1 /\ s[e - 1] = CR THEN e - 2 ELSE e - 1)
  <2>1. PICK e \in (q + 1)..p : /\ s[e] = LF /\ \A i \in (q + 1)..(e - 1) : s[i] # LF
                                /\ n = p - e
                                /\ line = Piece(s, q, IF e > q + 1 /\ s[e - 1] = CR THEN e - 2 ELSE e - 1)
    BY <1>3
  <2>2. ~(q + 3 \in (q + 1)..(e - 1)) /\ e # q + 1 /\ e # q + 2
    BY <1>1, <2>1
  <2>3. e = q + 3
    BY <2>2
  <2>4. e - 1 = q + 2 /\ e > q + 1 /\ e - 2 = q + 1
    BY <2>3
  <2>5. line = Piece(s, q, q + 1)
    BY <2>1, <2>4
  <2> QED BY <2>1, <2>3, <2>5
<1> QED BY <1>2, <1>3 DEF LineOf

LEMMA LineIsEmpty ==
    ASSUME NEW s, NEW q \in Nat, NEW p \in Nat, q <= p, NEW line, NEW n,
           LineOf(s, q, p, line, n), line # NoLine, s[q + 1] = CR, s[q + 2] = LF
    PROVE  line = <<>> /\ p - n = q + 2
<1>1. s[q + 1] # LF
  BY DEF CR, LF
<1>2. CASE (\A i \in (q + 1)..p : s[i] # LF) /\ p - q >= BufSize
  <2>1. q + 2 \in (q + 1)..p
    BY <1>2, BufSizeFits
  <2> QED BY <1>2, <2>1
<1>3. CASE \E e \in (q + 1)..p : /\ s[e] = LF /\ \A i \in (q + 1)..(e - 1) : s[i] # LF
                                 /\ n = p - e
                                 /\ line = Piece(s, q, IF e > q + 1 /\ s[e - 1] = CR THEN e - 2 ELSE e - 1)
  <2>1. PICK e \in (q + 1)..p : /\ s[e] = LF /\ \A i \in (q + 1)..(e - 1) : s[i] # LF
                                /\ n = p - e
                                /\ line = Piece(s, q, IF e > q + 1 /\ s[e - 1] = CR THEN e - 2 ELSE e - 1)
    BY <1>3
  <2>2. ~(q + 2 \in (q + 1)..(e - 1)) /\ e # q + 1
    BY <1>1, <2>1
  <2>3. e = q + 2
    BY <2>2
  <2>4. e - 1 = q + 1 /\ e > q + 1 /\ e - 2 = q
    BY <2>3
  <2>5. line = Piece(s, q, q)
    BY <2>1, <2>4
  <2>6. Piece(s, q, q) = <<>>
    <3>1. q - q = 0 /\ 1..0 = {}
      OBVIOUS
    <3> QED BY <3>1 DEF Piece
  <2> QED BY <2>1, <2>3, <2>5, <2>6
<1> QED BY <1>2, <1>3 DEF LineOf

LEMMA BoundaryNextFacts ==
    /\ IsSeq(BoundaryNext) /\ Len(BoundaryNext) = 4 /\ BoundaryNext[1] = LF
    /\ BoundaryNext[2] = "-" /\ BoundaryNext[3] = "-" /\ BoundaryNext[4] = "B"
<1> DEFINE S == {LF, "-", "B"}
<1>1. <<LF>> \in Seq(S) /\ Boundary \in Seq(S)
  BY DEF Boundary
<1>2. Len(<<LF>>) = 1 /\ <<LF>>[1] = LF
  OBVIOUS
<1>3. PICK a, b, c : a = <<LF>> /\ b = Boundary /\ c = a \o b
  OBVIOUS
<1> HIDE DEF S
<1>4. c \in Seq(S) /\ Joined(c, a, b)
  BY <1>1, <1>3, Concatenated
<1>5. Len(a) = 1 /\ a[1] = LF /\ Len(b) = 3 /\ b[1] = "-" /\ b[2] = "-" /\ b[3] = "B"
  BY <1>2, <1>3, BoundaryFacts
<1>6. Len(c) = 4 /\ c[1] = LF /\ c[2] = "-" /\ c[3] = "-" /\ c[4] = "B"
  BY <1>4, <1>5 DEF Joined, LiesAt
<1> QED BY <1>3, <1>4, <1>6, SeqIsSeq DEF BoundaryNext

(* x lies in s behind n bytes.                                               *)
LEMMA PrefixLies ==
    ASSUME NEW x, IsSeq(x), NEW s, IsSeq(s), NEW n \in 0..Len(s)
    PROVE  IsPrefix(x, SubSeq(s, n + 1, Len(s))) <=> LiesAt(s, x, n)
<1>1. PICK l \in Nat, h \in Nat : l = Len(s) /\ h = Len(x)
  BY DEF IsSeq
<1>2. PICK r : r = SubSeq(s, n + 1, l)
  OBVIOUS
<1>3. IsSeq(r) /\ Len(r) = l - n /\ \A i \in 1..(l - n) : r[i] = s[n + i]
  <2>1. n + 1 \in 1..(l + 1) /\ l \in ((n + 1) - 1)..l /\ l - (n + 1) + 1 = l - n
    BY <1>1
  <2>2. /\ IsSeq(r) /\ Len(r) = l - (n + 1) + 1
        /\ \A i \in 1..(l - (n + 1) + 1) : r[i] = s[(n + 1) + i - 1]
    BY <1>1, <1>2, <2>1, PieceFacts
  <2>3. ASSUME NEW i \in 1..(l - n) PROVE (n + 1) + i - 1 = n + i
    BY <1>1
  <2> QED BY <2>1, <2>2, <2>3
<1>4. PICK y : y = SubSeq(x, 1, h)
  OBVIOUS
<1>5. y = x
  <2>1. 1 \in 1..(h + 1) /\ h \in (1 - 1)..h /\ h - 1 + 1 = h
    BY <1>1
  <2>2. IsSeq(y) /\ Len(y) = h - 1 + 1 /\ \A i \in 1..(h - 1 + 1) : y[i] = x[1 + i - 1]
    BY <1>1, <1>4, <2>1, PieceFacts
  <2>3. ASSUME NEW i \in 1..h PROVE 1 + i - 1 = i
    BY <1>1
  <2>4. Len(y) = Len(x) /\ \A i \in 1..Len(y) : y[i] = x[i]
    BY <1>1, <2>1, <2>2, <2>3
  <2> QED BY <2>2, <2>4, SameSeq
<1>6. IsPrefix(x, r) <=> h <= Len(r) /\ x = SubSeq(r, 1, h)
  BY <1>1, <1>4, <1>5 DEF IsPrefix
<1>7. ASSUME h <= l - n
      PROVE  x = SubSeq(r, 1, h) <=> \A i \in 1..h : s[n + i] = x[i]
  <2>1. PICK z : z = SubSeq(r, 1, h)
    OBVIOUS
  <2>2. 1 \in 1..(Len(r) + 1) /\ h \in (1 - 1)..Len(r) /\ h - 1 + 1 = h
    <3>0. n \in 0..l /\ l \in Nat
      BY <1>1
    <3>1. PICK k \in Nat : k = l - n /\ k = Len(r)
      BY <1>3, <3>0
    <3>2. h <= k
      BY <1>7, <3>1
    <3>3. 1 \in 1..(k + 1) /\ h \in (1 - 1)..k /\ h - 1 + 1 = h
      BY <1>1, <3>1, <3>2
    <3> QED BY <3>1, <3>3
  <2>3. IsSeq(z) /\ Len(z) = h - 1 + 1 /\ \A i \in 1..(h - 1 + 1) : z[i] = r[1 + i - 1]
    <3>1. /\ IsSeq(SubSeq(r, 1, h)) /\ Len(SubSeq(r, 1, h)) = h - 1 + 1
          /\ \A i \in 1..(h - 1 + 1) : SubSeq(r, 1, h)[i] = r[1 + i - 1]
      BY <1>3, <2>2, PieceFacts
    <3> QED BY <2>1, <3>1
  <2>4. ASSUME NEW i \in 1..h PROVE z[i] = s[n + i]
    <3>1. 1 + i - 1 = i /\ i \in 1..(l - n)
      BY <1>1, <1>7
    <3> QED BY <1>3, <2>2, <2>3, <3>1
  <2>5. IsSeq(z) /\ Len(z) = h
    BY <2>2, <2>3
  <2>6. (\A i \in 1..h : s[n + i] = x[i]) => x = z
    <3> SUFFICES ASSUME \A i \in 1..h : s[n + i] = x[i] PROVE x = z
      OBVIOUS
    <3>1. Len(x) = Len(z) /\ \A i \in 1..Len(x) : x[i] = z[i]
      BY <1>1, <2>4, <2>5
    <3> QED BY <2>5, <3>1, SameSeq
  <2> QED BY <2>1, <2>4, <2>6
<1>8. LiesAt(s, x, n) <=> n + h <= l /\ \A i \in 1..h : s[n + i] = x[i]
  BY <1>1 DEF LiesAt
<1>9. h <= Len(r) <=> n + h <= l
  <2>1. n \in 0..l /\ l \in Nat
    BY <1>1
  <2> QED BY <1>3, <2>1
<1>10. h <= Len(r) <=> h <= l - n
  BY <1>3
<1> QED BY <1>1, <1>2, <1>6, <1>7, <1>8, <1>9, <1>10

(* A delimiter begins with byte i.                                           *)
Starts(s, i) == i + 3 <= Len(s) /\ s[i] = LF /\ BoundaryAt(s, i)

LEMMA PrefixStarts ==
    ASSUME NEW s, IsSeq(s), NEW i \in 1..Len(s)
    PROVE  IsPrefix(BoundaryNext, SubSeq(s, (i - 1) + 1, Len(s))) <=> Starts(s, i)
<1>1. PICK x : x = BoundaryNext
  OBVIOUS
<1>2. IsSeq(x) /\ Len(x) = 4 /\ x[1] = LF /\ x[2] = "-" /\ x[3] = "-" /\ x[4] = "B"
  BY <1>1, BoundaryNextFacts
<1>3. PICK n \in Nat : n = i - 1 /\ n \in 0..Len(s) /\ Len(s) \in Nat
  BY DEF IsSeq
<1>4. IsPrefix(x, SubSeq(s, n + 1, Len(s)))
        <=> n + 4 <= Len(s) /\ \A j \in 1..4 : s[n + j] = x[j]
  <2>1. IsPrefix(x, SubSeq(s, n + 1, Len(s))) <=> LiesAt(s, x, n)
    BY <1>2, <1>3, PrefixLies
  <2> QED BY <1>2, <2>1 DEF LiesAt
<1>5. (\A j \in 1..4 : s[n + j] = x[j])
        <=> s[n + 1] = x[1] /\ s[n + 2] = x[2] /\ s[n + 3] = x[3] /\ s[n + 4] = x[4]
  OBVIOUS
<1>6. n + 1 = i /\ n + 2 = i + 1 /\ n + 3 = i + 2 /\ n + 4 = i + 3
  BY <1>3
<1> QED BY <1>1, <1>2, <1>3, <1>4, <1>5, <1>6 DEF Starts, BoundaryAt

LEMMA PrefixBoundary ==
    ASSUME NEW s, IsSeq(s), NEW n \in 0..Len(s)
    PROVE  IsPrefix(Boundary, SubSeq(s, n + 1, Len(s))) <=> n + 3 <= Len(s) /\ BoundaryAt(s, n)
<1>1. PICK x : x = Boundary
  OBVIOUS
<1>2. IsSeq(x) /\ Len(x) = 3 /\ x[1] = "-" /\ x[2] = "-" /\ x[3] = "B"
  BY <1>1, BoundaryFacts
<1>3. IsPrefix(x, SubSeq(s, n + 1, Len(s)))
        <=> n + 3 <= Len(s) /\ \A j \in 1..3 : s[n + j] = x[j]
  <2>1. IsPrefix(x, SubSeq(s, n + 1, Len(s))) <=> LiesAt(s, x, n)
    BY <1>2, PrefixLies
  <2> QED BY <1>2, <2>1 DEF LiesAt
<1>4. (\A j \in 1..3 : s[n + j] = x[j])
        <=> s[n + 1] = x[1] /\ s[n + 2] = x[2] /\ s[n + 3] = x[3]
  OBVIOUS
<1> QED BY <1>1, <1>2, <1>3, <1>4 DEF BoundaryAt

(* The memory at byte i of s looks like a delimiter; it is one if it is all  *)
(* in the buffer.                                                            *)
Match(b, q, i) == MatchesAt(b, b.begin + i - (q + 1), BoundaryNext)

LEMMA MatchStarts ==
    ASSUME NEW b, BufOK(b), b.begin >= 0, NEW s, NEW p \in Nat, p <= Len(s), Len(s) \in Nat,
           Holds(b, s, p), NEW q \in Nat, p = q + b.n, NEW i \in (q + 1)..p, i + 3 <= p
    PROVE  Match(b, q, i) <=> Starts(s, i)
<1>1. PICK g \in Nat, n \in Nat : g = b.begin /\ n = b.n /\ g + n <= BufSize
  BY DEF BufOK, NoPtr
<1>2. BufSize \in Nat /\ q + n = p
  BY <1>1, BufSizeIs
<1>3. PICK m : m = b.mem
  OBVIOUS
<1>4. ASSUME NEW j \in 1..n PROVE m[g + j - 1] = s[q + j]
  <2>1. m[g + j - 1] = s[(p - n) + j]
    BY <1>1, <1>3 DEF Holds
  <2>2. (p - n) + j = q + j
    BY <1>2
  <2> QED BY <2>1, <2>2
<1>5. PICK c \in Int : c = g + i - (q + 1)
  OBVIOUS
<1>6. PICK x : x = BoundaryNext
  OBVIOUS
<1>7. IsSeq(x) /\ Len(x) = 4 /\ x[1] = LF /\ x[2] = "-" /\ x[3] = "-" /\ x[4] = "B"
  BY <1>6, BoundaryNextFacts
<1>8. MatchesAt(b, c, x) <=> c + 4 - 1 <= BufSize /\ \A j \in 1..4 : m[c + j - 1] = x[j]
  BY <1>3, <1>7 DEF MatchesAt
<1>9. c + 4 - 1 <= BufSize
  <2>1. PICK B \in Nat : B = BufSize /\ g + n <= B
    BY <1>1, <1>2
  <2>2. c + q + 1 = g + i /\ i + 3 <= q + n
    BY <1>2, <1>5
  <2>3. c + 3 <= B
    BY <2>1, <2>2
  <2> QED BY <2>1, <2>3
<1>10. ASSUME NEW j \in 1..4 PROVE m[c + j - 1] = s[i + (j - 1)]
  <2>1. PICK a \in Int : a = i - q - 1 + j
    OBVIOUS
  <2>2. a \in 1..n
    BY <1>2, <2>1
  <2>3. g + a - 1 = c + j - 1 /\ q + a = i + (j - 1)
    BY <1>5, <2>1
  <2> QED BY <1>4, <2>2, <2>3
<1>11. (\A j \in 1..4 : m[c + j - 1] = x[j])
         <=> s[i] = x[1] /\ s[i + 1] = x[2] /\ s[i + 2] = x[3] /\ s[i + 3] = x[4]
  <2>1. (\A j \in 1..4 : m[c + j - 1] = x[j])
          <=> m[c + 1 - 1] = x[1] /\ m[c + 2 - 1] = x[2] /\ m[c + 3 - 1] = x[3] /\ m[c + 4 - 1] = x[4]
    OBVIOUS
  <2>2. i + (1 - 1) = i /\ i + (2 - 1) = i + 1 /\ i + (3 - 1) = i + 2 /\ i + (4 - 1) = i + 3
        /\ 1 \in 1..4 /\ 2 \in 1..4 /\ 3 \in 1..4 /\ 4 \in 1..4
    OBVIOUS
  <2>3. m[c + 1 - 1] = s[i] /\ m[c + 2 - 1] = s[i + 1] /\ m[c + 3 - 1] = s[i + 2] /\ m[c + 4 - 1] = s[i + 3]
    BY <1>10, <2>2
  <2> QED BY <2>1, <2>3
<1>12. i + 3 <= Len(s)
  BY <1>2
<1>13. Match(b, q, i) <=> MatchesAt(b, c, x)
  BY <1>1, <1>5, <1>6 DEF Match
<1> QED BY <1>7, <1>8, <1>9, <1>11, <1>12, <1>13 DEF Starts, BoundaryAt

(* my_memstr's answer as a byte m of s, 0 for none.                          *)
BoundOf(b, q, p, m) ==
    \/ /\ m = 0 /\ MemStr(b, BoundaryNext) = NoPtr
       /\ \A i \in (q + 1)..p : ~Match(b, q, i)
    \/ /\ m \in (q + 1)..p /\ MemStr(b, BoundaryNext) = b.begin + m - (q + 1)
       /\ Match(b, q, m) /\ \A i \in (q + 1)..p : Match(b, q, i) => m <= i

LEMMA BoundIs ==
    ASSUME NEW b, BufOK(b), b.begin >= 0, NEW p \in Nat, NEW q \in Nat, p = q + b.n
    PROVE  \E m \in Nat : BoundOf(b, q, p, m)
<1>1. PICK g \in Nat, n \in Nat : g = b.begin /\ n = b.n /\ q + n = p
  BY DEF BufOK
<1> DEFINE P == {c \in g..(g + n - 1) : MatchesAt(b, c, BoundaryNext)}
<1>2. MemStr(b, BoundaryNext) = IF P = {} THEN NoPtr ELSE Min(P)
  BY <1>1 DEF MemStr
<1>3. ASSUME NEW i \in (q + 1)..p, Match(b, q, i) PROVE g + i - (q + 1) \in P
  <2>1. g + i - (q + 1) \in g..(g + n - 1)
    BY <1>1
  <2> QED BY <1>1, <1>3, <2>1 DEF Match
<1>4. CASE P = {}
  <2>1. \A i \in (q + 1)..p : ~Match(b, q, i)
    BY <1>3, <1>4
  <2> QED BY <1>2, <1>4, <2>1 DEF BoundOf
<1>5. CASE P # {}
  <2>1. Min(P) \in P /\ \A c \in P : Min(P) <= c
    <3>1. P \subseteq Nat
      BY <1>1
    <3> HIDE DEF P
    <3> QED BY <1>5, <3>1, MinIn
  <2>2. PICK c \in g..(g + n - 1) : c = Min(P)
    BY <2>1
  <2>3. MatchesAt(b, c, BoundaryNext)
    BY <2>1, <2>2
  <2> HIDE DEF P
  <2>4. PICK m \in Int : m = c - g + (q + 1)
    OBVIOUS
  <2>5. m \in (q + 1)..p /\ g + m - (q + 1) = c
    BY <1>1, <2>2, <2>4
  <2>6. Match(b, q, m) /\ MemStr(b, BoundaryNext) = b.begin + m - (q + 1)
    BY <1>1, <1>2, <1>5, <2>2, <2>3, <2>5 DEF Match
  <2>7. ASSUME NEW i \in (q + 1)..p, Match(b, q, i) PROVE m <= i
    <3>1. c <= g + i - (q + 1)
      BY <1>3, <2>1, <2>2, <2>7
    <3> QED BY <1>1, <2>4, <3>1
  <2> QED BY <2>5, <2>6, <2>7 DEF BoundOf
<1> QED BY <1>4, <1>5

(* How much a read returns, with the answer m of the search.                 *)
Most(q, n, m) ==
    LET max == IF m = 0 THEN n ELSE m - (q + 1) IN IF max <= FillUnit - 1 THEN max ELSE FillUnit - 1
Length(s, q, n, m) ==
    IF m # 0 /\ Most(q, n, m) > 0 /\ s[q + Most(q, n, m)] = CR THEN Most(q, n, m) - 1 ELSE Most(q, n, m)

LEMMA ReadLength ==
    ASSUME NEW b, BufOK(b), b.begin >= 0, NEW s, NEW p \in Nat, Holds(b, s, p),
           NEW q \in Nat, p = q + b.n, NEW m \in Nat, BoundOf(b, q, p, m),
           NEW l, l = Length(s, q, b.n, m)
    PROVE  /\ l \in 0..b.n /\ Read(b, FillUnit).data = Piece(s, q, q + l)
           /\ Len(Read(b, FillUnit).data) = l
           /\ Read(b, FillUnit).buf.n = b.n - l
<1>0. FillUnit \in Nat /\ FillUnit > 2
  BY FillAssumption
<1>1. PICK g \in Nat, n \in Nat : g = b.begin /\ n = b.n /\ q + n = p
  BY DEF BufOK
<1>2. PICK d : d = Data(b)
  OBVIOUS
<1>3. d = Piece(s, q, p) /\ IsSeq(d) /\ Len(d) = n /\ p - q = n
  <2>1. Data(b) = Piece(s, p - b.n, p) /\ IsSeq(Data(b)) /\ Len(Data(b)) = b.n
    BY DataIsPiece
  <2>2. p - n = q /\ p - q = n
    BY <1>1
  <2> QED BY <1>1, <1>2, <2>1, <2>2
<1> DEFINE bound == MemStr(b, BoundaryNext)
           max == IF bound # NoPtr THEN bound - b.begin ELSE b.n
           most == Min({max, FillUnit - 1})
           len == IF bound # NoPtr /\ most > 0 /\ d[most] = CR THEN most - 1 ELSE most
           c == [b EXCEPT !.begin = @ + len, !.n = @ - len]
<1>4. Read(b, FillUnit) = [data |-> SubSeq(d, 1, len), buf |-> c]
  BY <1>2 DEF Read
<1>5. (bound # NoPtr <=> m # 0) /\ max = (IF m = 0 THEN n ELSE m - (q + 1)) /\ max \in 0..n
  <2>1. CASE m = 0 /\ bound = NoPtr
    BY <1>1, <2>1
  <2>2. CASE m \in (q + 1)..p /\ bound = b.begin + m - (q + 1)
    <3>1. bound \in Nat /\ bound - b.begin = m - (q + 1) /\ m # 0
      <4> HIDE DEF bound
      <4> QED BY <1>1, <2>2
    <3>2. bound # NoPtr
      BY <3>1 DEF NoPtr
    <3> HIDE DEF bound
    <3> QED BY <1>1, <2>2, <3>1, <3>2
  <2> QED BY <2>1, <2>2 DEF BoundOf
<1> HIDE DEF bound, max
<1>6. most = Most(q, n, m) /\ most \in 0..n
  <2>1. most = IF max <= FillUnit - 1 THEN max ELSE FillUnit - 1
    BY <1>0, <1>5, MinOfTwo
  <2>2. most = Most(q, n, m)
    BY <1>5, <2>1 DEF Most
  <2> HIDE DEF most
  <2> QED BY <1>0, <1>5, <2>1, <2>2
<1> HIDE DEF most
<1>7. most > 0 => d[most] = s[q + most]
  <2> SUFFICES ASSUME most > 0 PROVE d[most] = s[q + most]
    OBVIOUS
  <2>1. most \in 1..(p - q)
    BY <1>3, <1>6
  <2> QED BY <1>3, <2>1, PieceElement
<1>8. len = l /\ len \in 0..n
  <2>1. len = Length(s, q, n, m)
    BY <1>5, <1>6, <1>7 DEF Length
  <2>2. len \in 0..n
    BY <1>6
  <2> HIDE DEF len
  <2> QED BY <1>1, <2>1, <2>2
<1> HIDE DEF len
<1>9. c.n = b.n - l
  <2>1. DOMAIN b = {"mem", "begin", "n"}
    BY DEF BufOK
  <2> QED BY <1>8, <2>1
<1> HIDE DEF c
<1>10. SubSeq(d, 1, len) = Piece(s, q, q + l)
  <2>1. SubSeq(d, 1, len) = Piece(d, 0, len)
    BY <1>3, <1>8, SubSeqIsPiece
  <2>2. PICK h \in Nat : h = len /\ h <= p - q
    BY <1>3, <1>8
  <2>3. Piece(d, 0, h) = Piece(s, q, q + h)
    <3>1. Piece(Piece(s, q, p), 0, h) = Piece(s, q, q + h)
      BY <2>2, PieceOfAPiece
    <3> QED BY <1>3, <3>1
  <2> QED BY <1>8, <2>1, <2>2, <2>3
<1>11. PICK x, e : x = Piece(s, q, q + l) /\ e = c
  OBVIOUS
<1>12. Read(b, FillUnit) = [data |-> x, buf |-> e]
  BY <1>4, <1>10, <1>11
<1>13. Read(b, FillUnit).data = x /\ Read(b, FillUnit).buf = e
  BY <1>12
<1>14. Len(x) = l
  <2>1. q + l \in Int /\ q <= q + l /\ (q + l) - q = l
    BY <1>1, <1>8
  <2>2. Len(Piece(s, q, q + l)) = (q + l) - q
    <3>1. PICK e2 \in Int : e2 = q + l /\ q <= e2 /\ q \in Int
      BY <2>1
    <3> QED BY <3>1, PieceIsSeq
  <2> QED BY <1>11, <2>1, <2>2
<1> QED BY <1>1, <1>8, <1>9, <1>11, <1>13, <1>14

(* Where the search could go wrong, and did not.                             *)
LEMMA NoEdge ==
    ASSUME IsSeq(body), NEW b, BufOK(b), b.begin >= 0, NEW p \in Nat, NEW q \in Nat, p = q + b.n,
           Holds(b, body, p), NEW m \in Nat, BoundOf(b, q, p, m), NEW l \in Nat, l <= b.n,
           ~AtEdge(b, p, l), NEW i \in Nat, i <= Len(body), i + 3 > p,
           \/ i \in (q + 1)..(q + 1 + l)
           \/ i = q + l + 2 /\ l < b.n /\ body[q + l + 1] = CR
    PROVE  Starts(body, i) <=> m = i
<1>1. PICK g \in Nat, n \in Nat : g = b.begin /\ n = b.n /\ p - n + 1 = q + 1 /\ p - q = n /\ q + n = p
  BY DEF BufOK
<1>2. PICK d : d = Data(b)
  OBVIOUS
<1>3. d = Piece(body, q, p)
  BY <1>1, <1>2, DataIsPiece
<1>4. PICK x \in Int : x = IF l < n /\ d[l + 1] = CR THEN l + 1 ELSE l
  OBVIOUS
<1>5. i \in (q + 1)..(q + 1 + x)
  <2>1. x >= l /\ (l < n /\ d[l + 1] = CR => x = l + 1)
    BY <1>4
  <2>2. CASE i \in (q + 1)..(q + 1 + l)
    BY <2>1, <2>2
  <2>3. CASE i = q + l + 2 /\ l < b.n /\ body[q + l + 1] = CR
    <3>1. l + 1 \in 1..(p - q) /\ q + (l + 1) = q + l + 1
      BY <1>1, <2>3
    <3>2. d[l + 1] = CR
      <4>1. Piece(body, q, p)[l + 1] = body[q + (l + 1)]
        BY <3>1, PieceElement
      <4> QED BY <1>3, <2>3, <3>1, <4>1
    <3>3. x = l + 1
      BY <1>1, <2>1, <2>3, <3>2
    <3> QED BY <2>3, <3>3
  <2> QED BY <2>2, <2>3
<1>6. Len(BoundaryNext) = 4
  BY BoundaryNextFacts
<1>7. IsPrefix(BoundaryNext, Unread(i - 1)) <=> MemStr(b, BoundaryNext) = g + i - (q + 1)
  <2> DEFINE Seen(j) == MemStr(b, BoundaryNext) = b.begin + j - (p - b.n + 1)
             Real(j) == IsPrefix(BoundaryNext, Unread(j - 1))
  <2>1. AtEdge(b, p, l) <=> \E j \in (p - b.n + 1)..((p - b.n + 1) + (IF l < b.n /\ Data(b)[l + 1] = CR THEN l + 1 ELSE l)) :
                               j + Len(BoundaryNext) - 1 > p /\ Real(j) # Seen(j)
    BY DEF AtEdge
  <2> HIDE DEF Real, Seen
  <2>2. i + 4 - 1 > p
    OBVIOUS
  <2>3. i \in (p - b.n + 1)..((p - b.n + 1) + (IF l < b.n /\ Data(b)[l + 1] = CR THEN l + 1 ELSE l))
    BY <1>1, <1>2, <1>4, <1>5
  <2>4. Real(i) = Seen(i)
    BY <1>6, <2>1, <2>2, <2>3
  <2>5. Real(i) <=> Seen(i)
    BY <2>4
  <2>6. Seen(i) <=> MemStr(b, BoundaryNext) = g + i - (q + 1)
    BY <1>1 DEF Seen
  <2> QED BY <2>5, <2>6 DEF Real
<1>8. i \in 1..Len(body)
  BY <1>5
<1>9. IsPrefix(BoundaryNext, Unread(i - 1)) <=> Starts(body, i)
  BY <1>8, PrefixStarts DEF Unread
<1>10. MemStr(b, BoundaryNext) = g + i - (q + 1) <=> m = i
  <2>1. CASE m = 0 /\ MemStr(b, BoundaryNext) = NoPtr
    <3>1. g + i - (q + 1) # NoPtr /\ i # 0
      BY <1>5 DEF NoPtr
    <3> QED BY <2>1, <3>1
  <2>2. CASE m \in (q + 1)..p /\ MemStr(b, BoundaryNext) = b.begin + m - (q + 1)
    <3>1. PICK c \in Int : c = g + m - (q + 1)
      OBVIOUS
    <3>3. MemStr(b, BoundaryNext) = c
      BY <1>1, <2>2, <3>1
    <3>2. c = g + i - (q + 1) <=> m = i
      BY <3>1
    <3> QED BY <3>2, <3>3
  <2> QED BY <2>1, <2>2 DEF BoundOf
<1> QED BY <1>7, <1>9, <1>10

(* The data from q on ends behind e bytes, at a line end and a boundary.     *)
DataUntil(s, q, e) ==
    /\ q \in Nat /\ e \in Nat /\ q <= e /\ e + 5 <= Len(s) /\ Len(s) \in Nat
    /\ s[e + 1] = CR /\ s[e + 2] = LF /\ BoundaryAt(s, e + 2)
    /\ \A i \in (q + 1)..e : s[i] # "B"

LEMMA OneStart ==
    ASSUME NEW s, NEW q, NEW e, DataUntil(s, q, e), NEW i \in (q + 1)..(e + 2)
    PROVE  Starts(s, i) <=> i = e + 2
<1>1. q \in Nat /\ e \in Nat /\ q <= e /\ e + 5 <= Len(s) /\ Len(s) \in Nat
      /\ s[e + 1] = CR /\ s[e + 2] = LF /\ BoundaryAt(s, e + 2)
      /\ \A j \in (q + 1)..e : s[j] # "B"
  BY DEF DataUntil
<1>2. i \in Nat
  BY <1>1
<1>3. CASE i = e + 2
  <2>1. i + 3 <= Len(s) /\ s[i] = LF /\ BoundaryAt(s, i)
    BY <1>1, <1>3
  <2> QED BY <1>3, <2>1 DEF Starts
<1>4. CASE i < e + 2
  <2>1. s[e + 1] # "B" /\ s[e + 2] # "B" /\ s[e + 3] # "B" /\ s[e + 4] # "B"
    <3>1. s[(e + 2) + 1] = "-" /\ s[(e + 2) + 2] = "-" /\ (e + 2) + 1 = e + 3 /\ (e + 2) + 2 = e + 4
      BY <1>1 DEF BoundaryAt
    <3> QED BY <1>1, <3>1 DEF CR, LF
  <2>2. i + 3 \in (q + 1)..e \/ i + 3 = e + 1 \/ i + 3 = e + 2 \/ i + 3 = e + 3 \/ i + 3 = e + 4
    BY <1>1, <1>4
  <2>3. s[i + 3] # "B"
    BY <1>1, <2>1, <2>2
  <2> QED BY <1>4, <2>3 DEF Starts, BoundaryAt
<1> QED BY <1>1, <1>2, <1>3, <1>4

(* A read stops at the end of the data ...                                   *)
LEMMA ReadStays ==
    ASSUME IsSeq(body), NEW b, BufOK(b), b.begin >= 0, NEW p \in Nat, p <= Len(body), NEW q \in Nat,
           p = q + b.n, Holds(b, body, p), NEW m \in Nat, BoundOf(b, q, p, m),
           NEW l \in Nat, l <= b.n, l = Length(body, q, b.n, m), ~AtEdge(b, p, l),
           NEW e \in Nat, DataUntil(body, q, e)
    PROVE  q + l <= e
<1> SUFFICES ASSUME q + l >= e + 1 PROVE FALSE
  OBVIOUS
<1>1. q <= e /\ e + 5 <= Len(body) /\ Len(body) \in Nat /\ body[e + 1] = CR
  BY DEF DataUntil
<1>2. PICK n \in Nat : n = b.n /\ q + n = p /\ l <= n
  BY DEF BufOK
<1>3. PICK i \in Nat : i = e + 2 /\ i \in (q + 1)..(q + 1 + l) /\ i <= Len(body) /\ i \in (q + 1)..(e + 2)
  BY <1>1
<1>4. Starts(body, i)
  BY <1>3, OneStart
<1>5. m = i
  <2>1. CASE i + 3 > p
    BY <1>3, <1>4, <2>1, NoEdge
  <2>2. CASE i + 3 <= p
    <3>1. i \in (q + 1)..p
      BY <1>3, <2>2
    <3>2. Match(b, q, i)
      BY <1>1, <1>4, <2>2, <3>1, MatchStarts
    <3>3. m \in (q + 1)..p /\ Match(b, q, m) /\ m <= i
      BY <3>1, <3>2 DEF BoundOf
    <3>4. m + 3 <= p /\ m \in (q + 1)..(e + 2)
      BY <1>3, <2>2, <3>3
    <3>5. Starts(body, m)
      BY <1>1, <3>3, <3>4, MatchStarts
    <3>6. m = e + 2
      BY <3>4, <3>5, OneStart
    <3> QED BY <1>3, <3>6
  <2> QED BY <1>3, <2>1, <2>2
<1>6. PICK most \in Int : most = Most(q, n, m) /\ most <= e + 1 - q
  <2>1. m # 0 /\ m - (q + 1) = e + 1 - q
    BY <1>3, <1>5
  <2>2. PICK u \in Int : u = FillUnit - 1
    BY FillAssumption
  <2>3. PICK x \in Int : x = e + 1 - q
    BY <1>1
  <2>4. Most(q, n, m) = IF x <= u THEN x ELSE u
    BY <2>1, <2>2, <2>3 DEF Most
  <2>5. (IF x <= u THEN x ELSE u) \in Int /\ (IF x <= u THEN x ELSE u) <= x
    OBVIOUS
  <2> QED BY <2>3, <2>4, <2>5
<1>7. l = IF m # 0 /\ most > 0 /\ body[q + most] = CR THEN most - 1 ELSE most
  BY <1>2, <1>6 DEF Length
<1>8. l >= e + 1 - q
  BY <1>1
<1>9. most = e + 1 - q
  BY <1>1, <1>6, <1>7, <1>8
<1>10. m # 0 /\ most > 0 /\ q + most = e + 1
  BY <1>1, <1>3, <1>5, <1>9
<1>11. l = most - 1
  BY <1>1, <1>7, <1>10
<1> QED BY <1>1, <1>8, <1>9, <1>11

(* ... and returns nothing only there.                                       *)
LEMMA ReadEnds ==
    ASSUME IsSeq(body), NEW b, BufOK(b), b.begin >= 0, NEW p \in Nat, p <= Len(body), NEW q \in Nat,
           p = q + b.n, Holds(b, body, p), NEW m \in Nat, BoundOf(b, q, p, m),
           b.n > 0, 0 = Length(body, q, b.n, m), ~AtEdge(b, p, 0),
           NEW e \in Nat, DataUntil(body, q, e)
    PROVE  q = e
<1> SUFFICES ASSUME q < e PROVE FALSE
  BY DEF DataUntil
<1>1. e + 5 <= Len(body) /\ Len(body) \in Nat
  BY DEF DataUntil
<1>2. PICK n \in Nat : n = b.n /\ q + n = p /\ n > 0
  BY DEF BufOK
<1>3. PICK u \in Nat : u = FillUnit - 1 /\ u >= 2
  BY FillAssumption
<1>4. PICK most \in Int : most = Most(q, n, m)
                          /\ most = LET max == IF m = 0 THEN n ELSE m - (q + 1) IN IF max <= u THEN max ELSE u
  BY <1>3 DEF Most
<1>5. 0 = IF m # 0 /\ most > 0 /\ body[q + most] = CR THEN most - 1 ELSE most
  BY <1>2, <1>4 DEF Length
<1>6. m # 0
  BY <1>2, <1>3, <1>4, <1>5
<1>7. m \in (q + 1)..p /\ Match(b, q, m)
  BY <1>6 DEF BoundOf
<1>8. m - (q + 1) = 0 \/ (m - (q + 1) = 1 /\ body[q + 1] = CR)
  BY <1>3, <1>4, <1>5, <1>6
<1>9. m \in (q + 1)..(e + 2) /\ m # e + 2 /\ m <= Len(body)
  BY <1>1, <1>7, <1>8
<1>10. ~Starts(body, m)
  BY <1>9, OneStart
<1>11. m + 3 > p
  BY <1>1, <1>7, <1>10, MatchStarts
<1>12. \/ m \in (q + 1)..(q + 1 + 0)
       \/ m = q + 0 + 2 /\ 0 < b.n /\ body[q + 0 + 1] = CR
  BY <1>7, <1>8
<1>13. Starts(body, m) <=> m = m
  <2>1. PICK o \in Nat : o = 0
    OBVIOUS
  <2>2. o <= b.n /\ ~AtEdge(b, p, o)
    BY <1>2, <2>1
  <2>3. \/ m \in (q + 1)..(q + 1 + o)
        \/ m = q + o + 2 /\ o < b.n /\ body[q + o + 1] = CR
    BY <1>12, <2>1
  <2> QED BY <1>9, <1>11, <2>2, <2>3, NoEdge
<1> QED BY <1>10, <1>13

(* The bytes of a form.                                                      *)
Bytes(f) == {"-", "B", CR, LF} \cup Range(f.preamble)
            \cup UNION {Range(f.parts[i].headers) \cup Range(f.parts[i].data)
                        \cup Range(f.parts[i].end) : i \in DOMAIN f.parts}
PartOf(S, p) == p.headers \in Seq(S) /\ p.data \in Seq(S) /\ p.end \in Seq(S)

LEMMA FormTyped ==
    ASSUME NEW f \in Forms
    PROVE  /\ IsSeq(f.parts) /\ DOMAIN f.parts = 1..Len(f.parts) /\ f.preamble \in Seq(Bytes(f))
           /\ {"-", "B", CR, LF} \subseteq Bytes(f)
           /\ \A i \in DOMAIN f.parts : PartOf(Bytes(f), f.parts[i])
<1> DEFINE parts == f.parts
           S == Bytes(f)
<1>1. IsSeq(parts) /\ DOMAIN parts = 1..Len(parts)
  <2>1. parts \in Seq(Range(parts))
    BY InputAssumption DEF IsText
  <2> HIDE DEF parts
  <2> QED BY <2>1, SeqIsSeq, LenProperties
<1>2. /\ f.preamble \in Seq(Range(f.preamble))
      /\ \A i \in DOMAIN parts : /\ parts[i].headers \in Seq(Range(parts[i].headers))
                                 /\ parts[i].data \in Seq(Range(parts[i].data))
                                 /\ parts[i].end \in Seq(Range(parts[i].end))
  BY InputAssumption DEF IsText
<1>3. /\ {"-", "B", CR, LF} \subseteq S /\ Range(f.preamble) \subseteq S
      /\ \A i \in DOMAIN parts : /\ Range(parts[i].headers) \subseteq S
                                 /\ Range(parts[i].data) \subseteq S
                                 /\ Range(parts[i].end) \subseteq S
  BY DEF Bytes
<1> HIDE DEF S
<1>4. f.preamble \in Seq(S)
  BY <1>2, <1>3, SeqMonotonic
<1>5. ASSUME NEW i \in DOMAIN parts PROVE PartOf(S, parts[i])
  <2>1. parts[i].headers \in Seq(S) /\ parts[i].data \in Seq(S) /\ parts[i].end \in Seq(S)
    <3> HIDE DEF parts
    <3> QED BY <1>2, <1>3, SeqMonotonic
  <2> QED BY <2>1 DEF PartOf
<1> QED BY <1>1, <1>3, <1>4, <1>5 DEF S

(* A piece that lies in s, and the two it is joined of.                      *)
LieBehind(s, c, x, y, p) ==
    LiesAt(s, x, p) /\ LiesAt(s, y, p + Len(x)) /\ Len(c) = Len(x) + Len(y)

LEMMA LiesSplit ==
    ASSUME NEW S, NEW s \in Seq(S), NEW x \in Seq(S), NEW y \in Seq(S), NEW p \in Nat,
           NEW c, c = x \o y, LiesAt(s, c, p)
    PROVE  LieBehind(s, c, x, y, p)
<1>1. c \in Seq(S) /\ Joined(c, x, y)
  BY Concatenated
<1>2. LiesAt(c, x, 0) /\ LiesAt(c, y, Len(x)) /\ Len(c) = Len(x) + Len(y)
  BY <1>1 DEF Joined
<1>3. Len(x) \in Nat /\ p + 0 = p /\ 0 \in Nat
  BY LenProperties
<1>4. LiesAt(s, x, p + 0)
  BY <1>1, <1>2, <1>3, PieceOfPiece
<1>5. LiesAt(s, y, p + Len(x))
  BY <1>1, <1>2, <1>3, PieceOfPiece
<1> QED BY <1>2, <1>3, <1>4, <1>5 DEF LieBehind

(* The lines of the headers.                                                 *)
HeaderLines(hs) == [i \in DOMAIN hs |-> <<hs[i]>> \o CRLF]

LEMMA ConstantsTyped ==
    ASSUME NEW S, {"-", "B", CR, LF} \subseteq S
    PROVE  /\ CRLF \in Seq(S) /\ Boundary \in Seq(S) /\ <<"-", "-">> \in Seq(S)
           /\ Len(CRLF) = 2 /\ CRLF[1] = CR /\ CRLF[2] = LF
<1>1. CR \in S /\ LF \in S /\ "-" \in S /\ "B" \in S
  OBVIOUS
<1>2. <<CR, LF>> \in Seq(S)
  BY <1>1
<1>3. <<"-", "-", "B">> \in Seq(S)
  BY <1>1
<1>4. <<"-", "-">> \in Seq(S)
  BY <1>1
<1> QED BY <1>2, <1>3, <1>4 DEF CRLF, Boundary

LineOfHeader(x, h) == Len(x) = 3 /\ x[1] = h /\ x[2] = CR /\ x[3] = LF

LEMMA HeaderLineIs ==
    ASSUME NEW S, {"-", "B", CR, LF} \subseteq S, NEW h \in S, NEW x, x = <<h>> \o CRLF
    PROVE  x \in Seq(S) /\ LineOfHeader(x, h)
<1>1. PICK a, b : a = <<h>> /\ b = CRLF
  OBVIOUS
<1>2. a \in Seq(S) /\ Len(a) = 1 /\ a[1] = h
  BY <1>1
<1>3. b \in Seq(S) /\ Len(b) = 2 /\ b[1] = CR /\ b[2] = LF
  BY <1>1, ConstantsTyped
<1>4. x \in Seq(S) /\ Joined(x, a, b)
  BY <1>1, <1>2, <1>3, Concatenated
<1> QED BY <1>2, <1>3, <1>4 DEF Joined, LiesAt, LineOfHeader

HeaderBytes(all, hs) ==
    /\ Len(all) = 3 * Len(hs)
    /\ \A i \in 1..Len(hs) : all[3 * i - 2] = hs[i] /\ all[3 * i - 1] = CR /\ all[3 * i] = LF

LEMMA HeadersLie ==
    ASSUME NEW S, {"-", "B", CR, LF} \subseteq S, NEW hs \in Seq(S),
           NEW all, all = FlattenSeq(HeaderLines(hs))
    PROVE  all \in Seq(S) /\ HeaderBytes(all, hs)
<1>1. PICK n \in Nat : n = Len(hs) /\ DOMAIN hs = 1..n
  BY LenProperties
<1>2. PICK ss : ss = HeaderLines(hs)
  OBVIOUS
<1>3. ASSUME NEW i \in 1..n
      PROVE  ss[i] \in Seq(S) /\ Len(ss[i]) = 3 /\ ss[i][1] = hs[i] /\ ss[i][2] = CR /\ ss[i][3] = LF
  <2>1. PICK h \in S : h = hs[i]
    BY <1>1, ElementOfSeq
  <2>2. PICK x : x = ss[i]
    OBVIOUS
  <2>3. x = <<h>> \o CRLF
    BY <1>1, <1>2, <2>1, <2>2 DEF HeaderLines
  <2>4. x \in Seq(S) /\ LineOfHeader(x, h)
    BY <2>3, HeaderLineIs
  <2> QED BY <2>1, <2>2, <2>4 DEF LineOfHeader
<1>4. ss \in Seq(Seq(S)) /\ Len(ss) = n
  <2>1. ss = [i \in 1..n |-> ss[i]]
    BY <1>1, <1>2 DEF HeaderLines
  <2>2. ss \in [1..n -> Seq(S)]
    BY <1>3, <2>1
  <2> QED BY <2>2, SeqDef, LenProperties
<1>5. PICK g : Flattens(g, ss, S) /\ FlattenSeq(ss) = g[Len(ss)]
  BY <1>4, FlattenSteps
<1>6. g \in [0..n -> Seq(S)] /\ g[0] = <<>> /\ all = g[n]
  BY <1>2, <1>4, <1>5 DEF Flattens
<1>7. ASSUME NEW k \in 1..n PROVE Behind(g, ss, k)
  BY <1>4, <1>5, FlattenBehind
<1> DEFINE T == {k \in 0..n : Len(g[k]) = 3 * k}
<1>8. \A k \in 0..n : k \in T
  <2>1. 0 \in T
    BY <1>6
  <2>2. ASSUME NEW k \in 0..n, k \in T, k < n PROVE k + 1 \in T
    <3>1. k + 1 \in 1..n /\ (k + 1) - 1 = k
      BY <2>2
    <3>2. Len(g[k + 1]) = Len(g[k]) + Len(ss[k + 1])
      BY <1>7, <3>1 DEF Behind
    <3>3. Len(g[k + 1]) = 3 * k + 3
      BY <1>3, <2>2, <3>1, <3>2
    <3> QED BY <3>1, <3>3
  <2>3. \A k \in 0..n : k \in T /\ k < n => k + 1 \in T
    BY <2>2
  <2> HIDE DEF T
  <2> QED BY <2>1, <2>3, Induction
<1>9. ASSUME NEW i \in 1..n PROVE all[3 * i - 2] = hs[i] /\ all[3 * i - 1] = CR /\ all[3 * i] = LF
  <2>1. PICK p \in Nat : p = Len(g[i - 1]) /\ LiesAt(all, ss[i], p)
    BY <1>4, <1>6, <1>7 DEF Behind
  <2>2. i - 1 \in 0..n
    OBVIOUS
  <2>3. p = 3 * (i - 1)
    BY <1>8, <2>1, <2>2
  <2>4. p + 1 = 3 * i - 2 /\ p + 2 = 3 * i - 1 /\ p + 3 = 3 * i
    BY <2>3
  <2>5. all[p + 1] = ss[i][1] /\ all[p + 2] = ss[i][2] /\ all[p + 3] = ss[i][3]
    BY <1>3, <2>1 DEF LiesAt
  <2> QED BY <1>3, <2>4, <2>5
<1>10. n \in 0..n
  OBVIOUS
<1>11. all \in Seq(S) /\ Len(all) = 3 * n
  BY <1>6, <1>8, <1>10
<1> QED BY <1>1, <1>9, <1>11 DEF HeaderBytes

LEMMA PartIsSeq ==
    ASSUME NEW S, {"-", "B", CR, LF} \subseteq S, NEW p, PartOf(S, p)
    PROVE  EncodePart(p) \in Seq(S)
<1>1. p.headers \in Seq(S) /\ p.data \in Seq(S) /\ p.end \in Seq(S)
  BY DEF PartOf
<1>2. PICK hs : hs = FlattenSeq(HeaderLines(p.headers))
  OBVIOUS
<1>3. hs \in Seq(S)
  BY <1>1, <1>2, HeadersLie
<1>4. CRLF \in Seq(S) /\ Boundary \in Seq(S)
  BY ConstantsTyped
<1>5. EncodePart(p) = Boundary \o CRLF \o hs \o CRLF \o p.data \o p.end
  BY <1>2 DEF EncodePart, HeaderLines
<1>6. Boundary \o CRLF \in Seq(S)
  BY <1>4, ConcatProperties
<1>7. Boundary \o CRLF \o hs \in Seq(S)
  BY <1>3, <1>6, ConcatProperties
<1>8. Boundary \o CRLF \o hs \o CRLF \in Seq(S)
  BY <1>4, <1>7, ConcatProperties
<1>9. Boundary \o CRLF \o hs \o CRLF \o p.data \in Seq(S)
  BY <1>1, <1>8, ConcatProperties
<1>10. Boundary \o CRLF \o hs \o CRLF \o p.data \o p.end \in Seq(S)
  BY <1>1, <1>9, ConcatProperties
<1> QED BY <1>5, <1>10

(* An encoded part lies in s as PartLies says.                               *)
LEMMA PartLays ==
    ASSUME NEW S, {"-", "B", CR, LF} \subseteq S, NEW s \in Seq(S), NEW p, PartOf(S, p),
           NEW t \in Nat, LiesAt(s, EncodePart(p), t)
    PROVE  /\ PartLies(s, t, p) /\ EndOf(t, p) + Len(p.end) <= Len(s)
           /\ t + Len(EncodePart(p)) = EndOf(t, p) + Len(p.end)
<1>1. PICK h \in Seq(S), d \in Seq(S), e \in Seq(S) : h = p.headers /\ d = p.data /\ e = p.end
  BY DEF PartOf
<1>2. PICK hs : hs = FlattenSeq(HeaderLines(h))
  OBVIOUS
<1>3. /\ hs \in Seq(S) /\ Len(hs) = 3 * Len(h)
      /\ \A i \in 1..Len(h) : hs[3 * i - 2] = h[i] /\ hs[3 * i - 1] = CR /\ hs[3 * i] = LF
  <2>1. hs \in Seq(S) /\ HeaderBytes(hs, h)
    BY <1>2, HeadersLie
  <2> QED BY <2>1 DEF HeaderBytes
<1>4. PICK nl \in Seq(S), bo \in Seq(S) : nl = CRLF /\ bo = Boundary
  BY ConstantsTyped
<1>5. Len(nl) = 2 /\ nl[1] = CR /\ nl[2] = LF
  BY <1>4, ConstantsTyped
<1>6. Len(bo) = 3 /\ bo[1] = "-" /\ bo[2] = "-" /\ bo[3] = "B"
  BY <1>4, BoundaryFacts
<1>7. PICK w1 \in Seq(S) : w1 = bo \o nl
  BY ConcatProperties
<1>8. PICK w2 \in Seq(S) : w2 = w1 \o hs
  BY <1>3, ConcatProperties
<1>9. PICK w3 \in Seq(S) : w3 = w2 \o nl
  BY ConcatProperties
<1>10. PICK w4 \in Seq(S) : w4 = w3 \o d
  BY ConcatProperties
<1>11. PICK w5 : w5 = w4 \o e
  OBVIOUS
<1>12. EncodePart(p) = w5
  BY <1>1, <1>2, <1>4, <1>7, <1>8, <1>9, <1>10, <1>11 DEF EncodePart, HeaderLines
<1>13. LiesAt(s, w4, t) /\ LiesAt(s, e, t + Len(w4)) /\ Len(w5) = Len(w4) + Len(e)
  <2>1. LieBehind(s, w5, w4, e, t)
    BY <1>11, <1>12, LiesSplit
  <2> QED BY <2>1 DEF LieBehind
<1>14. LiesAt(s, w3, t) /\ LiesAt(s, d, t + Len(w3)) /\ Len(w4) = Len(w3) + Len(d)
  <2>1. LieBehind(s, w4, w3, d, t)
    BY <1>10, <1>13, LiesSplit
  <2> QED BY <2>1 DEF LieBehind
<1>15. LiesAt(s, w2, t) /\ LiesAt(s, nl, t + Len(w2)) /\ Len(w3) = Len(w2) + Len(nl)
  <2>1. LieBehind(s, w3, w2, nl, t)
    BY <1>9, <1>14, LiesSplit
  <2> QED BY <2>1 DEF LieBehind
<1>16. LiesAt(s, w1, t) /\ LiesAt(s, hs, t + Len(w1)) /\ Len(w2) = Len(w1) + Len(hs)
  <2>1. LieBehind(s, w2, w1, hs, t)
    BY <1>3, <1>8, <1>15, LiesSplit
  <2> QED BY <2>1 DEF LieBehind
<1>17. LiesAt(s, bo, t) /\ LiesAt(s, nl, t + Len(bo)) /\ Len(w1) = Len(bo) + Len(nl)
  <2>1. LieBehind(s, w1, bo, nl, t)
    BY <1>7, <1>16, LiesSplit
  <2> QED BY <2>1 DEF LieBehind
<1>18. PICK lh \in Nat, ld \in Nat, le \in Nat : lh = Len(h) /\ ld = Len(d) /\ le = Len(e)
  BY LenProperties
<1>19. /\ Len(w1) = 5 /\ Len(w2) = 5 + 3 * lh /\ Len(w3) = 7 + 3 * lh /\ Len(w4) = 7 + 3 * lh + ld
       /\ Len(w5) = 7 + 3 * lh + ld + le
  <2>1. Len(w1) = 5
    BY <1>5, <1>6, <1>17
  <2>2. Len(w2) = 5 + 3 * lh
    BY <1>3, <1>16, <1>18, <2>1
  <2>3. Len(w3) = (5 + 3 * lh) + 2
    BY <1>5, <1>15, <2>2
  <2>4. Len(w3) = 7 + 3 * lh
    BY <2>3
  <2>5. Len(w4) = 7 + 3 * lh + ld
    BY <1>14, <1>18, <2>4
  <2> QED BY <1>13, <1>18, <2>1, <2>2, <2>4, <2>5
<1>20. PICK hd \in Nat, at \in Nat, to \in Nat : hd = t + 5 /\ at = t + 7 + 3 * lh /\ to = at + ld
  OBVIOUS
<1>21. DataAt(t, p) = at /\ EndOf(t, p) = to /\ HeaderAt(t, lh) = at - 2
  <2>1. Len(p.headers) = lh /\ Len(p.data) = ld
    BY <1>1, <1>18
  <2>2. HeaderAt(t, lh) = t + 5 + 3 * lh
    BY DEF HeaderAt
  <2>3. HeaderAt(t, lh) + 2 = at /\ at - 2 = HeaderAt(t, lh)
    BY <1>20, <2>2
  <2>4. DataAt(t, p) = at
    BY <2>1, <2>3 DEF DataAt
  <2>5. EndOf(t, p) = to
    BY <1>20, <2>1, <2>4 DEF EndOf
  <2> QED BY <2>3, <2>4, <2>5
<1>22. PartAt(s, t)
  <2>1. s[t + 1] = "-" /\ s[t + 2] = "-" /\ s[t + 3] = "B"
    BY <1>6, <1>17 DEF LiesAt
  <2>2. s[(t + 3) + 1] = CR /\ s[(t + 3) + 2] = LF
    BY <1>5, <1>6, <1>17 DEF LiesAt
  <2>3. (t + 3) + 1 = t + 4 /\ (t + 3) + 2 = t + 5
    OBVIOUS
  <2> QED BY <2>1, <2>2, <2>3 DEF PartAt, BoundaryAt
<1>23. ASSUME NEW i \in 1..lh
       PROVE  s[HeaderAt(t, i) - 2] = h[i] /\ s[HeaderAt(t, i) - 1] = CR /\ s[HeaderAt(t, i)] = LF
  <2>1. LiesAt(s, hs, hd)
    BY <1>16, <1>19, <1>20
  <2>2. 3 * i - 2 \in 1..(3 * lh) /\ 3 * i - 1 \in 1..(3 * lh) /\ 3 * i \in 1..(3 * lh)
    <3>1. i >= 1 /\ i <= lh /\ i \in Nat
      OBVIOUS
    <3> QED BY <3>1
  <2>3. s[hd + (3 * i - 2)] = hs[3 * i - 2] /\ s[hd + (3 * i - 1)] = hs[3 * i - 1] /\ s[hd + 3 * i] = hs[3 * i]
    BY <1>3, <1>18, <2>1, <2>2 DEF LiesAt
  <2>4. hd + (3 * i - 2) = HeaderAt(t, i) - 2 /\ hd + (3 * i - 1) = HeaderAt(t, i) - 1 /\ hd + 3 * i = HeaderAt(t, i)
    BY <1>20 DEF HeaderAt
  <2> QED BY <1>3, <1>18, <2>3, <2>4
<1>24. s[at - 1] = CR /\ s[at] = LF
  <2>1. LiesAt(s, nl, at - 2)
    <3>1. t + (5 + 3 * lh) = at - 2
      BY <1>20
    <3> QED BY <1>15, <1>19, <3>1
  <2>2. s[(at - 2) + 1] = CR /\ s[(at - 2) + 2] = LF
    BY <1>5, <2>1 DEF LiesAt
  <2>3. (at - 2) + 1 = at - 1 /\ (at - 2) + 2 = at
    OBVIOUS
  <2> QED BY <2>2, <2>3
<1>25. \A i \in 1..ld : s[at + i] = d[i]
  <2>1. t + (7 + 3 * lh) = at
    BY <1>20
  <2>2. LiesAt(s, d, at)
    BY <1>14, <1>19, <2>1
  <2> QED BY <1>18, <2>2 DEF LiesAt
<1>26. LiesAt(s, e, to)
  <2>1. t + (7 + 3 * lh + ld) = to
    BY <1>20
  <2> QED BY <1>13, <1>19, <2>1
<1>27. e = CRLF => s[to + 1] = CR /\ s[to + 2] = LF
  <2> SUFFICES ASSUME e = CRLF PROVE s[to + 1] = CR /\ s[to + 2] = LF
    OBVIOUS
  <2>1. LiesAt(s, nl, to)
    BY <1>4, <1>26
  <2> QED BY <1>5, <2>1 DEF LiesAt
<1>28. PartLies(s, t, p)
  BY <1>1, <1>18, <1>21, <1>22, <1>23, <1>24, <1>25, <1>27 DEF PartLies
<1>29. t + Len(EncodePart(p)) = to + le
  BY <1>12, <1>19, <1>20
<1>30. to + le <= Len(s)
  BY <1>18, <1>26 DEF LiesAt
<1> QED BY <1>1, <1>18, <1>21, <1>28, <1>29, <1>30

(* What is joined of the first sequences of ss, step by step.                *)
JoinedUpTo(g, ss, m) ==
    /\ g[0] = <<>> /\ g[m] = FlattenSeq(ss)
    /\ \A j \in 0..m : IsSeq(g[j])
    /\ \A j \in 1..m : g[j] = g[j - 1] \o ss[j]

LEMMA SmallJoined ==
    ASSUME NEW m \in Nat, NEW ss, ss = [i \in 1..m |-> ss[i]],
           \A i \in 1..m : ss[i] = <<>> \/ ss[i] = <<ss[i][1]>>
    PROVE  \E g : JoinedUpTo(g, ss, m)
<1> DEFINE V == {ss[i][1] : i \in 1..m}
<1>1. ASSUME NEW i \in 1..m PROVE ss[i] \in Seq(V)
  <2>1. PICK x : x = ss[i][1]
    OBVIOUS
  <2>2. x \in V
    BY <2>1
  <2> HIDE DEF V
  <2>3. <<x>> \in Seq(V) /\ <<>> \in Seq(V)
    BY <2>2, EmptySeq
  <2> QED BY <2>1, <2>3
<1> HIDE DEF V
<1>2. ss \in [1..m -> Seq(V)]
  BY <1>1
<1>3. ss \in Seq(Seq(V)) /\ Len(ss) = m
  BY <1>2, SeqDef, LenProperties
<1>4. PICK g : Flattens(g, ss, V) /\ FlattenSeq(ss) = g[Len(ss)]
  BY <1>3, FlattenSteps
<1>5. g \in [0..m -> Seq(V)] /\ g[0] = <<>> /\ (\A k \in 1..m : g[k] = g[k - 1] \o ss[k])
      /\ FlattenSeq(ss) = g[m]
  BY <1>3, <1>4 DEF Flattens
<1>6. ASSUME NEW j \in 0..m PROVE IsSeq(g[j])
  <2>1. g[j] \in Seq(V)
    BY <1>5
  <2> QED BY <2>1, SeqIsSeq
<1> QED BY <1>5, <1>6 DEF JoinedUpTo

LEMMA ParmsJoined ==
    ASSUME NEW f \in Forms
    PROVE  \E v : JoinedUpTo(v, [i \in DOMAIN f.parts |-> ParmOf(f.parts[i])], Len(f.parts))
<1>1. PICK m \in Nat : m = Len(f.parts) /\ DOMAIN f.parts = 1..m
  BY FormTyped DEF IsSeq
<1>2. PICK ss : ss = [i \in 1..m |-> ParmOf(f.parts[i])]
  OBVIOUS
<1>3. ASSUME NEW i \in 1..m PROVE ss[i] = <<>> \/ ss[i] = <<ss[i][1]>>
  <2>1. ss[i] = <<>> \/ \E x : ss[i] = <<x>>
    BY <1>2 DEF ParmOf
  <2> QED BY <2>1
<1>4. \E v : JoinedUpTo(v, ss, m)
  BY <1>2, <1>3, SmallJoined
<1> QED BY <1>1, <1>2, <1>4

LEMMA FilesJoined ==
    ASSUME NEW f \in Forms
    PROVE  \E u : JoinedUpTo(u, [i \in DOMAIN f.parts |-> FileOf(f.parts[i])], Len(f.parts))
<1>1. PICK m \in Nat : m = Len(f.parts) /\ DOMAIN f.parts = 1..m
  BY FormTyped DEF IsSeq
<1>2. PICK ss : ss = [i \in 1..m |-> FileOf(f.parts[i])]
  OBVIOUS
<1>3. ASSUME NEW i \in 1..m PROVE ss[i] = <<>> \/ ss[i] = <<ss[i][1]>>
  <2>1. ss[i] = <<>> \/ \E x : ss[i] = <<x>>
    BY <1>2 DEF FileOf
  <2> QED BY <2>1
<1>4. \E u : JoinedUpTo(u, ss, m)
  BY <1>2, <1>3, SmallJoined
<1> QED BY <1>1, <1>2, <1>4

(* Part j lies in s behind a[j - 1] bytes, ends behind a[j], and the last    *)
(* boundary lies behind a[m].                                                *)
PartsLie(f, s, a) ==
    LET m == Len(f.parts) IN
    /\ a \in [0..m -> Nat]
    /\ \A j \in 0..m : a[j] >= 7 * j /\ a[j] + 7 <= Len(s) /\ BoundaryAt(s, a[j])
    /\ \A j \in 1..m :
          /\ PartLies(s, a[j - 1], f.parts[j])
          /\ a[j] = EndOf(a[j - 1], f.parts[j]) + Len(f.parts[j].end)
    /\ EndAt(s, a[m])
    /\ LinesUntil(s, 0, a[0])

LEMMA FormLies == ASSUME NEW f \in Forms PROVE \E a : PartsLie(f, Encode(f), a)
<1>1. PICK S : S = Bytes(f)
  OBVIOUS
<1>2. PICK m \in Nat : m = Len(f.parts) /\ DOMAIN f.parts = 1..m
  BY FormTyped DEF IsSeq
<1>3. {"-", "B", CR, LF} \subseteq S /\ f.preamble \in Seq(S) /\ \A i \in 1..m : PartOf(S, f.parts[i])
  BY <1>1, <1>2, FormTyped
<1>4. PICK pre \in Seq(S) : pre = f.preamble
  BY <1>3
<1>5. PICK nl \in Seq(S), bo \in Seq(S), dd \in Seq(S) : nl = CRLF /\ bo = Boundary /\ dd = <<"-", "-">>
  BY <1>3, ConstantsTyped
<1>6. Len(nl) = 2 /\ nl[1] = CR /\ nl[2] = LF
  BY <1>3, <1>5, ConstantsTyped
<1>7. Len(bo) = 3 /\ bo[1] = "-" /\ bo[2] = "-" /\ bo[3] = "B"
  BY <1>5, BoundaryFacts
<1>8. Len(dd) = 2 /\ dd[1] = "-" /\ dd[2] = "-"
  BY <1>5
<1>9. PICK ss : ss = [i \in 1..m |-> EncodePart(f.parts[i])]
  OBVIOUS
<1>10. ASSUME NEW i \in 1..m PROVE ss[i] \in Seq(S) /\ ss[i] = EncodePart(f.parts[i])
  <2>1. PICK p : p = f.parts[i]
    OBVIOUS
  <2>2. PartOf(S, p)
    BY <1>3, <2>1
  <2>3. EncodePart(p) \in Seq(S)
    BY <1>3, <2>2, PartIsSeq
  <2> QED BY <1>9, <2>1, <2>3
<1>11. ss \in Seq(Seq(S)) /\ Len(ss) = m
  <2>1. ss \in [1..m -> Seq(S)]
    BY <1>9, <1>10
  <2> QED BY <2>1, SeqDef, LenProperties
<1>12. PICK g : Flattens(g, ss, S) /\ FlattenSeq(ss) = g[Len(ss)]
  BY <1>11, FlattenSteps
<1>13. g \in [0..m -> Seq(S)] /\ g[0] = <<>> /\ FlattenSeq(ss) = g[m]
  BY <1>11, <1>12 DEF Flattens
<1>14. ASSUME NEW k \in 1..m PROVE Behind(g, ss, k)
  BY <1>11, <1>12, FlattenBehind
<1>15. PICK all \in Seq(S) : all = g[m]
  BY <1>13
<1>16. PICK w1 \in Seq(S) : w1 = pre \o all
  BY ConcatProperties
<1>17. PICK w2 \in Seq(S) : w2 = w1 \o bo
  BY ConcatProperties
<1>18. PICK w3 \in Seq(S) : w3 = w2 \o dd
  BY ConcatProperties
<1>19. PICK s \in Seq(S) : s = w3 \o nl
  BY ConcatProperties
<1>20. Encode(f) = s
  BY <1>2, <1>4, <1>5, <1>9, <1>13, <1>15, <1>16, <1>17, <1>18, <1>19 DEF Encode
<1>21. LieBehind(s, s, w3, nl, 0) /\ 0 \in Nat
  BY <1>19, LiesItself, LiesSplit
<1>22. LieBehind(s, w3, w2, dd, 0)
  <2>1. LiesAt(s, w3, 0)
    BY <1>21 DEF LieBehind
  <2> QED BY <1>18, <1>21, <2>1, LiesSplit
<1>23. LieBehind(s, w2, w1, bo, 0)
  <2>1. LiesAt(s, w2, 0)
    BY <1>22 DEF LieBehind
  <2> QED BY <1>17, <1>21, <2>1, LiesSplit
<1>24. LieBehind(s, w1, pre, all, 0)
  <2>1. LiesAt(s, w1, 0)
    BY <1>23 DEF LieBehind
  <2> QED BY <1>16, <1>21, <2>1, LiesSplit
<1>25. PICK A \in Nat, L \in Nat, t \in Nat : A = Len(pre) /\ L = Len(all) /\ t = A + L
  BY LenProperties
<1>26. Len(w1) = t /\ Len(w2) = t + 3 /\ Len(w3) = t + 5 /\ Len(s) = t + 7
  <2>1. Len(w1) = t
    BY <1>24, <1>25 DEF LieBehind
  <2>2. Len(w2) = t + 3
    BY <1>7, <1>23, <2>1 DEF LieBehind
  <2>3. Len(w3) = (t + 3) + 2
    BY <1>8, <1>22, <2>2 DEF LieBehind
  <2>4. Len(w3) = t + 5
    BY <2>3
  <2>5. Len(s) = (t + 5) + 2
    BY <1>6, <1>21, <2>4 DEF LieBehind
  <2> QED BY <2>1, <2>2, <2>4, <2>5
<1>27. LiesAt(s, pre, 0) /\ LiesAt(s, all, A) /\ LiesAt(s, bo, t) /\ LiesAt(s, dd, t + 3) /\ LiesAt(s, nl, t + 5)
  <2>1. 0 + A = A /\ 0 + t = t /\ 0 + (t + 3) = t + 3 /\ 0 + (t + 5) = t + 5
    OBVIOUS
  <2>2. LiesAt(s, pre, 0) /\ LiesAt(s, all, A)
    BY <1>24, <1>25, <2>1 DEF LieBehind
  <2>3. LiesAt(s, bo, t)
    BY <1>23, <1>26, <2>1 DEF LieBehind
  <2>4. LiesAt(s, dd, t + 3)
    BY <1>22, <1>26, <2>1 DEF LieBehind
  <2>5. LiesAt(s, nl, t + 5)
    BY <1>21, <1>26, <2>1 DEF LieBehind
  <2> QED BY <2>2, <2>3, <2>4, <2>5
<1>28. PICK a : a = [j \in 0..m |-> A + Len(g[j])]
  OBVIOUS
<1>29. ASSUME NEW j \in 0..m PROVE Len(g[j]) \in Nat /\ a[j] = A + Len(g[j]) /\ a[j] \in Nat
  <2>1. g[j] \in Seq(S)
    BY <1>13
  <2>2. Len(g[j]) \in Nat
    BY <2>1, LenProperties
  <2> QED BY <1>28, <2>2
<1>30. a \in [0..m -> Nat] /\ a[0] = A /\ a[m] = t
  <2>1. a = [j \in 0..m |-> a[j]]
    BY <1>28
  <2>2. Len(g[0]) = 0 /\ 0 \in 0..m /\ m \in 0..m
    BY <1>13
  <2>3. a[0] = A + 0 /\ a[m] = A + L
    BY <1>15, <1>25, <1>29, <2>2
  <2> QED BY <1>25, <1>29, <2>1, <2>3
<1>31. ASSUME NEW j \in 1..m
       PROVE  /\ PartLies(s, a[j - 1], f.parts[j]) /\ a[j - 1] \in Nat /\ a[j] \in Nat
              /\ a[j] = EndOf(a[j - 1], f.parts[j]) + Len(f.parts[j].end)
              /\ a[j] >= a[j - 1] + 7
  <2>1. PICK p : p = f.parts[j]
    OBVIOUS
  <2>2. PartOf(S, p) /\ ss[j] = EncodePart(p) /\ ss[j] \in Seq(S)
    BY <1>3, <1>10, <2>1
  <2>3. PICK k \in Nat : /\ k = Len(g[j - 1]) /\ Len(g[j]) = k + Len(ss[j]) /\ LiesAt(all, ss[j], k)
    BY <1>11, <1>14, <1>15 DEF Behind
  <2>4. j - 1 \in 0..m /\ j \in 0..m
    OBVIOUS
  <2>5. a[j - 1] = A + k /\ a[j - 1] \in Nat /\ a[j] \in Nat /\ a[j] = A + (k + Len(ss[j]))
    BY <1>29, <2>3, <2>4
  <2>6. PICK b \in Nat : b = a[j - 1]
    BY <2>5
  <2>7. LiesAt(s, ss[j], A + k)
    BY <1>27, <2>2, <2>3, PieceOfPiece
  <2>8. LiesAt(s, EncodePart(p), b)
    BY <2>2, <2>5, <2>6, <2>7
  <2>9. /\ PartLies(s, b, p) /\ EndOf(b, p) + Len(p.end) <= Len(s)
        /\ b + Len(EncodePart(p)) = EndOf(b, p) + Len(p.end)
    BY <1>3, <2>2, <2>8, PartLays
  <2>10. PICK n \in Nat : n = Len(ss[j])
    BY <2>2, LenProperties
  <2>11. a[j] = b + n
    <3>1. a[j] = A + (k + n) /\ b = A + k
      BY <2>5, <2>6, <2>10
    <3> QED BY <3>1
  <2>12. a[j] = EndOf(b, p) + Len(p.end)
    BY <2>2, <2>9, <2>10, <2>11
  <2>13. EndOf(b, p) + Len(p.end) >= b + 7
    <3>1. PICK h \in Nat, d \in Nat, e \in Nat : h = Len(p.headers) /\ d = Len(p.data) /\ e = Len(p.end)
      BY <2>2, LenProperties DEF PartOf
    <3>2. EndOf(b, p) = b + 5 + 3 * h + 2 + d
      BY <3>1 DEF EndOf, DataAt, HeaderAt
    <3>3. PICK x \in Nat : x = EndOf(b, p)
      BY <3>2
    <3>4. x = b + 7 + 3 * h + d
      BY <3>2, <3>3
    <3>5. x + e >= b + 7
      BY <3>4
    <3> QED BY <3>1, <3>3, <3>5
  <2> QED BY <2>1, <2>5, <2>6, <2>9, <2>12, <2>13
<1>32. EndAt(s, t)
  <2>1. s[t + 1] = "-" /\ s[t + 2] = "-" /\ s[t + 3] = "B"
    BY <1>7, <1>27 DEF LiesAt
  <2>2. s[(t + 3) + 1] = "-" /\ s[(t + 3) + 2] = "-" /\ s[(t + 5) + 1] = CR /\ s[(t + 5) + 2] = LF
    BY <1>6, <1>8, <1>27 DEF LiesAt
  <2>3. (t + 3) + 1 = t + 4 /\ (t + 3) + 2 = t + 5 /\ (t + 5) + 1 = t + 6 /\ (t + 5) + 2 = t + 7
    OBVIOUS
  <2> QED BY <1>26, <2>1, <2>2, <2>3 DEF EndAt, BoundaryAt
<1>33. \A j \in 0..m : a[j] >= 7 * j
  <2> DEFINE T == {j \in 0..m : a[j] >= 7 * j}
  <2>1. 0 \in T
    BY <1>30
  <2>2. ASSUME NEW j \in 0..m, j \in T, j < m PROVE j + 1 \in T
    <3>1. PICK i \in 1..m : i = j + 1 /\ i - 1 = j
      BY <2>2
    <3>2. a[i] >= a[j] + 7 /\ a[i] \in Nat /\ a[j] \in Nat
      BY <1>31, <3>1
    <3>3. a[i] >= 7 * i
      <4>1. 7 * i = 7 * j + 7
        BY <3>1
      <4>2. PICK x \in Nat, y \in Nat, z \in Nat : x = a[j] /\ y = a[i] /\ z = 7 * j
        BY <2>2, <3>2
      <4>3. x >= z /\ y >= x + 7
        BY <2>2, <3>2, <4>2
      <4>4. y >= z + 7
        BY <4>3
      <4> QED BY <4>1, <4>2, <4>4
    <3> QED BY <3>1, <3>3
  <2>3. \A j \in 0..m : j \in T /\ j < m => j + 1 \in T
    BY <2>2
  <2> HIDE DEF T
  <2>4. \A j \in 0..m : j \in T
    BY <2>1, <2>3, Induction
  <2> QED BY <2>4 DEF T
<1>34. ASSUME NEW j \in 0..m PROVE a[j] + 7 <= Len(s) /\ BoundaryAt(s, a[j])
  <2>1. CASE j = m
    BY <1>26, <1>30, <1>32, <2>1 DEF EndAt
  <2>2. CASE j < m
    <3>1. PICK i \in 1..m : i = j + 1 /\ i - 1 = j
      BY <2>2
    <3>2. PartLies(s, a[j], f.parts[i]) /\ a[i] >= a[j] + 7 /\ a[i] \in Nat /\ a[j] \in Nat
      BY <1>31, <3>1
    <3>3. BoundaryAt(s, a[j])
      BY <3>2 DEF PartLies, PartAt
    <3>4. Len(g[i]) <= L
      <4>1. Behind(g, ss, i)
        BY <1>14
      <4>2. PICK k \in Nat : Len(g[i]) = k + Len(ss[i]) /\ LiesAt(all, ss[i], k)
        BY <1>11, <1>15, <4>1 DEF Behind
      <4> QED BY <1>25, <4>2 DEF LiesAt
    <3>5. a[i] <= t
      <4>1. i \in 0..m
        OBVIOUS
      <4> QED BY <1>25, <1>29, <3>4, <4>1
    <3>6. PICK x \in Nat, y \in Nat, z \in Nat : x = a[j] /\ y = a[i] /\ z = Len(s)
      BY <1>26, <3>2
    <3>7. y >= x + 7 /\ y <= t /\ t + 7 <= z
      BY <1>26, <3>2, <3>5, <3>6
    <3>8. x + 7 <= z
      BY <3>7
    <3> QED BY <3>3, <3>6, <3>8
  <2> QED BY <2>1, <2>2
<1>35. LinesUntil(s, 0, A)
  <2>1. ASSUME NEW i \in 1..A PROVE s[i] = pre[i] /\ pre[i] \in Range(pre)
    <3>1. s[0 + i] = pre[i] /\ 0 + i = i
      BY <1>25, <1>27 DEF LiesAt
    <3>2. i \in DOMAIN pre
      BY <1>25
    <3> QED BY <3>1, <3>2 DEF Range
  <2>2. Range(pre) \cap {"B", NUL} = {} /\ (pre # <<>> => Last(pre) = LF)
    BY <1>4, FormAssumption
  <2>3. \A i \in 1..A : s[i] \notin {"B", NUL}
    BY <2>1, <2>2
  <2>4. ASSUME 0 < A PROVE s[A] = LF
    <3>1. pre # <<>>
      BY <1>25, <2>4, EmptySeq
    <3>2. pre[A] = LF
      BY <1>25, <2>2, <3>1 DEF Last
    <3> QED BY <2>1, <2>4, <3>2
  <2>5. 0 + 1 = 1 /\ 0 \in 0..A
    OBVIOUS
  <2> QED BY <2>3, <2>4, <2>5 DEF LinesUntil
<1>36. PartsLie(f, s, a)
  BY <1>2, <1>30, <1>31, <1>32, <1>33, <1>34, <1>35 DEF PartsLie
<1> QED BY <1>20, <1>36

(* The form f lies in s, and v[j] and u[j] are the parameters and the files  *)
(* of its first j parts.                                                     *)
Laid(f, s, a, v, u) ==
    /\ PartsLie(f, s, a)
    /\ JoinedUpTo(v, [i \in DOMAIN f.parts |-> ParmOf(f.parts[i])], Len(f.parts))
    /\ JoinedUpTo(u, [i \in DOMAIN f.parts |-> FileOf(f.parts[i])], Len(f.parts))

(* What was read agrees with the parameters w and the files x.               *)
SameUpload(y, z) == y.name = z.name /\ y.filename = z.filename /\ y.data = z.data
SameUploads(ups, x) == IsSeq(ups) /\ Len(ups) = Len(x) /\ \A i \in 1..Len(x) : SameUpload(ups[i], x[i])
ReadSoFar(w, x) == parms = sends.args \o w /\ SameUploads(uploads, x)

(* Where the parser is.  Apache has not all handed over and remaining is     *)
(* more than what the empty files of j parts took off it, or it has.         *)
Room(j) == IF pos < Len(body) THEN remaining + 2 * j >= Len(body) ELSE remaining <= 0

(* It has read the parameters w and the files x and looks for the boundary   *)
(* behind t bytes; it has found the last one and passes over the rest; ...   *)
Between(t, w, x) ==
    /\ pc \in {"eof", "boundary"} /\ ReadSoFar(w, x)
    /\ LinesUntil(body, Taken, t) \/ (EndAt(body, t) /\ Taken = Len(body))

(* ... it reads the headers of the part p, ...                               *)
InHeaders(p, t, w, x) ==
    /\ pc = "headers" /\ ReadSoFar(w, x)
    /\ \E i \in 0..Len(p.headers) :
          Taken = HeaderAt(t, i) /\ hdr = {p.headers[k] : k \in 1..i}

(* ... its value, as far as it has taken it, ...                             *)
InValue(p, t, w, x) ==
    /\ pc = "value" /\ About(p) # None /\ Filename(About(p)) = None
    /\ Taken \in DataAt(t, p)..EndOf(t, p)
    /\ parms = Append(sends.args \o w, [key |-> Disposition[About(p)].param,
                                        val |-> Piece(body, DataAt(t, p), Taken)])
    /\ SameUploads(uploads, x)

(* ... or its file.                                                          *)
InFile(p, t, w, x) ==
    /\ pc \in {"tmpfile", "mozilla", "file"} /\ Filename(About(p)) # None
    /\ IF pc = "file" THEN p.end = CRLF /\ Taken \in DataAt(t, p)..EndOf(t, p)
       ELSE Taken = DataAt(t, p)
    /\ parms = sends.args \o (w \o ParmOf(p))
    /\ \E ups, r : /\ SameUploads(ups, x)
                   /\ uploads = Append(ups, [name |-> Disposition[About(p)].param,
                                             filename |-> Filename(About(p)),
                                             data |-> Piece(body, DataAt(t, p), Taken), req |-> r])

InPart(p, t, w, x) == InHeaders(p, t, w, x) \/ InValue(p, t, w, x) \/ InFile(p, t, w, x)

Place(f, a, v, u, j) ==
    /\ Room(j)
    /\ \/ Between(a[j], v[j], u[j])
       \/ j < Len(f.parts) /\ InPart(f.parts[j + 1], a[j], v[j], u[j])

Odd == edge \/ cut \/ lost

(* What is read so far is the beginning of the form.                         *)
StreamInv ==
    pc \in Streaming /\ ~Odd =>
        /\ sends.kind = "multipart" /\ sends.form \in Forms
        /\ \E a, v, u : /\ Laid(sends.form, body, a, v, u)
                        /\ \E j \in 0..Len(sends.form.parts) : Place(sends.form, a, v, u, j)

LEMMA RoomKept ==
    ASSUME BodyInv, NEW j \in Nat, Room(j), NEW k \in Nat, pos + k \in 0..Len(body), Received(k), body' = body
    PROVE  Room(j)'
<1>1. PICK n \in Nat : n = Len(body)
  BY DEF BodyInv, IsSeq
<1>2. pos \in 0..n /\ remaining \in Int /\ pos' = pos + k /\ Len(body') = n
      /\ remaining' = IF k > 0 /\ pos + k = n THEN 0 ELSE remaining
  BY <1>1 DEF BodyInv, Received, Left
<1>3. IF pos < n THEN remaining + 2 * j >= n ELSE remaining <= 0
  BY <1>1 DEF Room
<1>4. IF pos' < n THEN remaining' + 2 * j >= n ELSE remaining' <= 0
  BY <1>1, <1>2, <1>3
<1> QED BY <1>2, <1>4 DEF Room

(* Nothing more comes only if nothing more is asked for, or all has come.    *)
LEMMA NotLost ==
    ASSUME BodyInv, NEW j \in Nat, Room(j), Watch(Wanted(buf, remaining), 0), ~lost',
           BufOK(buf), buf.n = 0, Len(body) >= 7 * j + 7
    PROVE  pos = Len(body)
<1>1. PICK n \in Nat : n = Len(body)
  BY DEF BodyInv, IsSeq
<1>2. pos \in 0..n /\ remaining \in Int
  BY <1>1 DEF BodyInv
<1> SUFFICES ASSUME pos < n PROVE FALSE
  BY <1>1, <1>2
<1>3. remaining >= 7
  BY <1>1, <1>2 DEF Room
<1>4. PICK z \in Nat : z = BufSize /\ z >= 7
  BY BufSizeFits
<1>5. Wanted(buf, remaining) = IF z >= remaining THEN remaining - 3 ELSE z
  BY <1>4, BoundaryFacts DEF Wanted
<1>6. Wanted(buf, remaining) > 0
  BY <1>2, <1>3, <1>4, <1>5
<1>7. lost' = (lost \/ (0 = 0 /\ Wanted(buf, remaining) > 0 /\ remaining > 0))
  BY DEF Watch
<1>8. remaining > 0
  BY <1>2, <1>3
<1> QED BY <1>6, <1>7, <1>8

LEMMA TakenIs ==
    ASSUME BufferInv, pc \in Streaming
    PROVE  Taken \in Nat /\ pos = Taken + buf.n /\ buf.n \in Nat /\ pos \in Nat /\ Len(body) \in Nat
           /\ pos <= Len(body) /\ Taken <= pos
<1>1. pos \in Nat /\ Holds(buf, body, pos) /\ BufOK(buf) /\ Len(body) \in Nat /\ pos <= Len(body)
  BY DEF BufferInv, BodyInv, IsSeq
<1>2. buf.n \in 0..pos
  BY <1>1, DataIsPiece
<1> QED BY <1>1, <1>2 DEF Taken

(* The parse is over, and parameters and files are read.                     *)
Finished(w, x) == pc \in {"run", "cleanup"} /\ (pc = "run" => ReadSoFar(w, x))

LEMMA AtEofStep ==
    ASSUME BufferInv, AtEof, ~Odd', NEW t \in Nat, NEW w, NEW x, NEW j \in Nat, Between(t, w, x), Room(j),
           t >= 7 * j, t + 7 <= Len(body)
    PROVE  \/ EndAt(body, t) /\ Finished(w, x)'
           \/ body' = body /\ Room(j)' /\ Between(t, w, x)'
<1>1. pc \in Streaming /\ BodyInv /\ BufOK(buf) /\ UNCHANGED <<sends, parms, uploads>> /\ pc = "eof"
  BY DEF BufferInv, AtEof, Streaming
<1>2. Taken \in Nat /\ pos = Taken + buf.n /\ buf.n \in Nat /\ pos \in Nat /\ Len(body) \in Nat
  BY <1>1, TakenIs
<1>3. ReadSoFar(w, x) /\ ReadSoFar(w, x)'
  BY <1>1 DEF Between, ReadSoFar
<1> DEFINE wanted == IF buf.n = 0 THEN Wanted(buf, remaining) ELSE 0
<1>4. PICK k \in Blocks(wanted) :
         /\ Watch(wanted, k)
         /\ \/ buf.n = 0 /\ k = 0 /\ Parsed("ok")
            \/ /\ buf' = (IF buf.n = 0 THEN Fill(buf, Block(k)) ELSE buf)
               /\ Received(k) /\ pc' = "boundary" /\ body' = body
  BY DEF AtEof
<1>5. CASE buf.n = 0 /\ k = 0 /\ Parsed("ok")
  <2>1. Watch(Wanted(buf, remaining), 0) /\ ~lost'
    BY <1>4, <1>5 DEF Odd
  <2>2. pos = Len(body)
    <3>1. Len(body) >= 7 * j + 7
      BY <1>2
    <3> QED BY <1>1, <1>5, <2>1, <3>1, NotLost
  <2>3. EndAt(body, t)
    <3>1. Taken = Len(body)
      BY <1>2, <1>5, <2>2
    <3>2. ~LinesUntil(body, Taken, t)
      BY <1>2, <3>1 DEF LinesUntil
    <3> QED BY <3>2 DEF Between
  <2> QED BY <1>3, <1>5, <2>3 DEF Finished, Parsed
<1>6. CASE /\ buf' = (IF buf.n = 0 THEN Fill(buf, Block(k)) ELSE buf)
           /\ Received(k) /\ pc' = "boundary" /\ body' = body
  <2>1. k \in Nat /\ pos + k \in 0..Len(body) /\ buf'.n = buf.n + k
    <3>1. CASE buf.n = 0
      <4>1. k \in Blocks(Wanted(buf, remaining)) /\ buf' = Fill(buf, Block(k))
        BY <1>6, <3>1
      <4>2. Got(Fill(buf, Block(k)), k)
        BY <1>1, <4>1, FillGets
      <4>3. k \in Nat /\ k <= Len(body) - pos
        <5>1. Wanted(buf, remaining) \in Int
          BY <1>1, WantedFits DEF BodyInv
        <5> QED BY <1>1, <1>2, <4>1, <5>1, BlocksFacts
      <4>4. buf'.n = buf.n + Len(Block(k))
        BY <4>1 DEF Fill
      <4>5. Len(Block(k)) = k
        <5>1. IsSeq(body) /\ pos \in 0..Len(body) /\ k \in 0..(Len(body) - pos)
          BY <1>1, <1>2, <4>3 DEF BodyInv
        <5>2. Len(SubSeq(body, pos + 1, pos + k)) = k
          BY <5>1, BlockFacts
        <5> QED BY <5>2 DEF Block
      <4> QED BY <4>2, <4>3, <4>4, <4>5 DEF Got
    <3>2. CASE buf.n # 0
      <4>1. k = 0
        BY <1>1, <3>2, NoBlock
      <4> QED BY <1>1, <1>2, <1>6, <3>2, <4>1 DEF BodyInv
    <3> QED BY <3>1, <3>2
  <2>2. Room(j)'
    BY <1>1, <1>6, <2>1, RoomKept
  <2>3. Taken' = Taken
    <3>1. pos' = pos + k
      BY <1>6 DEF Received
    <3> QED BY <1>2, <2>1, <3>1 DEF Taken
  <2>4. Between(t, w, x)'
    BY <1>3, <1>6, <2>3 DEF Between
  <2> QED BY <1>6, <2>2, <2>4
<1> QED BY <1>4, <1>5, <1>6

(* How a line moves the place.                                               *)
LEMMA LineTakes ==
    ASSUME BufferInv, pc \in Streaming, NEW k \in Blocks(LineWants), Received(k), buf' = Line(k).buf
    PROVE  Taken' = (pos + k) - Line(k).buf.n
BY DEF Received, Taken

LEMMA BoundaryStep ==
    ASSUME BufferInv, FindBoundary, ~Odd', NEW t \in Nat, NEW w, NEW x, NEW j \in Nat, Between(t, w, x), Room(j),
           t + 7 <= Len(body), PartAt(body, t) \/ EndAt(body, t)
    PROVE  \/ EndAt(body, t) /\ Finished(w, x)'
           \/ body' = body /\ Room(j)' /\ Between(t, w, x)'
           \/ /\ body' = body /\ Room(j)' /\ PartAt(body, t)
              /\ pc' = "headers" /\ ReadSoFar(w, x)' /\ Taken' = t + 5 /\ hdr' = {}
<1>1. pc \in Streaming /\ BodyInv /\ BufOK(buf) /\ Holds(buf, body, pos) /\ UNCHANGED <<sends, parms, uploads>>
  BY DEF BufferInv, FindBoundary, Streaming
<1>2. PICK q \in Nat : q = Taken /\ pos \in Nat /\ Len(body) \in Nat
  BY <1>1, TakenIs
<1>3. ReadSoFar(w, x) /\ ReadSoFar(w, x)' /\ (LinesUntil(body, q, t) \/ (EndAt(body, t) /\ q = Len(body)))
  BY <1>1, <1>2 DEF Between, ReadSoFar
<1>4. PICK k \in Blocks(LineWants) :
         /\ WatchLine(k)
         /\ \/ Line(k).line = NoLine /\ Parsed("ok")
            \/ /\ Line(k).line # NoLine /\ Received(k) /\ body' = body
               /\ buf' = Line(k).buf /\ hdr' = {}
               /\ pc' = IF Line(k).line = Boundary THEN "headers" ELSE "boundary"
  BY DEF FindBoundary
<1>5. PICK p, line, n : p = pos + k /\ line = Line(k).line /\ n = Line(k).buf.n
  OBVIOUS
<1>6. p \in 0..Len(body) /\ q \in 0..p /\ LineOf(body, q, p, line, n)
  BY <1>1, <1>2, <1>5, LineRead
<1>7. p \in Nat /\ q <= p /\ p <= Len(body) /\ k \in Nat
  <2>1. LineWants \in Int
    BY <1>1, WantedFits DEF LineWants, BodyInv
  <2>2. k \in Nat
    BY <1>1, <1>2, <2>1, BlocksFacts
  <2> QED BY <1>2, <1>6, <2>2
<1>8. CASE line = NoLine /\ Parsed("ok")
  <2>1. p = Len(body)
    <3>1. ~(p < Len(body))
      BY <1>4, <1>5, <1>8 DEF WatchLine, Odd
    <3> QED BY <1>2, <1>7, <3>1
  <2>2. ~LinesUntil(body, q, t)
    <3> SUFFICES ASSUME LinesUntil(body, q, t) PROVE FALSE
      OBVIOUS
    <3>1. q \in 0..t /\ (\A i \in (q + 1)..t : body[i] \notin {"B", NUL}) /\ (q < t => body[t] = LF)
      BY DEF LinesUntil
    <3>2. LineOf(body, q, p, NoLine, n)
      BY <1>6, <1>8
    <3>3. CASE q < t
      <4>1. body[q + 1] # NUL /\ body[t] = LF
        BY <3>1, <3>3
      <4>2. p < t
        BY <1>7, <3>2, <3>3, <4>1, LineIsMissing
      <4> QED BY <1>2, <2>1, <4>2
    <3>4. CASE q = t
      <4>1. body[q + 1] # NUL
        BY <3>4 DEF PartAt, EndAt, BoundaryAt, NUL
      <4>2. PICK e \in Nat : q < e /\ e <= t + 7 /\ body[e] = LF
        <5>1. CASE PartAt(body, t)
          <6>1. t + 5 \in Nat /\ q < t + 5 /\ t + 5 <= t + 7 /\ body[t + 5] = LF
            BY <3>4, <5>1 DEF PartAt
          <6> QED BY <6>1
        <5>2. CASE EndAt(body, t)
          <6>1. t + 7 \in Nat /\ q < t + 7 /\ t + 7 <= t + 7 /\ body[t + 7] = LF
            BY <3>4, <5>2 DEF EndAt
          <6> QED BY <6>1
        <5> QED BY <5>1, <5>2
      <4>3. p < e
        BY <1>7, <3>2, <4>1, <4>2, LineIsMissing
      <4> QED BY <1>2, <2>1, <4>2, <4>3
    <3> QED BY <3>1, <3>3, <3>4
  <2> QED BY <1>3, <1>8, <2>2 DEF Finished, Parsed
<1>9. CASE /\ line # NoLine /\ Received(k) /\ body' = body
           /\ buf' = Line(k).buf /\ hdr' = {}
           /\ pc' = IF line = Boundary THEN "headers" ELSE "boundary"
  <2>1. Room(j)'
    BY <1>1, <1>5, <1>6, <1>7, <1>9, RoomKept
  <2>2. Taken' = p - n
    BY <1>1, <1>5, <1>9, LineTakes
  <2>3. CASE LinesUntil(body, q, t) /\ q < t
    <3>1. line # Boundary /\ LinesUntil(body, p - n, t)
      BY <1>6, <1>7, <1>9, <2>3, LineBefore
    <3>2. Between(t, w, x)'
      BY <1>3, <1>9, <2>2, <3>1 DEF Between
    <3> QED BY <1>9, <2>1, <3>2
  <2>4. CASE q = t /\ PartAt(body, t)
    <3>1. line = Boundary /\ p - n = t + 5
      BY <1>6, <1>7, <1>9, <2>4, LineAtPart
    <3> QED BY <1>3, <1>9, <2>1, <2>2, <2>4, <3>1
  <2>5. CASE q = t /\ EndAt(body, t)
    <3>1. line # Boundary /\ p - n = Len(body)
      BY <1>6, <1>7, <1>9, <2>5, LineAtEnd
    <3>2. Between(t, w, x)'
      BY <1>3, <1>9, <2>2, <2>5, <3>1 DEF Between
    <3> QED BY <1>9, <2>1, <3>2
  <2>6. CASE q = Len(body)
    <3>1. p = q
      BY <1>2, <1>7, <2>6
    <3>2. BufSize >= 7 /\ BufSize \in Nat
      BY BufSizeFits
    <3>3. FALSE
      BY <1>6, <1>9, <3>1, <3>2 DEF LineOf
    <3> QED BY <3>3
  <2>7. LinesUntil(body, q, t) => q < t \/ q = t
    BY DEF LinesUntil
  <2> QED BY <1>3, <2>3, <2>4, <2>5, <2>6, <2>7
<1> QED BY <1>4, <1>5, <1>8, <1>9

(* Sequences put together.                                                   *)
LEMMA OneIsSeq == ASSUME NEW e PROVE IsSeq(<<e>>) /\ Len(<<e>>) = 1 /\ <<e>>[1] = e
BY DEF IsSeq

LEMMA ConcatIs ==
    ASSUME NEW s, IsSeq(s), NEW t, IsSeq(t)
    PROVE  /\ IsSeq(s \o t) /\ Len(s \o t) = Len(s) + Len(t)
           /\ \A i \in 1..(Len(s) + Len(t)) : (s \o t)[i] = IF i <= Len(s) THEN s[i] ELSE t[i - Len(s)]
<1> DEFINE S == {s[i] : i \in 1..Len(s)} \cup {t[i] : i \in 1..Len(t)}
<1>1. s \in [1..Len(s) -> S] /\ t \in [1..Len(t) -> S] /\ Len(s) \in Nat /\ Len(t) \in Nat
  BY DEF IsSeq
<1>2. s \in Seq(S) /\ t \in Seq(S)
  BY <1>1, SeqDef
<1> HIDE DEF S
<1>3. /\ s \o t \in Seq(S) /\ Len(s \o t) = Len(s) + Len(t)
      /\ \A i \in 1..(Len(s) + Len(t)) : (s \o t)[i] = IF i <= Len(s) THEN s[i] ELSE t[i - Len(s)]
  BY <1>2, ConcatProperties
<1> QED BY <1>3, SeqIsSeq

LEMMA AppendLast ==
    ASSUME NEW s, IsSeq(s), NEW e
    PROVE  IsSeq(Append(s, e)) /\ Len(Append(s, e)) = Len(s) + 1 /\ Append(s, e)[Len(s) + 1] = e
           /\ \A i \in 1..Len(s) : Append(s, e)[i] = s[i]
<1> DEFINE S == {s[i] : i \in 1..Len(s)} \cup {e}
<1>1. s \in [1..Len(s) -> S]
  BY DEF IsSeq
<1>2. s \in Seq(S) /\ e \in S
  BY <1>1, SeqDef DEF IsSeq
<1> HIDE DEF S
<1>3. Append(s, e)[Len(s) + 1] = e
  BY <1>2, AppendProperties
<1> QED BY <1>3, AppendIsSeq

LEMMA AppendsOne ==
    ASSUME NEW s, IsSeq(s), NEW e PROVE Append(s, e) = s \o <<e>>
<1>1. PICK n \in Nat : n = Len(s)
  BY DEF IsSeq
<1>2. PICK o : o = <<e>> /\ IsSeq(o) /\ Len(o) = 1 /\ o[1] = e
  BY OneIsSeq
<1>a. PICK c, d : c = s \o o /\ d = Append(s, e)
  OBVIOUS
<1>3. /\ c = s \o o /\ d = Append(s, e) /\ IsSeq(c) /\ Len(c) = n + 1
      /\ \A i \in 1..(n + 1) : c[i] = IF i <= n THEN s[i] ELSE o[i - n]
  <2>1. /\ IsSeq(s \o o) /\ Len(s \o o) = Len(s) + Len(o)
        /\ \A i \in 1..(Len(s) + Len(o)) : (s \o o)[i] = IF i <= Len(s) THEN s[i] ELSE o[i - Len(s)]
    BY <1>2, ConcatIs
  <2> QED BY <1>1, <1>2, <1>a, <2>1
<1>4. IsSeq(d) /\ Len(d) = n + 1 /\ d[n + 1] = e /\ \A i \in 1..n : d[i] = s[i]
  <2>1. /\ IsSeq(Append(s, e)) /\ Len(Append(s, e)) = Len(s) + 1 /\ Append(s, e)[Len(s) + 1] = e
        /\ \A i \in 1..Len(s) : Append(s, e)[i] = s[i]
    BY AppendLast
  <2> QED BY <1>1, <1>a, <2>1
<1>5. ASSUME NEW i \in 1..(n + 1) PROVE d[i] = c[i]
  <2>1. CASE i <= n
    BY <1>3, <1>4, <2>1
  <2>2. CASE i = n + 1
    <3>1. (n + 1) - n = 1 /\ ~(n + 1 <= n)
      OBVIOUS
    <3>2. c[n + 1] = o[1]
      BY <1>3, <3>1
    <3> QED BY <1>2, <1>4, <2>2, <3>2
  <2>3. i <= n \/ i = n + 1
    OBVIOUS
  <2> QED BY <2>1, <2>2, <2>3
<1>6. d = c
  BY <1>3, <1>4, <1>5, SameSeq
<1> QED BY <1>2, <1>3, <1>4, <1>6

LEMMA ConcatTwice ==
    ASSUME NEW s, IsSeq(s), NEW t, IsSeq(t), NEW e PROVE Append(s \o t, e) = s \o (t \o <<e>>)
<1>1. PICK m \in Nat, n \in Nat : m = Len(s) /\ n = Len(t)
  BY DEF IsSeq
<1>2. PICK r \in Nat : r = m + n
  OBVIOUS
<1>3. PICK c : c = s \o t
  OBVIOUS
<1>4. IsSeq(c) /\ Len(c) = r /\ \A i \in 1..r : c[i] = IF i <= m THEN s[i] ELSE t[i - m]
  BY <1>1, <1>2, <1>3, ConcatIs
<1>5. PICK d : d = Append(c, e)
  OBVIOUS
<1>6. IsSeq(d) /\ Len(d) = r + 1 /\ d[r + 1] = e /\ \A i \in 1..r : d[i] = c[i]
  BY <1>4, <1>5, AppendLast
<1>7. PICK l : l = Append(t, e)
  OBVIOUS
<1>8. IsSeq(l) /\ Len(l) = n + 1 /\ l[n + 1] = e /\ \A i \in 1..n : l[i] = t[i]
  BY <1>1, <1>7, AppendLast
<1>9. l = t \o <<e>>
  BY <1>7, AppendsOne
<1>10. PICK g : g = s \o l
  OBVIOUS
<1>11. IsSeq(g) /\ Len(g) = r + 1 /\ \A i \in 1..(r + 1) : g[i] = IF i <= m THEN s[i] ELSE l[i - m]
  <2>1. IsSeq(g) /\ Len(g) = Len(s) + Len(l)
        /\ \A i \in 1..(Len(s) + Len(l)) : g[i] = IF i <= Len(s) THEN s[i] ELSE l[i - Len(s)]
    BY <1>8, <1>10, ConcatIs
  <2>2. Len(s) + Len(l) = r + 1
    BY <1>1, <1>2, <1>8
  <2> QED BY <1>1, <2>1, <2>2
<1>12. ASSUME NEW i \in 1..(r + 1) PROVE d[i] = g[i]
  <2>1. CASE i <= m
    <3>1. i \in 1..r
      BY <1>2, <2>1
    <3> QED BY <1>4, <1>6, <1>11, <2>1, <3>1
  <2>2. CASE i > m /\ i <= r
    <3>1. i - m \in 1..n /\ i \in 1..r /\ ~(i <= m)
      BY <1>2, <2>2
    <3>2. d[i] = t[i - m]
      BY <1>4, <1>6, <3>1
    <3>3. g[i] = l[i - m]
      BY <1>11, <3>1
    <3> QED BY <1>8, <3>1, <3>2, <3>3
  <2>3. CASE i = r + 1
    <3>1. i - m = n + 1 /\ ~(i <= m)
      BY <1>2, <2>3
    <3>2. g[i] = l[n + 1]
      BY <1>11, <3>1
    <3> QED BY <1>6, <1>8, <2>3, <3>2
  <2> QED BY <2>1, <2>2, <2>3
<1>13. d = g
  <2>1. Len(d) = Len(g) /\ \A i \in 1..Len(d) : d[i] = g[i]
    BY <1>6, <1>11, <1>12
  <2> QED BY <1>6, <1>11, <2>1, SameSeq
<1> QED BY <1>3, <1>5, <1>9, <1>10, <1>13

LEMMA EmptyIsSeq == IsSeq(<<>>) /\ Len(<<>>) = 0
BY DEF IsSeq

LEMMA ConcatEmpty == ASSUME NEW s, IsSeq(s) PROVE s \o <<>> = s
<1>1. PICK e : e = <<>> /\ IsSeq(e) /\ Len(e) = 0
  BY EmptyIsSeq
<1>2. PICK n \in Nat : n = Len(s)
  BY DEF IsSeq
<1>3. PICK c : c = s \o e /\ IsSeq(c) /\ Len(c) = n /\ \A i \in 1..n : c[i] = s[i]
  BY <1>1, <1>2, ConcatIs
<1>4. c = s
  BY <1>2, <1>3, SameSeq
<1> QED BY <1>1, <1>3, <1>4

LEMMA NoPiece == ASSUME NEW s, NEW a \in Int PROVE Piece(s, a, a) = <<>>
<1>1. IsSeq(Piece(s, a, a)) /\ Len(Piece(s, a, a)) = 0
  <2>1. a - a = 0
    OBVIOUS
  <2> QED BY <2>1, PieceIsSeq
<1> QED BY <1>1, EmptyIsSeq, SameSeq

(* Files read so far, and one more.                                          *)
LEMMA OneUploadMore ==
    ASSUME NEW ups, NEW x, IsSeq(x), SameUploads(ups, x), NEW y, NEW z, SameUpload(y, z)
    PROVE  SameUploads(Append(ups, y), x \o <<z>>)
<1>1. PICK n \in Nat : n = Len(x) /\ Len(ups) = n
  BY DEF IsSeq, SameUploads
<1>2. IsSeq(ups) /\ \A i \in 1..n : SameUpload(ups[i], x[i])
  BY <1>1 DEF SameUploads
<1> PICK c, d : c = Append(ups, y) /\ d = Append(x, z)
  OBVIOUS
<1>3. IsSeq(c) /\ Len(c) = n + 1 /\ c[n + 1] = y /\ \A i \in 1..n : c[i] = ups[i]
  BY <1>1, <1>2, AppendLast
<1>4. IsSeq(d) /\ Len(d) = n + 1 /\ d[n + 1] = z /\ \A i \in 1..n : d[i] = x[i]
  BY <1>1, AppendLast
<1>5. ASSUME NEW i \in 1..(n + 1) PROVE SameUpload(c[i], d[i])
  <2>1. CASE i \in 1..n
    BY <1>2, <1>3, <1>4, <2>1
  <2>2. CASE i = n + 1
    BY <1>3, <1>4, <2>2
  <2>3. i \in 1..n \/ i = n + 1
    OBVIOUS
  <2> QED BY <2>1, <2>2, <2>3
<1>6. SameUploads(c, d)
  <2>1. Len(c) = Len(d) /\ \A i \in 1..Len(d) : SameUpload(c[i], d[i])
    BY <1>3, <1>4, <1>5
  <2> QED BY <1>3, <2>1 DEF SameUploads
<1>7. d = x \o <<z>>
  BY AppendsOne
<1> QED BY <1>6, <1>7

(* A part of the form lies in s behind t bytes; the next boundary is behind  *)
(* z bytes.                                                                  *)
PartHere(s, t, p, z) ==
    /\ IsSeq(p.headers) /\ IsSeq(p.data) /\ PartAssumption(p) /\ PartLies(s, t, p)
    /\ z = EndOf(t, p) + Len(p.end) /\ z + 7 <= Len(s) /\ BoundaryAt(s, z)

(* Its places, its bytes, and its end.                                       *)
LEMMA PartPlaces ==
    ASSUME NEW s, NEW t \in Nat, NEW p, NEW z, PartHere(s, t, p, z)
    PROVE  \E at \in Nat, d \in Nat, e \in Nat :
              at = DataAt(t, p) /\ d = Len(p.data) /\ e = EndOf(t, p) /\ e = at + d
<1>1. PICK h \in Nat, d \in Nat : h = Len(p.headers) /\ d = Len(p.data)
  BY DEF PartHere, IsSeq
<1>2. HeaderAt(t, h) \in Nat
  BY DEF HeaderAt
<1>3. PICK at \in Nat : at = DataAt(t, p)
  BY <1>1, <1>2 DEF DataAt
<1>4. PICK e \in Nat : e = EndOf(t, p) /\ e = at + d
  BY <1>1, <1>3 DEF EndOf
<1> QED BY <1>1, <1>3, <1>4

LEMMA PartData ==
    ASSUME NEW s, NEW t, NEW p, NEW z, PartHere(s, t, p, z), NEW i \in 1..Len(p.data)
    PROVE  s[DataAt(t, p) + i] = p.data[i] /\ p.data[i] \in Range(p.data)
<1>1. i \in DOMAIN p.data
  BY DEF PartHere, IsSeq
<1> QED BY <1>1 DEF PartHere, PartLies, Range

LEMMA PartEnds ==
    ASSUME NEW s, NEW t \in Nat, NEW p, NEW z, PartHere(s, t, p, z)
    PROVE  /\ p.end = CRLF => z = EndOf(t, p) + 2
           /\ p.end # CRLF => z = DataAt(t, p) /\ EndOf(t, p) = z /\ p.data = <<>> /\ Filename(About(p)) # None
<1>1. PICK at \in Nat, d \in Nat, e \in Nat :
         at = DataAt(t, p) /\ d = Len(p.data) /\ e = EndOf(t, p) /\ e = at + d
  BY PartPlaces
<1>2. z = e + Len(p.end)
  BY <1>1 DEF PartHere
<1>3. CASE p.end = CRLF
  BY <1>1, <1>2, <1>3 DEF CRLF
<1>4. CASE p.end # CRLF
  <2>1. p.end = <<>> /\ p.data = <<>> /\ Filename(About(p)) # None
    BY <1>4 DEF PartHere, PartAssumption
  <2>2. d = 0 /\ z = e
    BY <1>1, <1>2, <2>1
  <2>3. at = e
    BY <1>1, <2>2
  <2> QED BY <1>1, <1>4, <2>1, <2>2, <2>3
<1> QED BY <1>3, <1>4

LEMMA PartFits ==
    ASSUME NEW s, Len(s) \in Nat, NEW t \in Nat, NEW p, NEW z, PartHere(s, t, p, z)
    PROVE  DataAt(t, p) \in Nat /\ EndOf(t, p) \in Nat /\ DataAt(t, p) <= EndOf(t, p)
           /\ z \in Nat /\ z + 7 <= Len(s) /\ EndOf(t, p) <= z
<1>1. PICK at \in Nat, d \in Nat, e \in Nat :
         at = DataAt(t, p) /\ d = Len(p.data) /\ e = EndOf(t, p) /\ e = at + d
  BY PartPlaces
<1>2. z = e + 2 \/ z = e
  BY <1>1, PartEnds
<1>3. z + 7 <= Len(s)
  BY DEF PartHere
<1>4. z \in Nat /\ e <= z /\ at <= e
  BY <1>1, <1>2
<1> QED BY <1>1, <1>3, <1>4

(* A header line, and the line behind them.                                  *)
LEMMA HeaderBytesAt ==
    ASSUME NEW s, NEW t \in Nat, NEW p, NEW z, PartHere(s, t, p, z), NEW i \in 1..Len(p.headers)
    PROVE  /\ s[HeaderAt(t, i) - 2] = p.headers[i] /\ p.headers[i] \notin {CR, LF, NUL}
           /\ s[HeaderAt(t, i) - 1] = CR /\ s[HeaderAt(t, i)] = LF
<1>1. DOMAIN p.headers = 1..Len(p.headers) /\ Range(p.headers) \cap {CR, LF, NUL} = {}
  BY DEF PartHere, PartAssumption, IsSeq
<1>2. p.headers[i] \in Range(p.headers)
  BY <1>1 DEF Range
<1>3. /\ s[HeaderAt(t, i) - 2] = p.headers[i]
      /\ s[HeaderAt(t, i) - 1] = CR /\ s[HeaderAt(t, i)] = LF
  BY DEF PartHere, PartLies
<1> QED BY <1>1, <1>2, <1>3

LEMMA PartBegins ==
    ASSUME NEW t \in Nat, NEW p, IsSeq(p.headers)
    PROVE  Len(p.headers) \in Nat /\ HeaderAt(t, Len(p.headers)) + 2 = DataAt(t, p)
           /\ \A i \in 0..Len(p.headers) : HeaderAt(t, i) \in Nat /\ HeaderAt(t, i) + 2 <= DataAt(t, p)
              /\ (i < Len(p.headers) => HeaderAt(t, i) + 3 <= DataAt(t, p) - 2 /\ HeaderAt(t, i + 1) = HeaderAt(t, i) + 3)
<1>1. PICK h \in Nat : h = Len(p.headers)
  BY DEF IsSeq
<1>2. DataAt(t, p) = t + 5 + 3 * h + 2
  BY <1>1 DEF DataAt, HeaderAt
<1>3. ASSUME NEW i \in 0..h
      PROVE  HeaderAt(t, i) \in Nat /\ HeaderAt(t, i) + 2 <= DataAt(t, p)
             /\ (i < h => HeaderAt(t, i) + 3 <= DataAt(t, p) - 2 /\ HeaderAt(t, i + 1) = HeaderAt(t, i) + 3)
  <2>1. HeaderAt(t, i) = t + 5 + 3 * i /\ HeaderAt(t, i + 1) = t + 5 + 3 * (i + 1)
    BY DEF HeaderAt
  <2> QED BY <1>2, <2>1
<1>4. HeaderAt(t, h) + 2 = DataAt(t, p)
  BY <1>2 DEF HeaderAt
<1> QED BY <1>1, <1>3, <1>4

(* The empty line has come: the part begins, or it is passed over.           *)
PassedOver(p, t, w, x) == About(p) = None /\ pc = "eof" /\ Taken = DataAt(t, p) /\ ReadSoFar(w, x)

LEMMA Dispatched ==
    ASSUME IsSeq(sends.args), sends' = sends, IsSeq(body), body' = body,
           NEW t \in Nat, NEW p, IsSeq(p.headers), NEW w, IsSeq(w), NEW x, IsSeq(x), ReadSoFar(w, x),
           hdr = {p.headers[k] : k \in 1..Len(p.headers)}, Dispatch(hdr), Taken' = DataAt(t, p),
           IsSeq(p.data)
    PROVE  PassedOver(p, t, w, x)' \/ InValue(p, t, w, x)' \/ InFile(p, t, w, x)'
<1>1. DispositionOf(hdr) = About(p)
  <2>1. DOMAIN p.headers = 1..Len(p.headers)
    BY DEF IsSeq
  <2>2. hdr = Range(p.headers)
    BY <2>1 DEF Range
  <2> QED BY <2>2 DEF About
<1>2. PICK at \in Nat, to \in Nat : at = DataAt(t, p) /\ to = EndOf(t, p) /\ at <= to
  <2>1. PICK h \in Nat, d \in Nat : h = Len(p.headers) /\ d = Len(p.data)
    BY DEF IsSeq
  <2>2. DataAt(t, p) = t + 5 + 3 * h + 2
    BY <2>1 DEF DataAt, HeaderAt
  <2>3. EndOf(t, p) = t + 5 + 3 * h + 2 + d
    BY <2>1, <2>2 DEF EndOf
  <2> QED BY <2>2, <2>3
<1>3. Piece(body, at, at) = <<>>
  BY NoPiece
<1>4. parms = sends.args \o w /\ SameUploads(uploads, x) /\ IsSeq(sends.args \o w)
  BY ConcatIs DEF ReadSoFar
<1>5. CASE About(p) = None
  <2>1. pc' = "eof" /\ UNCHANGED parmVars
    BY <1>1, <1>5 DEF Dispatch
  <2> QED BY <1>4, <1>5, <2>1 DEF PassedOver, ReadSoFar, parmVars
<1>6. CASE About(p) # None /\ Filename(About(p)) = None
  <2>1. pc' = "value" /\ uploads' = uploads
        /\ parms' = Append(parms, [key |-> Disposition[About(p)].param, val |-> <<>>])
    BY <1>1, <1>6 DEF Dispatch
  <2>2. Taken' \in DataAt(t, p)..EndOf(t, p)
    BY <1>2
  <2> QED BY <1>2, <1>3, <1>4, <1>6, <2>1, <2>2 DEF InValue
<1>7. CASE About(p) # None /\ Filename(About(p)) # None
  <2> DEFINE e == [key |-> Disposition[About(p)].param, val |-> <<Filename(About(p))>>]
  <2>1. pc' = "tmpfile" /\ uploads' = Append(uploads, Upload(About(p))) /\ parms' = Append(parms, e)
    BY <1>1, <1>7 DEF Dispatch
  <2>2. ParmOf(p) = <<e>>
    BY <1>7 DEF ParmOf
  <2> HIDE DEF e
  <2>3. parms' = sends.args \o (w \o ParmOf(p))
    <3>1. PICK a, c : a = sends.args /\ c = e /\ IsSeq(a)
      OBVIOUS
    <3>2. Append(a \o w, c) = a \o (w \o <<c>>)
      BY <3>1, ConcatTwice
    <3> QED BY <1>4, <2>1, <2>2, <3>1, <3>2
  <2>4. Upload(About(p)) = [name |-> Disposition[About(p)].param, filename |-> Filename(About(p)),
                            data |-> Piece(body', DataAt(t, p), Taken'), req |-> reqs]
    BY <1>2, <1>3, <1>7 DEF Upload, Filename
  <2>5. InFile(p, t, w, x)'
    BY <1>4, <1>7, <2>1, <2>3, <2>4 DEF InFile
  <2> QED BY <2>5
<1>8. Filename(None) = None
  BY DEF Filename
<1> QED BY <1>5, <1>6, <1>7

LEMMA HeaderStep ==
    ASSUME BufferInv, HeaderLine, ~Odd', IsSeq(sends.args), NEW t \in Nat, NEW p, NEW z,
           PartHere(body, t, p, z), NEW w, IsSeq(w), NEW x, IsSeq(x), NEW j \in Nat, Room(j),
           InHeaders(p, t, w, x)
    PROVE  /\ body' = body /\ Room(j)'
           /\ PassedOver(p, t, w, x)' \/ InHeaders(p, t, w, x)' \/ InValue(p, t, w, x)' \/ InFile(p, t, w, x)'
<1>1. pc \in Streaming /\ BodyInv /\ BufOK(buf) /\ Holds(buf, body, pos) /\ UNCHANGED <<sends, body>> /\ pc = "headers"
  BY DEF BufferInv, HeaderLine, Streaming
<1>2. PICK q \in Nat : q = Taken /\ pos \in Nat /\ Len(body) \in Nat
  BY <1>1, TakenIs
<1>3. PICK k \in Blocks(LineWants) :
         /\ WatchLine(k) /\ Received(k) /\ buf' = Line(k).buf
         /\ \/ Line(k).line \in {NoLine, <<>>} /\ hdr' = hdr /\ Dispatch(hdr)
            \/ /\ Line(k).line \notin {NoLine, <<>>}
               /\ hdr' = hdr \cup Range(Line(k).line) /\ UNCHANGED <<pc, parmVars>>
  BY DEF HeaderLine
<1>4. PICK b, line, n : b = pos + k /\ line = Line(k).line /\ n = Line(k).buf.n
  OBVIOUS
<1>5. b \in 0..Len(body) /\ q \in 0..b /\ LineOf(body, q, b, line, n)
  BY <1>1, <1>2, <1>4, LineRead
<1>6. b \in Nat /\ q <= b /\ b <= Len(body) /\ k \in Nat
  <2>1. LineWants \in Int
    BY <1>1, WantedFits DEF LineWants, BodyInv
  <2>2. k \in Nat
    BY <1>1, <1>2, <2>1, BlocksFacts
  <2> QED BY <1>2, <1>5, <2>2
<1>7. Room(j)'
  BY <1>1, <1>3, <1>4, <1>5, <1>6, RoomKept
<1>8. Taken' = b - n
  BY <1>1, <1>3, <1>4, LineTakes
<1>9. line = NoLine => b = Len(body)
  <2> SUFFICES ASSUME line = NoLine PROVE b = Len(body)
    OBVIOUS
  <2>1. ~(b < Len(body))
    BY <1>3, <1>4 DEF WatchLine, Odd
  <2> QED BY <1>2, <1>6, <2>1
<1>10. PICK i \in 0..Len(p.headers) : Taken = HeaderAt(t, i) /\ hdr = {p.headers[c] : c \in 1..i}
  BY DEF InHeaders
<1>11. PICK h \in Nat, at \in Nat, to \in Nat : h = Len(p.headers) /\ at = DataAt(t, p) /\ to = EndOf(t, p)
                                                /\ at <= to /\ to + 7 <= Len(body)
  <2>1. PICK h \in Nat : h = Len(p.headers)
    BY DEF PartHere, IsSeq
  <2>2. DataAt(t, p) \in Nat /\ EndOf(t, p) \in Nat /\ DataAt(t, p) <= EndOf(t, p)
        /\ z \in Nat /\ z + 7 <= Len(body) /\ EndOf(t, p) <= z
    BY <1>2, PartFits
  <2>4. EndOf(t, p) + 7 <= Len(body)
    BY <1>2, <2>2
  <2> QED BY <2>1, <2>2, <2>4
<1>12. /\ q = HeaderAt(t, i) /\ q + 2 <= at /\ i \in 0..h
       /\ HeaderAt(t, h) + 2 = at
       /\ (i < h => q + 3 <= at - 2 /\ HeaderAt(t, i + 1) = q + 3)
  BY <1>2, <1>10, <1>11, PartBegins DEF PartHere
<1>13. ReadSoFar(w, x) /\ IsSeq(p.headers) /\ IsSeq(p.data)
  BY DEF InHeaders, PartHere
<1>14. CASE i < h
  <2>1. PICK i1 \in 1..h : i1 = i + 1
    BY <1>12, <1>14
  <2>2. body[q + 1] = p.headers[i1] /\ p.headers[i1] \notin {CR, LF, NUL} /\ body[q + 2] = CR /\ body[q + 3] = LF
    <3>1. HeaderAt(t, i1) = q + 3
      BY <1>12, <1>14, <2>1
    <3>2. (q + 3) - 2 = q + 1 /\ (q + 3) - 1 = q + 2
      OBVIOUS
    <3>3. /\ body[HeaderAt(t, i1) - 2] = p.headers[i1] /\ p.headers[i1] \notin {CR, LF, NUL}
          /\ body[HeaderAt(t, i1) - 1] = CR /\ body[HeaderAt(t, i1)] = LF
      BY <1>11, <2>1, HeaderBytesAt
    <3> QED BY <3>1, <3>2, <3>3
  <2>3. line # NoLine
    <3> SUFFICES ASSUME line = NoLine PROVE FALSE
      OBVIOUS
    <3>1. LineOf(body, q, b, NoLine, n)
      BY <1>5
    <3>2. b < q + 3
      <4>1. q + 3 \in Nat /\ q < q + 3
        OBVIOUS
      <4>2. PICK e \in Nat : e = q + 3
        OBVIOUS
      <4>3. q < e /\ body[e] = LF /\ body[q + 1] # NUL
        BY <2>2, <4>1, <4>2
      <4> QED BY <1>6, <3>1, <4>2, <4>3, LineIsMissing
    <3>3. PICK c \in Nat : c = Len(body)
      BY <1>2
    <3>4. b = c
      BY <1>9, <3>3
    <3>5. q + 3 <= at - 2 /\ at <= to /\ to + 7 <= c
      BY <1>11, <1>12, <1>14, <3>3
    <3>6. q + 3 <= c
      BY <3>5
    <3> QED BY <3>2, <3>4, <3>6
  <2>4. line = Piece(body, q, q + 1) /\ b - n = q + 3
    <3>1. body[q + 1] \notin {CR, LF} /\ body[q + 2] = CR /\ body[q + 3] = LF
      BY <2>2
    <3> QED BY <1>5, <1>6, <2>3, <3>1, LineAtHeader
  <2>5. IsSeq(line) /\ Len(line) = 1 /\ line[1] = body[q + 1]
    <3>1. (q + 1) - q = 1 /\ q <= q + 1 /\ 1 \in 1..1
      OBVIOUS
    <3>2. IsSeq(Piece(body, q, q + 1)) /\ Len(Piece(body, q, q + 1)) = 1
      <4>1. PICK r \in Int : r = q + 1 /\ q <= r /\ r - q = 1 /\ q \in Int
        BY <3>1
      <4>2. IsSeq(Piece(body, q, r)) /\ Len(Piece(body, q, r)) = r - q
        BY <4>1, PieceIsSeq
      <4> QED BY <4>1, <4>2
    <3>3. Piece(body, q, q + 1)[1] = body[q + 1]
      BY <3>1, PieceElement
    <3> QED BY <2>4, <3>2, <3>3
  <2>6. Range(line) = {p.headers[i1]} /\ line # <<>>
    <3>1. DOMAIN line = 1..1
      BY <2>5 DEF IsSeq
    <3>2. Range(line) = {line[1]}
      BY <3>1 DEF Range
    <3> QED BY <2>2, <2>5, <3>2
  <2>7. hdr' = hdr \cup {p.headers[i1]} /\ UNCHANGED <<pc, parmVars>>
    BY <1>3, <1>4, <2>3, <2>6
  <2>8. hdr' = {p.headers[c] : c \in 1..i1}
    <3>1. 1..i1 = 1..i \cup {i1}
      BY <1>12, <2>1
    <3> QED BY <1>10, <2>7, <3>1
  <2>9. Taken' = HeaderAt(t, i1)
    BY <1>8, <1>12, <1>14, <2>1, <2>4
  <2>10. ReadSoFar(w, x)'
    BY <1>1, <1>13, <2>7 DEF ReadSoFar, parmVars
  <2>11. InHeaders(p, t, w, x)'
    <3>1. i1 \in 0..Len(p.headers)
      BY <1>11, <2>1
    <3> QED BY <1>1, <2>7, <2>8, <2>9, <2>10, <3>1 DEF InHeaders
  <2> QED BY <1>1, <1>7, <2>11
<1>15. CASE i = h
  <2>1. body[q + 1] = CR /\ body[q + 2] = LF
    <3>1. at = q + 2 /\ at - 1 = q + 1
      BY <1>12, <1>15
    <3> QED BY <1>11, <3>1 DEF PartHere, PartLies
  <2>2. line # NoLine
    <3> SUFFICES ASSUME line = NoLine PROVE FALSE
      OBVIOUS
    <3>1. LineOf(body, q, b, NoLine, n)
      BY <1>5
    <3>2. b < q + 2
      <4>1. q + 2 \in Nat /\ q < q + 2 /\ body[q + 1] # NUL
        BY <2>1 DEF CR, NUL
      <4> QED BY <1>6, <2>1, <3>1, <4>1, LineIsMissing
    <3> QED BY <1>2, <1>9, <1>11, <1>12, <3>2
  <2>3. line = <<>> /\ b - n = q + 2
    BY <1>5, <1>6, <2>1, <2>2, LineIsEmpty
  <2>4. Dispatch(hdr)
    BY <1>3, <1>4, <2>3
  <2>5. Taken' = DataAt(t, p)
    BY <1>8, <1>11, <1>12, <1>15, <2>3
  <2>6. hdr = {p.headers[c] : c \in 1..Len(p.headers)}
    BY <1>10, <1>11, <1>15
  <2>7. PassedOver(p, t, w, x)' \/ InValue(p, t, w, x)' \/ InFile(p, t, w, x)'
    BY <1>1, <1>13, <2>4, <2>5, <2>6, Dispatched DEF BodyInv
  <2> QED BY <1>1, <1>7, <2>7
<1> QED BY <1>12, <1>14, <1>15

LEMMA TmpFileStep ==
    ASSUME BufferInv, TmpFile, NEW t \in Nat, NEW p, NEW w, NEW x, NEW j \in Nat, Room(j), InFile(p, t, w, x)
    PROVE  pc' = "cleanup" \/ (body' = body /\ Room(j)' /\ InFile(p, t, w, x)')
<1>1. pc = "tmpfile" /\ UNCHANGED <<sends, parms, uploads>> /\ Taken = DataAt(t, p)
  BY DEF TmpFile, InFile
<1>2. CASE Parsed("no temp file")
  BY <1>2 DEF Parsed
<1>3. CASE pc' = "mozilla" /\ UNCHANGED bufVars
  <2>1. body' = body /\ pos' = pos /\ remaining' = remaining /\ buf' = buf /\ Taken' = Taken
    BY <1>3 DEF bufVars, Taken
  <2>2. Room(j)'
    BY <2>1 DEF Room
  <2>3. PICK ups, r : SameUploads(ups, x)
                   /\ uploads = Append(ups, [name |-> Disposition[About(p)].param,
                                             filename |-> Filename(About(p)),
                                             data |-> Piece(body, DataAt(t, p), Taken), req |-> r])
    BY DEF InFile
  <2>4. uploads' = Append(ups, [name |-> Disposition[About(p)].param,
                                filename |-> Filename(About(p)),
                                data |-> Piece(body', DataAt(t, p), Taken'), req |-> r])
    BY <1>1, <2>1, <2>3
  <2>5. Filename(About(p)) # None /\ parms' = sends'.args \o (w \o ParmOf(p)) /\ Taken' = DataAt(t, p)
    BY <1>1, <2>1 DEF InFile
  <2>6. InFile(p, t, w, x)'
    BY <1>3, <2>3, <2>4, <2>5 DEF InFile
  <2> QED BY <2>1, <2>2, <2>6
<1> QED BY <1>2, <1>3 DEF TmpFile

(* The data of a part with a line end behind it.                             *)
LEMMA DataEnds ==
    ASSUME NEW s, Len(s) \in Nat, NEW t \in Nat, NEW p, NEW z, PartHere(s, t, p, z), p.end = CRLF,
           NEW q \in DataAt(t, p)..EndOf(t, p)
    PROVE  DataUntil(s, q, EndOf(t, p)) /\ z = EndOf(t, p) + 2
<1>1. PICK at \in Nat, d \in Nat, e \in Nat :
         at = DataAt(t, p) /\ d = Len(p.data) /\ e = EndOf(t, p) /\ e = at + d
  BY PartPlaces
<1>2. z = e + 2
  BY <1>1 DEF PartHere, CRLF
<1>3. z + 7 <= Len(s) /\ BoundaryAt(s, z)
  BY DEF PartHere
<1>4. s[e + 1] = CR /\ s[e + 2] = LF
  BY <1>1 DEF PartHere, PartLies
<1>5. ASSUME NEW i \in (q + 1)..e PROVE s[i] # "B"
  <2>1. PICK c \in 1..d : at + c = i
    <3>1. i - at \in 1..d /\ at + (i - at) = i
      BY <1>1
    <3> QED BY <3>1
  <2>2. s[at + c] = p.data[c] /\ p.data[c] \in Range(p.data)
    <3>1. c \in 1..Len(p.data)
      BY <1>1, <2>1
    <3> QED BY <1>1, <3>1, PartData
  <2>3. "B" \notin Range(p.data)
    BY DEF PartHere, PartAssumption
  <2> QED BY <2>1, <2>2, <2>3
<1>6. q \in Nat /\ q <= e /\ e + 5 <= Len(s)
  <2>1. q \in at..e
    BY <1>1
  <2>2. PICK n \in Nat : n = Len(s) /\ (e + 2) + 7 <= n
    BY <1>2, <1>3
  <2> QED BY <2>1, <2>2
<1>7. DataUntil(s, q, e)
  <2>1. BoundaryAt(s, e + 2)
    BY <1>2, <1>3
  <2> QED BY <1>1, <1>4, <1>5, <1>6, <2>1 DEF DataUntil
<1> QED BY <1>1, <1>2, <1>7

LEMMA NoBoundaryYet ==
    ASSUME NEW s, NEW q, NEW e, DataUntil(s, q, e) PROVE ~BoundaryAt(s, q)
<1> SUFFICES ASSUME s[q + 3] = "B" PROVE FALSE
  BY DEF BoundaryAt
<1>1. q \in Nat /\ e \in Nat /\ q <= e
  BY DEF DataUntil
<1>2. \/ q + 3 \in (q + 1)..e \/ q + 3 = e + 1 \/ q + 3 = e + 2 \/ q + 3 = (e + 2) + 1
  BY <1>1
<1>3. /\ s[e + 1] = CR /\ s[e + 2] = LF /\ s[(e + 2) + 1] = "-"
      /\ \A i \in (q + 1)..e : s[i] # "B"
  BY DEF DataUntil, BoundaryAt
<1> QED BY <1>2, <1>3 DEF CR, LF

(* From the end of a value on, and from the headers of a part that is passed *)
(* over, there are lines without a boundary until the next.                  *)
LEMMA LinesBehind ==
    ASSUME NEW s, Len(s) \in Nat, NEW t \in Nat, NEW p, NEW z, PartHere(s, t, p, z), p.end = CRLF,
           NEW q, q = EndOf(t, p) \/ (q = DataAt(t, p) /\ About(p) = None)
    PROVE  LinesUntil(s, q, z)
<1>1. PICK at \in Nat, d \in Nat, e \in Nat :
         at = DataAt(t, p) /\ d = Len(p.data) /\ e = EndOf(t, p) /\ e = at + d
  BY PartPlaces
<1>2. q \in at..e
  BY <1>1
<1>3. DataUntil(s, q, e) /\ z = e + 2
  <2>1. q \in DataAt(t, p)..EndOf(t, p)
    BY <1>1, <1>2
  <2>2. DataUntil(s, q, EndOf(t, p)) /\ z = EndOf(t, p) + 2
    BY <2>1, DataEnds
  <2> QED BY <1>1, <2>2
<1>4. s[e + 1] = CR /\ s[e + 2] = LF /\ \A i \in (q + 1)..e : s[i] # "B"
  BY <1>3 DEF DataUntil
<1>5. ASSUME NEW i \in (q + 1)..z PROVE s[i] \notin {"B", NUL}
  <2>1. CASE i \in (q + 1)..e
    <3>1. About(p) = None
      BY <1>1, <1>2, <2>1
    <3>2. PICK c \in 1..d : at + c = i
      <4>0. PICK b \in Nat : b = q
        BY <1>2
      <4>1. i \in Int /\ at < i /\ i <= at + d
        BY <1>1, <1>2, <2>1, <4>0
      <4>2. i - at \in Int /\ i = at + (i - at)
        BY <4>1
      <4>3. PICK c \in Int : i = at + c
        BY <4>2
      <4>4. c \in 1..d
        BY <4>1, <4>3
      <4> QED BY <4>3, <4>4
    <3>3. s[at + c] = p.data[c] /\ p.data[c] \in Range(p.data)
      <4>1. c \in 1..Len(p.data)
        BY <1>1, <3>2
      <4> QED BY <1>1, <4>1, PartData
    <3>4. NUL \notin Range(p.data) /\ "B" \notin Range(p.data)
      BY <3>1 DEF PartHere, PartAssumption, Filename
    <3> QED BY <3>2, <3>3, <3>4
  <2>2. CASE i = e + 1
    BY <1>4, <2>2 DEF CR, NUL
  <2>3. CASE i = e + 2
    BY <1>4, <2>3 DEF LF, NUL
  <2>4. i \in (q + 1)..e \/ i = e + 1 \/ i = e + 2
    BY <1>2, <1>3
  <2> QED BY <2>1, <2>2, <2>3, <2>4
<1>6. q \in 0..z /\ s[z] = LF
  BY <1>2, <1>3, <1>4
<1> QED BY <1>5, <1>6 DEF LinesUntil

(* What a read returns, and the place behind it.                             *)
LEMMA ReadFromGets ==
    ASSUME BodyInv, BufOK(buf), NEW k \in Blocks(ReadWants)
    PROVE  Got(ReadFrom(k), k) /\ ReadFrom(k).begin >= 0 /\ ReadFrom(k).n = buf.n + k /\ k \in Nat
<1>1. pos \in 0..Len(body) /\ IsSeq(body) /\ Len(body) \in Nat /\ pos \in Nat /\ buf.n \in Nat
  BY DEF BodyInv, IsSeq, BufOK
<1>2. CASE FillUnit > buf.n
  <2>1. k \in Blocks(Wanted(buf, remaining)) /\ ReadFrom(k) = Fill(buf, Block(k))
    BY <1>2 DEF ReadWants, ReadFrom
  <2>2. Got(Fill(buf, Block(k)), k) /\ Fill(buf, Block(k)).begin = 0
    BY <2>1, FillGets
  <2>3. k \in Nat /\ k \in 0..(Len(body) - pos)
    <3>1. Wanted(buf, remaining) \in Int
      BY WantedFits DEF BodyInv
    <3>2. k \in 0..(Len(body) - pos)
      BY <2>1, <3>1, BlocksFacts
    <3> QED BY <3>2
  <2>4. Len(Block(k)) = k
    <3>1. Len(SubSeq(body, pos + 1, pos + k)) = k
      BY <1>1, <2>3, BlockFacts
    <3> QED BY <3>1 DEF Block
  <2>5. Fill(buf, Block(k)).n = buf.n + Len(Block(k))
    BY DEF Fill
  <2> QED BY <2>1, <2>2, <2>3, <2>4, <2>5
<1>3. CASE ~(FillUnit > buf.n)
  <2>1. k \in Blocks(0) /\ ReadFrom(k) = buf
    BY <1>3 DEF ReadWants, ReadFrom
  <2>2. k = 0
    BY <2>1, NoBlock
  <2>3. buf.n # 0 /\ buf.begin >= 0
    BY <1>3, FillAssumption DEF BufOK
  <2>4. Got(buf, 0)
    BY NothingGot
  <2>5. buf.n = buf.n + 0
    BY <1>1
  <2> QED BY <2>1, <2>2, <2>3, <2>4, <2>5
<1> QED BY <1>2, <1>3

LEMMA ReadStep ==
    ASSUME BufferInv, pc \in Streaming, NEW k \in Blocks(ReadWants), Reading(k), ~Odd', body' = body,
           NEW t \in Nat, NEW p, NEW z, PartHere(body, t, p, z), p.end = CRLF,
           Taken \in DataAt(t, p)..EndOf(t, p), NEW j \in Nat, Room(j), z >= 7 * j
    PROVE  /\ Room(j)' /\ Taken' \in Taken..EndOf(t, p)
           /\ ReadOf(k).data = Piece(body, Taken, Taken')
           /\ ReadOf(k).data = <<>> => Taken' = EndOf(t, p)
<1>1. BodyInv /\ BufOK(buf) /\ Holds(buf, body, pos) /\ IsSeq(body) /\ Len(body) \in Nat
  BY DEF BufferInv, BodyInv, IsSeq
<1>2. PICK q \in Nat : q = Taken /\ pos = q + buf.n /\ buf.n \in Nat /\ pos \in Nat
  BY TakenIs
<1>3. PICK b : b = ReadFrom(k)
  OBVIOUS
<1>4. PICK P \in Nat : P = pos + k /\ P <= Len(body) /\ k \in Nat
  BY <1>1, <1>2, ReadFromGets DEF Got
<1>5. BufOK(b) /\ b.begin >= 0 /\ b.n = buf.n + k /\ Holds(b, body, P)
  BY <1>1, <1>3, <1>4, ReadFromGets DEF Got
<1>6. P = q + b.n
  BY <1>2, <1>4, <1>5
<1>7. PICK m \in Nat : BoundOf(b, q, P, m)
  BY <1>5, <1>6, BoundIs
<1>8. PICK l : l = Length(body, q, b.n, m)
  OBVIOUS
<1>9. PICK d : d = ReadOf(k).data
  OBVIOUS
<1>10. l \in 0..b.n /\ d = Piece(body, q, q + l) /\ Len(d) = l /\ ReadOf(k).buf.n = b.n - l
  BY <1>3, <1>5, <1>6, <1>7, <1>8, <1>9, ReadLength DEF ReadOf
<1>11. b.n \in Nat /\ l \in Nat /\ l <= b.n
  <2>1. PICK y \in Nat : y = b.n
    BY <1>5, <1>4, <1>2
  <2>2. l \in 0..y
    BY <1>10, <2>1
  <2> QED BY <2>1, <2>2
<1>12. ~AtEdge(b, P, l)
  <2>1. edge' = (edge \/ AtEdge(ReadFrom(k), pos + k, Len(ReadOf(k).data)))
    BY DEF Reading
  <2> QED BY <1>3, <1>4, <1>9, <1>10, <2>1 DEF Odd
<1>13. PICK e \in Nat : e = EndOf(t, p) /\ DataUntil(body, q, e) /\ e + 7 <= Len(body) /\ z <= Len(body) - 7 /\ z \in Nat
  <2>1. DataUntil(body, q, EndOf(t, p))
    <3>1. q \in DataAt(t, p)..EndOf(t, p)
      BY <1>2
    <3> QED BY <1>1, <3>1, DataEnds
  <2>2. EndOf(t, p) \in Nat /\ z \in Nat /\ z + 7 <= Len(body) /\ EndOf(t, p) <= z
    BY <1>1, PartFits
  <2>3. EndOf(t, p) + 7 <= Len(body) /\ z <= Len(body) - 7
    BY <1>1, <2>2
  <2> QED BY <2>1, <2>2, <2>3
<1>14. q + l <= e
  BY <1>1, <1>4, <1>5, <1>6, <1>7, <1>8, <1>11, <1>12, <1>13, ReadStays
<1>15. Taken' = q + l
  <2>1. pos' = P /\ buf'.n = b.n - l
    BY <1>4, <1>10 DEF Reading, Received
  <2>2. Taken' = P - (b.n - l)
    BY <2>1 DEF Taken
  <2> QED BY <1>6, <1>11, <2>2
<1>16. Room(j)'
  <2>1. Received(k) /\ pos + k \in 0..Len(body)
    BY <1>1, <1>4 DEF Reading
  <2> QED BY <1>1, <1>4, <2>1, RoomKept
<1>17. ASSUME d = <<>> PROVE q + l = e
  <2>1. l = 0
    BY <1>10, <1>17
  <2>2. b.n > 0
    <3> SUFFICES ASSUME b.n = 0 PROVE FALSE
      BY <1>11
    <3>1. buf.n = 0 /\ k = 0
      <4>1. PICK c \in Nat : c = buf.n
        BY <1>2
      <4>2. c + k = 0
        BY <1>5, <4>1
      <4> QED BY <1>4, <4>1, <4>2
    <3>2. ReadWants = Wanted(buf, remaining)
      BY <3>1, FillAssumption DEF ReadWants
    <3>3. Watch(Wanted(buf, remaining), 0) /\ ~lost'
      BY <3>1, <3>2 DEF Reading, Odd
    <3>4. Len(body) >= 7 * j + 7
      BY <1>1, <1>13
    <3>5. pos = Len(body)
      BY <1>1, <3>1, <3>3, <3>4, NotLost
    <3>6. pos <= e
      BY <1>2, <1>13, <3>1 DEF DataUntil
    <3> QED BY <1>1, <1>13, <3>5, <3>6
  <2>3. q = e
    <3>1. 0 = Length(body, q, b.n, m) /\ ~AtEdge(b, P, 0)
      BY <1>8, <1>12, <2>1
    <3> QED BY <1>1, <1>4, <1>5, <1>6, <1>7, <1>13, <2>2, <3>1, ReadEnds
  <2> QED BY <2>1, <2>3
<1>18. Taken' \in Taken..EndOf(t, p)
  <2>1. q + l \in q..e
    BY <1>11, <1>13, <1>14
  <2> QED BY <1>2, <1>13, <1>15, <2>1
<1> QED BY <1>2, <1>9, <1>10, <1>13, <1>15, <1>16, <1>17, <1>18

(* The last element is replaced.                                             *)
LEMMA LastReplaced ==
    ASSUME NEW s, IsSeq(s), NEW e, NEW f, NEW c, c = Append(s, e)
    PROVE  [c EXCEPT ![Len(c)] = f] = Append(s, f) /\ c[Len(c)] = e
<1>1. PICK n \in Nat : n = Len(s)
  BY DEF IsSeq
<1>2. IsSeq(c) /\ Len(c) = n + 1 /\ c[n + 1] = e /\ \A i \in 1..n : c[i] = s[i]
  BY <1>1, AppendLast
<1>3. PICK g : g = Append(s, f)
  OBVIOUS
<1>4. IsSeq(g) /\ Len(g) = n + 1 /\ g[n + 1] = f /\ \A i \in 1..n : g[i] = s[i]
  BY <1>1, <1>3, AppendLast
<1>5. PICK h : h = [c EXCEPT ![n + 1] = f]
  OBVIOUS
<1>6. IsSeq(h) /\ Len(h) = n + 1
  <2>1. PICK m, b : m = n + 1 /\ b = c
    OBVIOUS
  <2>2. IsSeq(b)
    BY <1>2, <2>1
  <2>3. IsSeq([b EXCEPT ![m] = f])
    BY <2>2, ExceptIsSeq
  <2>4. Len([b EXCEPT ![m] = f]) = Len(b)
    BY <2>2, ExceptIsSeq
  <2> QED BY <1>2, <1>5, <2>1, <2>3, <2>4
<1>7. ASSUME NEW i \in 1..(n + 1) PROVE h[i] = g[i]
  <2>1. c = [k \in 1..(n + 1) |-> c[k]]
    BY <1>2 DEF IsSeq
  <2>2. h[i] = IF i = n + 1 THEN f ELSE c[i]
    BY <1>5, <2>1
  <2>3. i = n + 1 \/ i \in 1..n
    OBVIOUS
  <2> QED BY <1>2, <1>4, <2>2, <2>3
<1>8. h = g
  <2>1. Len(h) = Len(g) /\ \A i \in 1..Len(h) : h[i] = g[i]
    BY <1>4, <1>6, <1>7
  <2> QED BY <1>4, <1>6, <2>1, SameSeq
<1> QED BY <1>2, <1>3, <1>5, <1>8

(* The whole data of a part.                                                 *)
LEMMA WholeData ==
    ASSUME NEW s, NEW t \in Nat, NEW p, NEW z, PartHere(s, t, p, z)
    PROVE  Piece(s, DataAt(t, p), EndOf(t, p)) = p.data
<1>1. PICK at \in Nat, d \in Nat, e \in Nat :
         at = DataAt(t, p) /\ d = Len(p.data) /\ e = EndOf(t, p) /\ e = at + d
  BY PartPlaces
<1>2. at <= e /\ e - at = d /\ at \in Int /\ e \in Int
  BY <1>1
<1>3. IsSeq(Piece(s, at, e)) /\ Len(Piece(s, at, e)) = d
  BY <1>2, PieceIsSeq
<1>4. ASSUME NEW i \in 1..d PROVE Piece(s, at, e)[i] = p.data[i]
  <2>1. Piece(s, at, e)[i] = s[at + i]
    BY <1>2, PieceElement
  <2>2. s[DataAt(t, p) + i] = p.data[i]
    BY <1>1, PartData
  <2> QED BY <1>1, <2>1, <2>2
<1>5. IsSeq(p.data)
  BY DEF PartHere
<1>6. Piece(s, at, e) = p.data
  BY <1>1, <1>3, <1>4, <1>5, SameSeq
<1> QED BY <1>1, <1>6

(* A part is read: with it nothing, one parameter, or one parameter and one  *)
(* file.                                                                     *)
LEMMA PassedStep ==
    ASSUME NEW t \in Nat, NEW p, NEW z, PartHere(body, t, p, z), body' = body,
           Len(body) \in Nat, NEW w, IsSeq(w), NEW x, IsSeq(x), PassedOver(p, t, w, x)'
    PROVE  Between(z, w \o ParmOf(p), x \o FileOf(p))'
<1>1. About(p) = None /\ pc' = "eof" /\ Taken' = DataAt(t, p) /\ ReadSoFar(w, x)'
  BY DEF PassedOver
<1>2. ParmOf(p) = <<>> /\ FileOf(p) = <<>> /\ Filename(About(p)) = None
  BY <1>1 DEF ParmOf, FileOf, Filename
<1>3. w \o ParmOf(p) = w /\ x \o FileOf(p) = x
  BY <1>2, ConcatEmpty
<1>4. p.end = CRLF
  BY <1>2 DEF PartHere, PartAssumption
<1>5. LinesUntil(body', Taken', z)
  BY <1>1, <1>4, LinesBehind
<1> QED BY <1>1, <1>3, <1>5 DEF Between

(* A stretch of a value is a C string as it is.                              *)
LEMMA ValueHasNoNul ==
    ASSUME NEW s, NEW t \in Nat, NEW p, NEW z, PartHere(s, t, p, z), Filename(About(p)) = None,
           NEW q \in Nat, NEW r \in Nat, NEW d,
           DataAt(t, p) <= q, q <= r, r <= EndOf(t, p), d = Piece(s, q, r)
    PROVE  CString(d) = d
<1>1. PICK at \in Nat, m \in Nat, e \in Nat :
         at = DataAt(t, p) /\ m = Len(p.data) /\ e = EndOf(t, p) /\ e = at + m
  BY PartPlaces
<1>2. NUL \notin Range(p.data)
  BY DEF PartHere, PartAssumption
<1>3. at <= q /\ r <= at + m
  BY <1>1
<1>4. ASSUME NEW i \in DOMAIN d PROVE d[i] # NUL
  <2>1. i \in 1..(r - q) /\ d[i] = s[q + i]
    BY DEF Piece
  <2>2. PICK j \in 1..m : q + i = at + j
    <3>1. i \in Nat /\ 1 <= i /\ i <= r - q
      BY <2>1
    <3>2. PICK n \in Nat : n = q - at
      BY <1>3
    <3>3. n + i \in 1..m
      <4>1. 1 <= n + i /\ n + i <= m
        BY <1>3, <3>1, <3>2
      <4> QED BY <3>1, <4>1
    <3>4. q + i = at + (n + i)
      BY <3>1, <3>2
    <3> QED BY <3>3, <3>4
  <2>3. s[at + j] = p.data[j] /\ p.data[j] \in Range(p.data)
    BY <1>1, PartData
  <2> QED BY <1>2, <2>1, <2>2, <2>3
<1>5. {i \in DOMAIN d : d[i] = NUL} = {}
  BY <1>4
<1> QED BY <1>5 DEF CString

LEMMA ValueStep ==
    ASSUME BufferInv, ReadValue, ~Odd', IsSeq(sends.args), NEW t \in Nat, NEW p, NEW z,
           PartHere(body, t, p, z), NEW w, IsSeq(w), NEW x, IsSeq(x), NEW j \in Nat, Room(j), z >= 7 * j,
           InValue(p, t, w, x)
    PROVE  /\ body' = body /\ Room(j)'
           /\ InValue(p, t, w, x)' \/ Between(z, w \o ParmOf(p), x \o FileOf(p))'
<1>1. pc \in Streaming /\ UNCHANGED <<sends, body, uploads>> /\ Len(body) \in Nat
  BY DEF BufferInv, BodyInv, IsSeq, ReadValue, Streaming
<1>2. PICK k \in Blocks(ReadWants) :
         /\ Reading(k)
         /\ pc' = IF ReadOf(k).data = <<>> THEN "eof" ELSE "value"
         /\ parms' = [parms EXCEPT ![Len(parms)].val = @ \o CString(ReadOf(k).data)]
  BY DEF ReadValue
<1>3. About(p) # None /\ Filename(About(p)) = None /\ p.end = CRLF
  BY DEF InValue, PartHere, PartAssumption
<1>4. Taken \in DataAt(t, p)..EndOf(t, p)
  BY DEF InValue
<1>5. /\ Room(j)' /\ Taken' \in Taken..EndOf(t, p)
      /\ ReadOf(k).data = Piece(body, Taken, Taken')
      /\ ReadOf(k).data = <<>> => Taken' = EndOf(t, p)
  BY <1>1, <1>2, <1>3, <1>4, ReadStep
<1>6. PICK at \in Nat, e \in Nat, q \in Nat, r \in Nat :
         /\ at = DataAt(t, p) /\ e = EndOf(t, p) /\ q = Taken /\ r = Taken' /\ at <= q /\ q <= r /\ r <= e
  <2>1. DataAt(t, p) \in Nat /\ EndOf(t, p) \in Nat
    BY <1>1, PartFits
  <2> QED BY <1>4, <1>5, <2>1
<1>7. PICK d, K, s : d = ReadOf(k).data /\ K = Disposition[About(p)].param /\ s = sends.args \o w
  OBVIOUS
<1>8. IsSeq(s)
  BY <1>7, ConcatIs
<1>13. CString(d) = d
  <2>1. DataAt(t, p) <= q /\ q <= r /\ r <= EndOf(t, p) /\ d = Piece(body, q, r)
    BY <1>5, <1>6, <1>7
  <2> QED BY <1>3, <2>1, ValueHasNoNul
<1>9. parms' = Append(s, [key |-> K, val |-> Piece(body, at, r)])
  <2>1. PICK y : y = [key |-> K, val |-> Piece(body, at, q)]
    OBVIOUS
  <2>2. parms = Append(s, y)
    BY <1>6, <1>7, <2>1 DEF InValue
  <2>3. parms[Len(parms)] = y /\ \A f : [parms EXCEPT ![Len(parms)] = f] = Append(s, f)
    BY <1>8, <2>2, LastReplaced
  <2>4. parms' = [parms EXCEPT ![Len(parms)] = [parms[Len(parms)] EXCEPT !.val = parms[Len(parms)].val \o d]]
    BY <1>2, <1>7, <1>13
  <2>5. parms' = Append(s, [y EXCEPT !.val = y.val \o d])
    BY <2>3, <2>4
  <2>6. y.val = Piece(body, at, q) /\ d = Piece(body, q, r)
    BY <1>5, <1>6, <1>7, <2>1
  <2>7. Piece(body, at, q) \o Piece(body, q, r) = Piece(body, at, r)
    <3>1. at \in Int /\ q \in Int /\ r \in Int /\ at <= q /\ q <= r
      BY <1>6
    <3> QED BY <3>1, PiecesJoined
  <2>8. PICK v : v = y.val \o d
    OBVIOUS
  <2>9. v = Piece(body, at, r)
    BY <2>6, <2>7, <2>8
  <2>10. [y EXCEPT !.val = v] = [key |-> K, val |-> v]
    BY <2>1
  <2> QED BY <2>5, <2>8, <2>9, <2>10
<1>10. SameUploads(uploads, x)
  BY DEF InValue
<1>11. CASE d # <<>>
  <2>1. pc' = "value"
    BY <1>2, <1>7, <1>11
  <2>2. Taken' \in DataAt(t, p)..EndOf(t, p)
    BY <1>6
  <2>3. parms' = Append(sends'.args \o w, [key |-> Disposition[About(p)].param,
                                           val |-> Piece(body', DataAt(t, p), Taken')])
    BY <1>1, <1>6, <1>7, <1>9
  <2>4. SameUploads(uploads', x)
    BY <1>1, <1>10
  <2>5. InValue(p, t, w, x)'
    BY <1>3, <2>1, <2>2, <2>3, <2>4 DEF InValue
  <2> QED BY <1>1, <1>5, <2>5
<1>12. CASE d = <<>>
  <2>1. pc' = "eof" /\ Taken' = EndOf(t, p)
    BY <1>2, <1>5, <1>7, <1>12
  <2>2. PICK y : y = [key |-> K, val |-> p.data] /\ parms' = Append(s, y)
    <3>1. Piece(body, at, r) = p.data
      BY <1>6, <2>1, WholeData
    <3> QED BY <1>9, <3>1
  <2>3. ParmOf(p) = <<y>> /\ FileOf(p) = <<>>
    BY <1>3, <1>7, <2>2 DEF ParmOf, FileOf
  <2>4. Append(sends.args \o w, y) = sends.args \o (w \o <<y>>)
    BY ConcatTwice
  <2>5. parms' = sends'.args \o (w \o ParmOf(p))
    BY <1>1, <1>7, <2>2, <2>3, <2>4
  <2>6. x \o FileOf(p) = x
    BY <2>3, ConcatEmpty
  <2>7. LinesUntil(body', Taken', z)
    BY <1>1, <1>3, <2>1, LinesBehind
  <2>8. ReadSoFar(w \o ParmOf(p), x \o FileOf(p))'
    BY <1>1, <1>10, <2>5, <2>6 DEF ReadSoFar
  <2>9. Between(z, w \o ParmOf(p), x \o FileOf(p))'
    BY <2>1, <2>7, <2>8 DEF Between
  <2> QED BY <1>1, <1>5, <2>9
<1> QED BY <1>11, <1>12

LEMMA FileStep ==
    ASSUME BufferInv, ReadFile, ~Odd', IsSeq(sends.args), NEW t \in Nat, NEW p, NEW z,
           PartHere(body, t, p, z), NEW w, IsSeq(w), NEW x, IsSeq(x), NEW j \in Nat, Room(j), z >= 7 * j,
           InFile(p, t, w, x)
    PROVE  /\ body' = body /\ Room(j)'
           /\ InFile(p, t, w, x)' \/ Between(z, w \o ParmOf(p), x \o FileOf(p))'
<1>1. pc \in Streaming /\ UNCHANGED <<sends, body, parms>> /\ Len(body) \in Nat /\ pc = "file"
  BY DEF BufferInv, BodyInv, IsSeq, ReadFile, Streaming
<1>2. PICK k \in Blocks(ReadWants) :
         /\ Reading(k)
         /\ pc' = IF ReadOf(k).data = <<>> THEN "eof" ELSE "file"
         /\ uploads' = [uploads EXCEPT ![Len(uploads)].data = @ \o ReadOf(k).data]
  BY DEF ReadFile
<1>3. Filename(About(p)) # None /\ p.end = CRLF /\ Taken \in DataAt(t, p)..EndOf(t, p)
      /\ parms = sends.args \o (w \o ParmOf(p))
  BY <1>1 DEF InFile
<1>4. /\ Room(j)' /\ Taken' \in Taken..EndOf(t, p)
      /\ ReadOf(k).data = Piece(body, Taken, Taken')
      /\ ReadOf(k).data = <<>> => Taken' = EndOf(t, p)
  BY <1>1, <1>2, <1>3, ReadStep
<1>5. PICK at \in Nat, e \in Nat, q \in Nat, r \in Nat :
         /\ at = DataAt(t, p) /\ e = EndOf(t, p) /\ q = Taken /\ r = Taken' /\ at <= q /\ q <= r /\ r <= e
  <2>1. DataAt(t, p) \in Nat /\ EndOf(t, p) \in Nat
    BY <1>1, PartFits
  <2> QED BY <1>3, <1>4, <2>1
<1>6. PICK d, N, F : d = ReadOf(k).data /\ N = Disposition[About(p)].param /\ F = Filename(About(p))
  OBVIOUS
<1>7. PICK ups, c : SameUploads(ups, x)
                 /\ uploads = Append(ups, [name |-> N, filename |-> F, data |-> Piece(body, at, q), req |-> c])
  BY <1>5, <1>6 DEF InFile
<1>8. uploads' = Append(ups, [name |-> N, filename |-> F, data |-> Piece(body, at, r), req |-> c])
  <2>1. PICK y : y = [name |-> N, filename |-> F, data |-> Piece(body, at, q), req |-> c]
    OBVIOUS
  <2>2. uploads = Append(ups, y) /\ IsSeq(ups)
    BY <1>7, <2>1 DEF SameUploads
  <2>3. uploads[Len(uploads)] = y /\ \A f : [uploads EXCEPT ![Len(uploads)] = f] = Append(ups, f)
    BY <2>2, LastReplaced
  <2>4. uploads' = [uploads EXCEPT ![Len(uploads)] =
                       [uploads[Len(uploads)] EXCEPT !.data = uploads[Len(uploads)].data \o d]]
    BY <1>2, <1>6
  <2>5. uploads' = Append(ups, [y EXCEPT !.data = y.data \o d])
    BY <2>3, <2>4
  <2>6. y.data = Piece(body, at, q) /\ d = Piece(body, q, r)
    BY <1>4, <1>5, <1>6, <2>1
  <2>7. Piece(body, at, q) \o Piece(body, q, r) = Piece(body, at, r)
    <3>1. at \in Int /\ q \in Int /\ r \in Int /\ at <= q /\ q <= r
      BY <1>5
    <3> QED BY <3>1, PiecesJoined
  <2>8. PICK v : v = y.data \o d
    OBVIOUS
  <2>9. v = Piece(body, at, r)
    BY <2>6, <2>7, <2>8
  <2>10. [y EXCEPT !.data = v] = [name |-> N, filename |-> F, data |-> v, req |-> c]
    BY <2>1
  <2> QED BY <2>5, <2>8, <2>9, <2>10
<1>9. CASE d # <<>>
  <2>1. pc' = "file"
    BY <1>2, <1>6, <1>9
  <2>2. Taken' \in DataAt(t, p)..EndOf(t, p)
    BY <1>5
  <2>3. uploads' = Append(ups, [name |-> Disposition[About(p)].param, filename |-> Filename(About(p)),
                                data |-> Piece(body', DataAt(t, p), Taken'), req |-> c])
    BY <1>1, <1>5, <1>6, <1>8
  <2>4. parms' = sends'.args \o (w \o ParmOf(p))
    BY <1>1, <1>3
  <2>5. InFile(p, t, w, x)'
    BY <1>3, <1>7, <2>1, <2>2, <2>3, <2>4 DEF InFile
  <2> QED BY <1>1, <1>4, <2>5
<1>10. CASE d = <<>>
  <2>1. pc' = "eof" /\ Taken' = EndOf(t, p)
    BY <1>2, <1>4, <1>6, <1>10
  <2>2. Piece(body, at, r) = p.data
    BY <1>5, <2>1, WholeData
  <2>3. SameUploads(uploads', x \o FileOf(p))
    <3>1. PICK y, f : y = [name |-> N, filename |-> F, data |-> p.data, req |-> c]
                      /\ f = [name |-> N, filename |-> F, data |-> p.data]
      OBVIOUS
    <3>2. SameUpload(y, f)
      BY <3>1 DEF SameUpload
    <3>3. uploads' = Append(ups, y) /\ FileOf(p) = <<f>>
      BY <1>3, <1>6, <1>8, <2>2, <3>1 DEF FileOf
    <3> QED BY <1>7, <3>2, <3>3, OneUploadMore
  <2>4. LinesUntil(body', Taken', z)
    BY <1>1, <1>3, <2>1, LinesBehind
  <2>5. parms' = sends'.args \o (w \o ParmOf(p))
    BY <1>1, <1>3
  <2>6. ReadSoFar(w \o ParmOf(p), x \o FileOf(p))'
    BY <2>3, <2>5 DEF ReadSoFar
  <2>7. Between(z, w \o ParmOf(p), x \o FileOf(p))'
    BY <2>1, <2>4, <2>6 DEF Between
  <2> QED BY <1>1, <1>4, <2>7
<1> QED BY <1>9, <1>10

LEMMA MozillaStep ==
    ASSUME BufferInv, MozillaCheck, ~Odd', IsSeq(sends.args), NEW t \in Nat, NEW p, NEW z,
           PartHere(body, t, p, z), NEW w, IsSeq(w), NEW x, IsSeq(x), NEW j \in Nat, Room(j),
           NEW j1 \in Nat, j1 = j + 1, InFile(p, t, w, x)
    PROVE  /\ body' = body
           /\ \/ Room(j)' /\ InFile(p, t, w, x)'
              \/ Room(j1)' /\ Between(z, w \o ParmOf(p), x \o FileOf(p))'
<1>1. /\ pc \in Streaming /\ UNCHANGED <<sends, body, parms, uploads>> /\ pc = "mozilla"
      /\ BodyInv /\ BufOK(buf) /\ IsSeq(body) /\ Len(body) \in Nat /\ remaining \in Int
  BY DEF BufferInv, BodyInv, IsSeq, MozillaCheck, Streaming, parmVars
<1>2. PICK q \in Nat : q = Taken /\ pos = q + buf.n /\ buf.n \in Nat /\ pos \in Nat /\ pos <= Len(body)
  BY <1>1, TakenIs
<1>3. PICK k, b :
         /\ k \in Blocks(Wanted(buf, remaining)) /\ b = Fill(buf, Block(k)) /\ buf' = b /\ pos' = pos + k
         /\ remaining' = IF MatchesAt(b, b.begin, Boundary) THEN Left(k) - 2 ELSE Left(k)
         /\ pc' = IF MatchesAt(b, b.begin, Boundary) THEN "eof" ELSE "file"
         /\ edge' = (edge \/ MatchesAt(b, b.begin, Boundary) # IsPrefix(Boundary, Unread(pos' - b.n)))
  BY DEF MozillaCheck
<1> DEFINE empty == MatchesAt(b, b.begin, Boundary)
           Real == IsPrefix(Boundary, Unread(pos' - b.n))
<1>15. /\ remaining' = IF empty THEN Left(k) - 2 ELSE Left(k)
       /\ pc' = IF empty THEN "eof" ELSE "file"
  BY <1>3
<1>16. edge' = (edge \/ empty # Real) /\ empty \in BOOLEAN /\ Real \in BOOLEAN
  BY <1>3 DEF MatchesAt, IsPrefix
<1> HIDE DEF empty, Real
<1>17. ~edge' => (empty <=> Real)
  BY <1>16
<1>4. k \in Nat /\ pos + k \in 0..Len(body) /\ b.n = buf.n + k
  <2>1. Got(Fill(buf, Block(k)), k)
    BY <1>1, <1>3, FillGets
  <2>2. Wanted(buf, remaining) \in Int
    BY <1>1, WantedFits
  <2>3. k \in 0..(Len(body) - pos)
    BY <1>1, <1>3, <2>2, BlocksFacts
  <2>4. k \in Nat
    BY <1>1, <1>2, <2>3
  <2>5. Len(SubSeq(body, pos + 1, pos + k)) = k
    BY <1>1, <2>3, BlockFacts DEF BodyInv
  <2>6. b.n = buf.n + Len(Block(k))
    BY <1>3 DEF Fill
  <2> QED BY <2>1, <2>4, <2>5, <2>6 DEF Got, Block
<1>5. Taken' = q /\ pos' - b.n = q /\ q <= Len(body)
  <2>1. Taken' = (pos + k) - b.n /\ pos' - b.n = (pos + k) - b.n
    BY <1>3 DEF Taken
  <2>2. PICK h \in Nat, g \in Nat, P \in Nat, c \in Nat : h = k /\ g = buf.n /\ P = pos /\ c = Len(body)
    BY <1>1, <1>2, <1>4
  <2>3. P = q + g /\ P <= c
    BY <1>2, <2>2
  <2>4. (pos + k) - b.n = (P + h) - (g + h)
    BY <1>4, <2>2
  <2>5. (P + h) - (g + h) = q /\ q <= c
    BY <2>3
  <2> QED BY <2>1, <2>2, <2>4, <2>5
<1>6. empty <=> q + 3 <= Len(body) /\ BoundaryAt(body, q)
  <2>1. empty <=> IsPrefix(Boundary, Unread(q))
    BY <1>5, <1>17 DEF Odd, Real
  <2>2. Unread(q) = SubSeq(body, q + 1, Len(body))
    BY DEF Unread
  <2>3. q \in 0..Len(body)
    BY <1>1, <1>5
  <2> QED BY <1>1, <2>1, <2>2, <2>3, PrefixBoundary
<1>7. q = DataAt(t, p) /\ Filename(About(p)) # None /\ parms = sends.args \o (w \o ParmOf(p))
  BY <1>1, <1>2 DEF InFile
<1>8. PICK ups, c : SameUploads(ups, x)
                 /\ uploads = Append(ups, [name |-> Disposition[About(p)].param, filename |-> Filename(About(p)),
                                           data |-> Piece(body, DataAt(t, p), q), req |-> c])
  BY <1>2 DEF InFile
<1>9. /\ DataAt(t, p) \in Nat /\ EndOf(t, p) \in Nat /\ DataAt(t, p) <= EndOf(t, p)
      /\ z \in Nat /\ z + 7 <= Len(body) /\ EndOf(t, p) <= z
  BY <1>1, PartFits
<1>10. parms' = sends'.args \o (w \o ParmOf(p))
  BY <1>1, <1>7
<1>11. IF pos < Len(body) THEN remaining + 2 * j >= Len(body) ELSE remaining <= 0
  BY DEF Room
<1>12. Left(k) = IF k > 0 /\ pos + k = Len(body) THEN 0 ELSE remaining
  BY DEF Left
<1>13. CASE p.end = CRLF
  <2>1. q \in DataAt(t, p)..EndOf(t, p)
    BY <1>7, <1>9
  <2>2. ~BoundaryAt(body, q)
    <3>1. DataUntil(body, q, EndOf(t, p))
      BY <1>1, <1>13, <2>1, DataEnds
    <3> QED BY <3>1, NoBoundaryYet
  <2>3. pc' = "file" /\ remaining' = Left(k)
    BY <1>6, <1>15, <2>2
  <2>4. Room(j)'
    <3>1. Received(k)
      BY <1>3, <2>3 DEF Received
    <3> QED BY <1>1, <1>4, <3>1, RoomKept
  <2>5. uploads' = Append(ups, [name |-> Disposition[About(p)].param, filename |-> Filename(About(p)),
                                data |-> Piece(body', DataAt(t, p), Taken'), req |-> c])
    BY <1>1, <1>5, <1>8
  <2>6. Taken' \in DataAt(t, p)..EndOf(t, p)
    BY <1>5, <2>1
  <2>7. InFile(p, t, w, x)'
    BY <1>7, <1>8, <1>10, <1>13, <2>3, <2>5, <2>6 DEF InFile
  <2> QED BY <1>1, <2>4, <2>7
<1>14. CASE p.end # CRLF
  <2>1. z = q /\ p.data = <<>>
    BY <1>7, <1>14, PartEnds
  <2>2. BoundaryAt(body, q)
    BY <2>1 DEF PartHere
  <2>3. q + 3 <= Len(body)
    BY <1>1, <1>9, <2>1
  <2>4. pc' = "eof" /\ remaining' = Left(k) - 2
    BY <1>6, <1>15, <2>2, <2>3
  <2>5. Room(j1)'
    <3>1. PICK n \in Nat : n = Len(body) /\ Len(body') = n
      BY <1>1
    <3>2. pos' \in 0..n /\ pos' = pos + k
      BY <1>3, <1>4, <3>1
    <3>3. IF pos < n THEN remaining + 2 * j >= n ELSE remaining <= 0
      BY <1>11, <3>1
    <3>4. remaining' = (IF k > 0 /\ pos + k = n THEN 0 ELSE remaining) - 2
      BY <1>12, <2>4, <3>1
    <3>5. IF pos' < n THEN remaining' + 2 * (j + 1) >= n ELSE remaining' <= 0
      <4>1. PICK rest \in Int, m \in Nat, y \in Nat : rest = remaining /\ m = pos /\ y = 2 * j
        BY <1>1, <1>2
      <4>2. 2 * (j + 1) = y + 2
        BY <4>1
      <4>3. PICK d : d = remaining'
        OBVIOUS
      <4>4. d = (IF k > 0 /\ m + k = n THEN 0 ELSE rest) - 2
        BY <3>4, <4>1, <4>3
      <4>5. IF m < n THEN rest + y >= n ELSE rest <= 0
        BY <3>3, <4>1
      <4>6. m + k <= n
        BY <3>1, <3>2, <4>1
      <4>7. CASE m + k < n
        <5>1. d = rest - 2 /\ rest + y >= n
          BY <1>4, <4>4, <4>5, <4>7
        <5>2. d + (y + 2) >= n
          BY <5>1
        <5> QED BY <3>2, <4>1, <4>2, <4>3, <4>7, <5>2
      <4>8. CASE m + k = n
        <5>1. d <= 0
          BY <1>4, <4>1, <4>4, <4>5, <4>8
        <5> QED BY <3>2, <4>1, <4>3, <4>8, <5>1
      <4> QED BY <1>4, <4>1, <4>6, <4>7, <4>8
    <3> QED BY <3>1, <3>5 DEF Room
  <2>6. SameUploads(uploads', x \o FileOf(p))
    <3>1. PICK N, F : N = Disposition[About(p)].param /\ F = Filename(About(p))
      OBVIOUS
    <3>2. PICK y, f : y = [name |-> N, filename |-> F, data |-> p.data, req |-> c]
                      /\ f = [name |-> N, filename |-> F, data |-> p.data]
      OBVIOUS
    <3>3. SameUpload(y, f)
      BY <3>2 DEF SameUpload
    <3>4. Piece(body, DataAt(t, p), q) = p.data
      <4>1. Piece(body, q, q) = <<>>
        BY NoPiece
      <4> QED BY <1>7, <2>1, <4>1
    <3>5. uploads' = Append(ups, y) /\ FileOf(p) = <<f>>
      BY <1>1, <1>7, <1>8, <3>1, <3>2, <3>4 DEF FileOf
    <3> QED BY <1>8, <3>3, <3>5, OneUploadMore
  <2>7. LinesUntil(body', Taken', z)
    <3>1. q \in 0..q /\ ~(q < q) /\ (q + 1)..q = {}
      OBVIOUS
    <3>2. LinesUntil(body, q, q)
      BY <3>1 DEF LinesUntil
    <3> QED BY <1>1, <1>5, <2>1, <3>2
  <2>8. ReadSoFar(w \o ParmOf(p), x \o FileOf(p))'
    BY <1>10, <2>6 DEF ReadSoFar
  <2>9. Between(z, w \o ParmOf(p), x \o FileOf(p))'
    BY <2>4, <2>7, <2>8 DEF Between
  <2> QED BY <1>1, <2>5, <2>9
<1> QED BY <1>13, <1>14

(* The form that is read, the places of its m parts, and how many are read.  *)
Here(f, a, v, u, m, j) ==
    /\ sends.kind = "multipart" /\ sends.form = f /\ f \in Forms
    /\ m = Len(f.parts) /\ j \in 0..m /\ Laid(f, body, a, v, u) /\ Place(f, a, v, u, j)

LEMMA HereIs ==
    ASSUME StreamInv, pc \in Streaming, ~Odd PROVE \E f, a, v, u, m, j : Here(f, a, v, u, m, j)
BY DEF StreamInv, Here

LEMMA HereAgain ==
    ASSUME NEW f, NEW a, NEW v, NEW u, NEW m, NEW j, Here(f, a, v, u, m, j),
           sends' = sends, body' = body, NEW i \in 0..m, Place(f, a, v, u, i)'
    PROVE  StreamInv' /\ pc' # "run"
<1>1. StreamInv'
  BY DEF Here, StreamInv
<1>2. pc' # "run"
  BY DEF Place, Between, InPart, InHeaders, InValue, InFile
<1> QED BY <1>1, <1>2

LEMMA HereFacts ==
    ASSUME NEW f, NEW a, NEW v, NEW u, NEW m, NEW j, Here(f, a, v, u, m, j)
    PROVE  /\ m \in Nat /\ j \in Nat /\ j <= m /\ Room(j) /\ a[j] \in Nat /\ a[j] >= 7 * j
           /\ a[j] + 7 <= Len(body) /\ IsSeq(v[j]) /\ IsSeq(u[j])
           /\ j = m => EndAt(body, a[j])
           /\ j < m => PartAt(body, a[j]) /\ ~EndAt(body, a[j])
<1>1. m \in Nat /\ m = Len(f.parts) /\ j \in 0..m /\ Room(j)
  BY FormTyped DEF Here, IsSeq, Place
<1>2. PartsLie(f, body, a) /\ IsSeq(v[j]) /\ IsSeq(u[j])
  BY <1>1 DEF Here, Laid, JoinedUpTo
<1>3. a[j] \in Nat /\ a[j] >= 7 * j /\ a[j] + 7 <= Len(body) /\ EndAt(body, a[m])
  BY <1>1, <1>2 DEF PartsLie
<1>4. ASSUME j < m PROVE PartAt(body, a[j]) /\ ~EndAt(body, a[j])
  <2>1. PICK i \in 1..m : i - 1 = j
    <3>1. j + 1 \in 1..m /\ (j + 1) - 1 = j
      BY <1>1, <1>4
    <3> QED BY <3>1
  <2>2. PartLies(body, a[i - 1], f.parts[i])
    BY <1>1, <1>2 DEF PartsLie
  <2>3. PartAt(body, a[j])
    BY <2>1, <2>2 DEF PartLies
  <2>4. ~EndAt(body, a[j])
    BY <2>3 DEF PartAt, EndAt, CR
  <2> QED BY <2>3, <2>4
<1> QED BY <1>1, <1>2, <1>3, <1>4

Adds(g, j, i, c) == g[i] = g[j] \o c

(* The next part.                                                            *)
LEMMA HerePart ==
    ASSUME NEW f, NEW a, NEW v, NEW u, NEW m, NEW j, Here(f, a, v, u, m, j), j < m,
           NEW i, i = j + 1, NEW p, p = f.parts[i]
    PROVE  /\ i \in 0..m /\ i \in Nat /\ PartHere(body, a[j], p, a[i])
           /\ Adds(v, j, i, ParmOf(p)) /\ Adds(u, j, i, FileOf(p))
           /\ a[i] \in Nat /\ a[i] >= 7 * i /\ a[i] >= 7 * j
<1>1. /\ m \in Nat /\ m = Len(f.parts) /\ j \in 0..m /\ f \in Forms
      /\ IsSeq(f.parts) /\ DOMAIN f.parts = 1..m
  BY FormTyped DEF Here, IsSeq
<1>2. i \in 1..m /\ i - 1 = j /\ i \in 0..m /\ i \in Nat /\ i - 1 \in 0..m
  BY <1>1
<1>3. PartsLie(f, body, a) /\ JoinedUpTo(v, [k \in DOMAIN f.parts |-> ParmOf(f.parts[k])], m)
      /\ JoinedUpTo(u, [k \in DOMAIN f.parts |-> FileOf(f.parts[k])], m)
  BY <1>1 DEF Here, Laid
<1>4. v[i] = v[j] \o ParmOf(p)
  <2>1. v[i] = v[i - 1] \o [k \in DOMAIN f.parts |-> ParmOf(f.parts[k])][i]
    BY <1>2, <1>3 DEF JoinedUpTo
  <2>2. [k \in DOMAIN f.parts |-> ParmOf(f.parts[k])][i] = ParmOf(p)
    BY <1>1, <1>2
  <2> QED BY <1>2, <2>1, <2>2
<1>5. u[i] = u[j] \o FileOf(p)
  <2>1. u[i] = u[i - 1] \o [k \in DOMAIN f.parts |-> FileOf(f.parts[k])][i]
    BY <1>2, <1>3 DEF JoinedUpTo
  <2>2. [k \in DOMAIN f.parts |-> FileOf(f.parts[k])][i] = FileOf(p)
    BY <1>1, <1>2
  <2> QED BY <1>2, <2>1, <2>2
<1>6. /\ PartLies(body, a[j], p) /\ a[i] = EndOf(a[j], p) + Len(p.end)
      /\ a[i] >= 7 * i /\ a[i] + 7 <= Len(body) /\ BoundaryAt(body, a[i]) /\ a[i] \in Nat
  BY <1>1, <1>2, <1>3 DEF PartsLie
<1>7. IsSeq(p.headers) /\ IsSeq(p.data)
  <2>1. PartOf(Bytes(f), p)
    BY <1>1, <1>2, FormTyped
  <2> QED BY <2>1, SeqIsSeq DEF PartOf
<1>8. PartAssumption(p)
  BY <1>1, <1>2, FormAssumption
<1>9. a[i] >= 7 * j
  <2>1. 7 * i >= 7 * j /\ 7 * i \in Nat /\ 7 * j \in Nat
    BY <1>1, <1>2
  <2> QED BY <1>6, <2>1
<1> QED BY <1>2, <1>4, <1>5, <1>6, <1>7, <1>8, <1>9 DEF PartHere, Adds

(* The page runs with what was sent.                                         *)
RunInv == pc = "run" /\ ~Odd => parms = SentParms /\ SameUploads(uploads, FormFiles(sends.form))

LEMMA AllRead ==
    ASSUME NEW f, NEW a, NEW v, NEW u, NEW m, NEW j, Here(f, a, v, u, m, j), EndAt(body, a[j]),
           sends' = sends, Finished(v[j], u[j])'
    PROVE  StreamInv' /\ RunInv'
<1>1. j = m
  BY HereFacts
<1>2. v[j] = FormParms(f) /\ u[j] = FormFiles(f)
  BY <1>1 DEF Here, Laid, JoinedUpTo, FormParms, FormFiles
<1>3. pc' \notin Streaming
  BY DEF Finished, Streaming
<1>4. ASSUME pc' = "run" PROVE parms' = SentParms' /\ SameUploads(uploads', FormFiles(sends'.form))
  <2>1. parms' = sends'.args \o FormParms(f) /\ SameUploads(uploads', FormFiles(f))
    BY <1>2, <1>4 DEF Finished, ReadSoFar
  <2>2. sends'.kind = "multipart" /\ sends'.form = f
    BY DEF Here
  <2>3. SentParms' = sends'.args \o FormParms(f)
    BY <2>2 DEF SentParms
  <2> QED BY <2>1, <2>2, <2>3
<1> QED BY <1>3, <1>4 DEF StreamInv, RunInv

LEMMA FormAtEof == ASSUME BufferInv, StreamInv, ~Odd, ~Odd', AtEof PROVE StreamInv' /\ RunInv'
<1>1. pc \in Streaming /\ pc = "eof" /\ sends' = sends
  BY DEF AtEof, Streaming
<1>2. PICK f, a, v, u, m, j : Here(f, a, v, u, m, j)
  BY <1>1, HereIs
<1>3. PICK t, w, x : t = a[j] /\ w = v[j] /\ x = u[j]
  OBVIOUS
<1>4. m \in Nat /\ j \in Nat /\ j <= m /\ Room(j) /\ t \in Nat /\ t >= 7 * j /\ t + 7 <= Len(body)
  BY <1>2, <1>3, HereFacts
<1>5. Between(t, w, x)
  BY <1>1, <1>2, <1>3 DEF Here, Place, InPart, InHeaders, InValue, InFile
<1>6. \/ EndAt(body, t) /\ Finished(w, x)'
      \/ body' = body /\ Room(j)' /\ Between(t, w, x)'
  BY <1>4, <1>5, AtEofStep
<1>7. CASE EndAt(body, t) /\ Finished(w, x)'
  BY <1>1, <1>2, <1>3, <1>7, AllRead
<1>8. CASE body' = body /\ Room(j)' /\ Between(t, w, x)'
  <2>1. Place(f, a, v, u, j)' /\ j \in 0..m
    BY <1>3, <1>4, <1>8 DEF Place
  <2>2. StreamInv' /\ pc' # "run"
    BY <1>1, <1>2, <1>8, <2>1, HereAgain
  <2> QED BY <2>2 DEF RunInv
<1> QED BY <1>6, <1>7, <1>8

LEMMA FormBoundary == ASSUME BufferInv, StreamInv, ~Odd, ~Odd', FindBoundary PROVE StreamInv' /\ RunInv'
<1>1. pc \in Streaming /\ pc = "boundary" /\ sends' = sends
  BY DEF FindBoundary, Streaming
<1>2. PICK f, a, v, u, m, j : Here(f, a, v, u, m, j)
  BY <1>1, HereIs
<1>3. PICK t, w, x : t = a[j] /\ w = v[j] /\ x = u[j]
  OBVIOUS
<1>4. m \in Nat /\ j \in Nat /\ j <= m /\ Room(j) /\ t \in Nat /\ t >= 7 * j /\ t + 7 <= Len(body)
  BY <1>2, <1>3, HereFacts
<1>5. Between(t, w, x)
  BY <1>1, <1>2, <1>3 DEF Here, Place, InPart, InHeaders, InValue, InFile
<1>6. (PartAt(body, t) \/ EndAt(body, t)) /\ (j = m => EndAt(body, t)) /\ (PartAt(body, t) => j < m)
  <2>1. (j = m => EndAt(body, t)) /\ (j < m => PartAt(body, t))
    BY <1>2, <1>3, HereFacts
  <2>2. ~(PartAt(body, t) /\ EndAt(body, t))
    BY DEF PartAt, EndAt, CR
  <2>3. j = m \/ j < m
    BY <1>4
  <2> QED BY <2>1, <2>2, <2>3
<1>7. \/ EndAt(body, t) /\ Finished(w, x)'
      \/ body' = body /\ Room(j)' /\ Between(t, w, x)'
      \/ /\ body' = body /\ Room(j)' /\ PartAt(body, t)
         /\ pc' = "headers" /\ ReadSoFar(w, x)' /\ Taken' = t + 5 /\ hdr' = {}
  BY <1>4, <1>5, <1>6, BoundaryStep
<1>8. CASE EndAt(body, t) /\ Finished(w, x)'
  BY <1>1, <1>2, <1>3, <1>8, AllRead
<1>9. CASE body' = body /\ Room(j)' /\ Between(t, w, x)'
  <2>1. Place(f, a, v, u, j)' /\ j \in 0..m
    BY <1>3, <1>4, <1>9 DEF Place
  <2>2. StreamInv' /\ pc' # "run"
    BY <1>1, <1>2, <1>9, <2>1, HereAgain
  <2> QED BY <2>2 DEF RunInv
<1>10. CASE /\ body' = body /\ Room(j)' /\ PartAt(body, t)
            /\ pc' = "headers" /\ ReadSoFar(w, x)' /\ Taken' = t + 5 /\ hdr' = {}
  <2>1. PICK p, i : i = j + 1 /\ p = f.parts[i]
    OBVIOUS
  <2>2. j < m /\ m = Len(f.parts)
    BY <1>2, <1>6, <1>10 DEF Here
  <2>3. PartHere(body, t, p, a[i])
    BY <1>2, <1>3, <2>1, <2>2, HerePart
  <2>4. 0 \in 0..Len(p.headers) /\ HeaderAt(t, 0) = t + 5 /\ 1..0 = {}
    BY <1>4, <2>3 DEF PartHere, IsSeq, HeaderAt
  <2>5. hdr' = {p.headers[k] : k \in 1..0} /\ Taken' = HeaderAt(t, 0)
    BY <1>10, <2>4
  <2>6. InHeaders(p, t, w, x)'
    BY <1>10, <2>4, <2>5 DEF InHeaders
  <2>7. Place(f, a, v, u, j)' /\ j \in 0..m
    BY <1>3, <1>4, <1>10, <2>1, <2>2, <2>6 DEF Place, InPart
  <2>8. StreamInv' /\ pc' # "run"
    BY <1>1, <1>2, <1>10, <2>7, HereAgain
  <2> QED BY <2>8 DEF RunInv
<1> QED BY <1>7, <1>8, <1>9, <1>10

(* The parser is in a part.                                                  *)
LEMMA InPartFacts ==
    ASSUME BufferInv, sends \in Inputs, NEW f, NEW a, NEW v, NEW u, NEW m, NEW j, Here(f, a, v, u, m, j),
           pc \in {"headers", "value", "tmpfile", "mozilla", "file"},
           NEW i, i = j + 1, NEW p, p = f.parts[i]
    PROVE  /\ j < m /\ m = Len(f.parts) /\ InPart(p, a[j], v[j], u[j])
           /\ IsSeq(sends.args) /\ Len(body) \in Nat
<1>1. j < m /\ m = Len(f.parts) /\ InPart(p, a[j], v[j], u[j])
  BY DEF Here, Place, Between
<1>2. sends.args \in Queries
  BY DEF Inputs, Sent
<1>3. IsSeq(sends.args)
  BY <1>2, SentIsSeq
<1> QED BY <1>1, <1>3 DEF BufferInv, BodyInv, IsSeq

(* It stays there, or is behind it.                                          *)
LEMMA PartGoesOn ==
    ASSUME NEW f, NEW a, NEW v, NEW u, NEW m, NEW j, Here(f, a, v, u, m, j), j < m,
           NEW i, i = j + 1, NEW p, p = f.parts[i], sends' = sends, body' = body,
           Room(j)', InPart(p, a[j], v[j], u[j])'
    PROVE  StreamInv' /\ RunInv'
<1>1. j \in 0..m /\ m = Len(f.parts)
  BY DEF Here
<1>2. Place(f, a, v, u, j)'
  BY <1>1 DEF Place
<1>3. StreamInv' /\ pc' # "run"
  BY <1>1, <1>2, HereAgain
<1> QED BY <1>3 DEF RunInv

LEMMA PartIsOver ==
    ASSUME NEW f, NEW a, NEW v, NEW u, NEW m, NEW j, Here(f, a, v, u, m, j), j < m,
           NEW i, i = j + 1, NEW p, p = f.parts[i], sends' = sends, body' = body,
           Room(i)', Between(a[i], v[j] \o ParmOf(p), u[j] \o FileOf(p))'
    PROVE  StreamInv' /\ RunInv'
<1>1. i \in 0..m /\ v[i] = v[j] \o ParmOf(p) /\ u[i] = u[j] \o FileOf(p)
  <2>1. i \in 0..m /\ Adds(v, j, i, ParmOf(p)) /\ Adds(u, j, i, FileOf(p))
    BY HerePart
  <2> QED BY <2>1 DEF Adds
<1>2. Place(f, a, v, u, i)'
  BY <1>1 DEF Place
<1>3. StreamInv' /\ pc' # "run"
  BY <1>1, <1>2, HereAgain
<1> QED BY <1>3 DEF RunInv

LEMMA MoreRoom ==
    ASSUME BufferInv', body' = body, NEW j \in Nat, NEW i, i = j + 1, Room(j)' PROVE Room(i)'
<1>1. PICK n \in Nat, r \in Int, y \in Nat : n = Len(body') /\ r = remaining' /\ y = 2 * j
  BY DEF BufferInv, BodyInv, IsSeq
<1>2. 2 * i = y + 2
  BY <1>1
<1>3. IF pos' < n THEN r + y >= n ELSE r <= 0
  BY <1>1 DEF Room
<1>4. IF pos' < n THEN r + (y + 2) >= n ELSE r <= 0
  BY <1>1, <1>3
<1> QED BY <1>1, <1>2, <1>4 DEF Room

LEMMA FormHeader ==
    ASSUME BufferInv, BufferInv', StreamInv, sends \in Inputs, ~Odd, ~Odd', HeaderLine
    PROVE  StreamInv' /\ RunInv'
<1>1. pc \in Streaming /\ pc = "headers" /\ sends' = sends
  BY DEF HeaderLine, Streaming
<1>2. PICK f, a, v, u, m, j : Here(f, a, v, u, m, j)
  BY <1>1, HereIs
<1>3. PICK i, p, t, w, x : i = j + 1 /\ p = f.parts[i] /\ t = a[j] /\ w = v[j] /\ x = u[j]
  OBVIOUS
<1>4. j < m /\ InPart(p, t, w, x) /\ IsSeq(sends.args) /\ Len(body) \in Nat
  BY <1>1, <1>2, <1>3, InPartFacts
<1>5. m \in Nat /\ j \in Nat /\ Room(j) /\ t \in Nat /\ IsSeq(w) /\ IsSeq(x)
  BY <1>2, <1>3, HereFacts
<1>6. PartHere(body, t, p, a[i])
  BY <1>2, <1>3, <1>4, HerePart
<1>7. InHeaders(p, t, w, x)
  BY <1>1, <1>4 DEF InPart, InValue, InFile
<1>8. /\ body' = body /\ Room(j)'
      /\ PassedOver(p, t, w, x)' \/ InHeaders(p, t, w, x)' \/ InValue(p, t, w, x)' \/ InFile(p, t, w, x)'
  BY <1>4, <1>5, <1>6, <1>7, HeaderStep
<1>9. CASE InPart(p, t, w, x)'
  BY <1>1, <1>2, <1>3, <1>4, <1>8, <1>9, PartGoesOn
<1>10. CASE PassedOver(p, t, w, x)'
  <2>1. Between(a[i], w \o ParmOf(p), x \o FileOf(p))'
    BY <1>4, <1>5, <1>6, <1>8, <1>10, PassedStep
  <2>2. Room(i)'
    BY <1>3, <1>5, <1>8, MoreRoom
  <2> QED BY <1>1, <1>2, <1>3, <1>4, <1>8, <2>1, <2>2, PartIsOver
<1> QED BY <1>8, <1>9, <1>10 DEF InPart

LEMMA FormTmpFile ==
    ASSUME BufferInv, StreamInv, sends \in Inputs, ~Odd, TmpFile PROVE StreamInv' /\ RunInv'
<1>1. pc \in Streaming /\ pc = "tmpfile" /\ sends' = sends
  BY DEF TmpFile, Streaming
<1>2. PICK f, a, v, u, m, j : Here(f, a, v, u, m, j)
  BY <1>1, HereIs
<1>3. PICK i, p, t, w, x : i = j + 1 /\ p = f.parts[i] /\ t = a[j] /\ w = v[j] /\ x = u[j]
  OBVIOUS
<1>4. j < m /\ InPart(p, t, w, x)
  BY <1>1, <1>2, <1>3, InPartFacts
<1>5. m \in Nat /\ j \in Nat /\ Room(j) /\ t \in Nat
  BY <1>2, <1>3, HereFacts
<1>6. InFile(p, t, w, x)
  BY <1>1, <1>4 DEF InPart, InValue, InHeaders
<1>7. pc' = "cleanup" \/ (body' = body /\ Room(j)' /\ InFile(p, t, w, x)')
  BY <1>5, <1>6, TmpFileStep
<1>8. CASE pc' = "cleanup"
  BY <1>8 DEF StreamInv, RunInv, Streaming
<1>9. CASE body' = body /\ Room(j)' /\ InFile(p, t, w, x)'
  <2>1. InPart(p, t, w, x)'
    BY <1>9 DEF InPart
  <2> QED BY <1>1, <1>2, <1>3, <1>4, <1>9, <2>1, PartGoesOn
<1> QED BY <1>7, <1>8, <1>9

LEMMA FormMozilla ==
    ASSUME BufferInv, StreamInv, sends \in Inputs, ~Odd, ~Odd', MozillaCheck PROVE StreamInv' /\ RunInv'
<1>1. pc \in Streaming /\ pc = "mozilla" /\ sends' = sends
  BY DEF MozillaCheck, Streaming
<1>2. PICK f, a, v, u, m, j : Here(f, a, v, u, m, j)
  BY <1>1, HereIs
<1>3. PICK i, p, t, w, x : i = j + 1 /\ p = f.parts[i] /\ t = a[j] /\ w = v[j] /\ x = u[j]
  OBVIOUS
<1>4. j < m /\ InPart(p, t, w, x) /\ IsSeq(sends.args)
  BY <1>1, <1>2, <1>3, InPartFacts
<1>5. m \in Nat /\ j \in Nat /\ Room(j) /\ t \in Nat /\ IsSeq(w) /\ IsSeq(x)
  BY <1>2, <1>3, HereFacts
<1>6. PartHere(body, t, p, a[i]) /\ i \in Nat
  BY <1>2, <1>3, <1>4, HerePart
<1>7. InFile(p, t, w, x)
  BY <1>1, <1>4 DEF InPart, InValue, InHeaders
<1>8. /\ body' = body
      /\ \/ Room(j)' /\ InFile(p, t, w, x)'
         \/ Room(i)' /\ Between(a[i], w \o ParmOf(p), x \o FileOf(p))'
  BY <1>3, <1>4, <1>5, <1>6, <1>7, MozillaStep
<1>9. CASE Room(j)' /\ InFile(p, t, w, x)'
  <2>1. InPart(p, t, w, x)'
    BY <1>9 DEF InPart
  <2> QED BY <1>1, <1>2, <1>3, <1>4, <1>8, <1>9, <2>1, PartGoesOn
<1>10. CASE Room(i)' /\ Between(a[i], w \o ParmOf(p), x \o FileOf(p))'
  BY <1>1, <1>2, <1>3, <1>4, <1>8, <1>10, PartIsOver
<1> QED BY <1>8, <1>9, <1>10

LEMMA FormRead ==
    ASSUME BufferInv, BufferInv', StreamInv, sends \in Inputs, ~Odd, ~Odd', ReadValue \/ ReadFile
    PROVE  StreamInv' /\ RunInv'
<1>1. pc \in Streaming /\ pc \in {"value", "file"} /\ sends' = sends /\ body' = body
  BY DEF ReadValue, ReadFile, Streaming
<1>2. PICK f, a, v, u, m, j : Here(f, a, v, u, m, j)
  BY <1>1, HereIs
<1>3. PICK i, p, t, w, x : i = j + 1 /\ p = f.parts[i] /\ t = a[j] /\ w = v[j] /\ x = u[j]
  OBVIOUS
<1>4. j < m /\ InPart(p, t, w, x) /\ IsSeq(sends.args)
  BY <1>1, <1>2, <1>3, InPartFacts
<1>5. m \in Nat /\ j \in Nat /\ Room(j) /\ t \in Nat /\ IsSeq(w) /\ IsSeq(x)
  BY <1>2, <1>3, HereFacts
<1>6. PartHere(body, t, p, a[i]) /\ a[i] >= 7 * j
  BY <1>2, <1>3, <1>4, HerePart
<1>7. Room(j)' /\ (InPart(p, t, w, x)' \/ Between(a[i], w \o ParmOf(p), x \o FileOf(p))')
  <2>1. CASE ReadValue
    <3>1. InValue(p, t, w, x)
      BY <1>4, <2>1 DEF ReadValue, InPart, InFile, InHeaders
    <3>2. Room(j)' /\ (InValue(p, t, w, x)' \/ Between(a[i], w \o ParmOf(p), x \o FileOf(p))')
      BY <1>4, <1>5, <1>6, <2>1, <3>1, ValueStep
    <3> QED BY <3>2 DEF InPart
  <2>2. CASE ReadFile
    <3>1. InFile(p, t, w, x)
      BY <1>4, <2>2 DEF ReadFile, InPart, InValue, InHeaders
    <3>2. Room(j)' /\ (InFile(p, t, w, x)' \/ Between(a[i], w \o ParmOf(p), x \o FileOf(p))')
      BY <1>4, <1>5, <1>6, <2>2, <3>1, FileStep
    <3> QED BY <3>2 DEF InPart
  <2> QED BY <2>1, <2>2
<1>8. CASE InPart(p, t, w, x)'
  BY <1>1, <1>2, <1>3, <1>4, <1>7, <1>8, PartGoesOn
<1>9. CASE Between(a[i], w \o ParmOf(p), x \o FileOf(p))'
  <2>1. Room(i)'
    BY <1>1, <1>3, <1>5, <1>7, MoreRoom
  <2> QED BY <1>1, <1>2, <1>3, <1>4, <1>9, <2>1, PartIsOver
<1> QED BY <1>7, <1>8, <1>9

(* What can go wrong with a body does not become right.                      *)
LEMMA OddStays == ASSUME Parse, ~Odd' PROVE ~Odd
<1>1. CASE ParseArgs \/ TmpFile \/ WriteFails
  BY <1>1 DEF ParseArgs, TmpFile, WriteFails, oddVars, Odd
<1>2. CASE UtilRead \/ AtEof
  BY <1>2 DEF UtilRead, AtEof, Watch, Odd
<1>3. CASE FindBoundary \/ HeaderLine
  <2>1. edge' = edge /\ \E k : WatchLine(k)
    BY <1>3 DEF FindBoundary, HeaderLine
  <2> QED BY <2>1 DEF WatchLine, Watch, Odd
<1>4. CASE MozillaCheck
  <2>1. cut' = cut /\ (edge => edge') /\ \E wanted, k : Watch(wanted, k)
    BY <1>4 DEF MozillaCheck
  <2> QED BY <2>1 DEF Watch, Odd
<1>5. CASE ReadValue \/ ReadFile
  <2>1. cut' = cut /\ \E k : Reading(k)
    BY <1>5 DEF ReadValue, ReadFile
  <2> QED BY <2>1 DEF Reading, Watch, Odd
<1> QED BY <1>1, <1>2, <1>3, <1>4, <1>5 DEF Parse

(* A request without a form has no files.                                    *)
LEMMA NoFiles == FormFiles(NoForm) = <<>>
<1>1. PICK ss : ss = [i \in 1..0 |-> FileOf(NoForm.parts[i])]
  OBVIOUS
<1>2. DOMAIN NoForm.parts = 1..0
  BY DEF NoForm
<1>3. FormFiles(NoForm) = FlattenSeq(ss)
  BY <1>1, <1>2 DEF FormFiles
<1>4. PICK g : JoinedUpTo(g, ss, 0)
  <2>1. ss = [i \in 1..0 |-> ss[i]] /\ (\A i \in 1..0 : ss[i] = <<>> \/ ss[i] = <<ss[i][1]>>) /\ 0 \in Nat
    BY <1>1
  <2> QED BY <2>1, SmallJoined
<1> QED BY <1>3, <1>4 DEF JoinedUpTo

LEMMA SentFiles ==
    ASSUME sends \in Inputs
    PROVE  /\ IsSeq(FormFiles(sends.form)) /\ IsSeq(sends.args) /\ IsSeq(sends.vars)
           /\ sends.kind = "multipart" => sends.form \in Forms
           /\ sends.kind # "multipart" => FormFiles(sends.form) = <<>>
           /\ sends.kind = "get" => sends.vars = <<>>
           /\ sends.kind \in {"multipart", "urlencoded", "get"}
<1>1. \/ sends.kind = "multipart" /\ sends.form \in Forms /\ sends.args \in Queries /\ sends.vars = <<>>
      \/ sends.kind = "urlencoded" /\ sends.form = NoForm /\ sends.args \in Queries /\ sends.vars \in Queries
      \/ sends.kind = "get" /\ sends.form = NoForm /\ sends.args \in Queries /\ sends.vars = <<>>
  BY DEF Inputs, Sent
<1>2. IsSeq(sends.args) /\ IsSeq(sends.vars)
  BY <1>1, SentIsSeq, EmptyIsSeq
<1>3. ASSUME sends.form \in Forms PROVE IsSeq(FormFiles(sends.form))
  <2>1. PICK f \in Forms : f = sends.form
    BY <1>3
  <2>2. PICK m \in Nat : m = Len(f.parts)
    BY FormTyped DEF IsSeq
  <2>3. PICK u : JoinedUpTo(u, [i \in DOMAIN f.parts |-> FileOf(f.parts[i])], m)
    BY <2>2, FilesJoined
  <2>4. m \in 0..m
    OBVIOUS
  <2>5. IsSeq(u[m]) /\ FormFiles(f) = u[m]
    BY <2>3, <2>4 DEF JoinedUpTo, FormFiles
  <2> QED BY <2>1, <2>5
<1>4. ASSUME sends.form = NoForm PROVE FormFiles(sends.form) = <<>> /\ IsSeq(FormFiles(sends.form))
  BY <1>4, NoFiles, EmptyIsSeq
<1> QED BY <1>1, <1>2, <1>3, <1>4

(* The page of a request without a form.                                     *)
LEMMA PlainRead ==
    ASSUME sends \in Inputs, sends' = sends, sends.kind # "multipart", pc' \in {"run", "cleanup"},
           parms' = sends.args \o sends.vars, uploads' = <<>>
    PROVE  StreamInv' /\ RunInv'
<1>1. SentParms' = sends.args \o sends.vars
  BY SentFiles DEF SentParms
<1>2. SameUploads(<<>>, <<>>)
  BY EmptyIsSeq DEF SameUploads
<1>3. SameUploads(uploads', FormFiles(sends'.form))
  BY <1>2, SentFiles
<1> QED BY <1>1, <1>3 DEF StreamInv, RunInv, Streaming

(* Before the body is read; and while a body that is no form is read.        *)
StartInv ==
    pc = "parse" =>
        /\ body = IF sends.kind = "multipart" THEN Encode(sends.form) ELSE sends.vars
        /\ pos = 0 /\ remaining = Len(body) /\ uploads = <<>>
PlainInv ==
    pc = "util_read" /\ ~Odd =>
        /\ sends.kind = "urlencoded" /\ body = sends.vars /\ parms = sends.args /\ uploads = <<>>
        /\ pos < Len(body) => remaining = Len(body)

LEMMA FormUtilRead ==
    ASSUME BufferInv, sends \in Inputs, PlainInv, ~Odd, ~Odd', UtilRead
    PROVE  StreamInv' /\ RunInv' /\ PlainInv'
<1>1. PICK n \in Nat : n = Len(body) /\ pos \in 0..n /\ remaining \in Int /\ IsSeq(body) /\ BodyInv
  BY DEF BufferInv, BodyInv, IsSeq
<1>2. /\ sends.kind = "urlencoded" /\ body = sends.vars /\ parms = sends.args /\ uploads = <<>>
      /\ pos < n => remaining = n
      /\ pc = "util_read" /\ sends' = sends /\ uploads' = <<>>
  BY <1>1 DEF PlainInv, UtilRead
<1>3. PICK k \in Blocks(Len(body)) :
         /\ Watch(Len(body), k)
         /\ \/ k > 0 /\ Received(k) /\ UNCHANGED <<pc, body, parms>>
            \/ ~(k > 0) /\ parms' = parms \o SubSeq(body, 1, pos) /\ Parsed("ok")
  BY DEF UtilRead
<1>4. k \in 0..(n - pos)
  BY <1>1, <1>3, BlocksFacts
<1>5. CASE k > 0 /\ Received(k) /\ UNCHANGED <<pc, body, parms>>
  <2>1. pos' = pos + k /\ remaining' = IF k > 0 /\ pos + k = n THEN 0 ELSE remaining
    BY <1>1, <1>5 DEF Received, Left
  <2>2. pos' < n => remaining' = n
    BY <1>1, <1>2, <1>4, <1>5, <2>1
  <2>3. PlainInv'
    BY <1>1, <1>2, <1>5, <2>2 DEF PlainInv
  <2> QED BY <1>2, <1>5, <2>3 DEF StreamInv, RunInv, Streaming
<1>6. CASE ~(k > 0) /\ parms' = parms \o SubSeq(body, 1, pos) /\ Parsed("ok")
  <2>1. k = 0
    BY <1>1, <1>4, <1>6
  <2>2. pos = n
    <3> SUFFICES ASSUME pos < n PROVE FALSE
      BY <1>1
    <3>1. remaining = n /\ n > 0
      BY <1>1, <1>2
    <3>2. lost' = (lost \/ (k = 0 /\ n > 0 /\ remaining > 0))
      BY <1>1, <1>3 DEF Watch
    <3> QED BY <2>1, <3>1, <3>2 DEF Odd
  <2>3. SubSeq(body, 1, pos) = body
    <3>1. n \in 0..Len(body) /\ SubSeq(body, 1, n) = Piece(body, 0, n)
      BY <1>1, SubSeqIsPiece
    <3>2. IsSeq(Piece(body, 0, n)) /\ Len(Piece(body, 0, n)) = n
      <4>1. 0 <= n /\ n - 0 = n /\ n \in Int /\ 0 \in Int
        OBVIOUS
      <4> QED BY <4>1, PieceIsSeq
    <3>3. ASSUME NEW i \in 1..n PROVE Piece(body, 0, n)[i] = body[i]
      <4>1. i \in 1..(n - 0) /\ 0 + i = i
        OBVIOUS
      <4> QED BY <4>1, PieceElement
    <3>4. Piece(body, 0, n) = body
      BY <1>1, <3>2, <3>3, SameSeq
    <3> QED BY <2>2, <3>1, <3>4
  <2>4. parms' = sends.args \o sends.vars
    BY <1>2, <1>6, <2>3
  <2>5. pc' \in {"run", "cleanup"}
    BY <1>6 DEF Parsed
  <2>6. StreamInv' /\ RunInv'
    BY <1>2, <2>4, <2>5, PlainRead
  <2> QED BY <2>5, <2>6 DEF PlainInv
<1> QED BY <1>3, <1>5, <1>6

LEMMA FormParseArgs ==
    ASSUME sends \in Inputs, BufferInv, StartInv, ParseArgs
    PROVE  StreamInv' /\ RunInv' /\ PlainInv'
<1>1. /\ pc = "parse" /\ sends' = sends /\ uploads' = uploads /\ parms' = sends.args
      /\ body = IF sends.kind = "multipart" THEN Encode(sends.form) ELSE sends.vars
      /\ pos = 0 /\ remaining = Len(body) /\ uploads = <<>>
  BY DEF StartInv, ParseArgs
<1>2. \/ (sends.kind = "get" \/ Len(body) = 0) /\ Parsed("ok")
      \/ Parsed("refused") \/ Parsed("too large")
      \/ /\ sends.kind # "get" /\ Len(body) > 0
         /\ pc' = (IF sends.kind = "multipart" THEN "eof" ELSE "util_read")
         /\ buf' = NewBuffer /\ UNCHANGED <<body, pos, remaining>>
  BY DEF ParseArgs
<1>3. PICK n \in Nat : n = Len(body)
  BY DEF BufferInv, BodyInv, IsSeq
<1>4. ASSUME sends.kind = "multipart"
      PROVE  \E f, a, v, u : f \in Forms /\ f = sends.form /\ Laid(f, body, a, v, u)
  <2>1. PICK f \in Forms : f = sends.form
    BY <1>4, SentFiles
  <2>2. PICK a : PartsLie(f, body, a)
    BY <1>1, <1>4, <2>1, FormLies
  <2>3. PICK v : JoinedUpTo(v, [i \in DOMAIN f.parts |-> ParmOf(f.parts[i])], Len(f.parts))
    BY ParmsJoined
  <2>4. PICK u : JoinedUpTo(u, [i \in DOMAIN f.parts |-> FileOf(f.parts[i])], Len(f.parts))
    BY FilesJoined
  <2>5. Laid(f, body, a, v, u)
    BY <2>2, <2>3, <2>4 DEF Laid
  <2> QED BY <2>1, <2>5
<1>5. ASSUME NEW f \in Forms, NEW a, NEW v, NEW u, Laid(f, body, a, v, u)
      PROVE  /\ Len(f.parts) \in Nat /\ n >= 7 /\ LinesUntil(body, 0, a[0]) /\ v[0] = <<>> /\ u[0] = <<>>
  <2>m. PICK m \in Nat : m = Len(f.parts)
    BY FormTyped DEF IsSeq
  <2>1. m = Len(f.parts) /\ 0 \in 0..m
    BY <2>m
  <2>2. PartsLie(f, body, a) /\ v[0] = <<>> /\ u[0] = <<>>
    BY <1>5 DEF Laid, JoinedUpTo
  <2>3. a[0] \in Nat /\ a[0] + 7 <= n /\ LinesUntil(body, 0, a[0])
    BY <1>3, <2>1, <2>2 DEF PartsLie
  <2> QED BY <2>1, <2>2, <2>3
<1>6. CASE (sends.kind = "get" \/ Len(body) = 0) /\ Parsed("ok")
  <2>1. sends.kind # "multipart"
    BY <1>3, <1>4, <1>5, <1>6
  <2>2. sends.vars = <<>>
    <3>1. CASE sends.kind = "get"
      BY <3>1, SentFiles
    <3>2. CASE Len(body) = 0
      <4>1. IsSeq(sends.vars) /\ Len(sends.vars) = 0
        BY <1>1, <2>1, <3>2, SentFiles
      <4> QED BY <4>1, EmptyIsSeq, SameSeq
    <3> QED BY <1>6, <3>1, <3>2
  <2>3. parms' = sends.args \o sends.vars
    BY <1>1, <2>2, ConcatEmpty, SentFiles
  <2>4. pc' \in {"run", "cleanup"}
    BY <1>6 DEF Parsed
  <2>5. StreamInv' /\ RunInv'
    BY <1>1, <2>1, <2>3, <2>4, PlainRead
  <2> QED BY <2>4, <2>5 DEF PlainInv
<1>7. CASE Parsed("refused") \/ Parsed("too large")
  <2>1. pc' = "cleanup"
    BY <1>7 DEF Parsed
  <2> QED BY <2>1 DEF StreamInv, RunInv, PlainInv, Streaming
<1>8. CASE /\ sends.kind # "get" /\ Len(body) > 0
           /\ pc' = (IF sends.kind = "multipart" THEN "eof" ELSE "util_read")
           /\ buf' = NewBuffer /\ UNCHANGED <<body, pos, remaining>>
  <2>1. CASE sends.kind = "multipart"
    <3>1. PICK f, a, v, u : f \in Forms /\ f = sends.form /\ Laid(f, body, a, v, u)
      BY <1>4, <2>1
    <3>2. Len(f.parts) \in Nat /\ n >= 7 /\ LinesUntil(body, 0, a[0]) /\ v[0] = <<>> /\ u[0] = <<>>
      BY <1>5, <3>1
    <3>3. pc' = "eof" /\ body' = body /\ pos' = 0 /\ remaining' = Len(body) /\ Taken' = 0
      <4>1. Taken' = 0 - 0
        BY <1>1, <1>8, NewBufferOK DEF Taken
      <4> QED BY <1>1, <1>8, <2>1, <4>1
    <3>4. Room(0)'
      <4>1. n + 2 * 0 >= n
        OBVIOUS
      <4> QED BY <1>3, <3>2, <3>3, <4>1 DEF Room
    <3>5. ReadSoFar(v[0], u[0])'
      <4>1. sends.args \o <<>> = sends.args
        BY ConcatEmpty, SentFiles
      <4>2. SameUploads(<<>>, <<>>)
        BY EmptyIsSeq DEF SameUploads
      <4> QED BY <1>1, <3>2, <4>1, <4>2 DEF ReadSoFar
    <3>6. Between(a[0], v[0], u[0])'
      BY <3>2, <3>3, <3>5 DEF Between
    <3>7. Place(f, a, v, u, 0)'
      BY <3>4, <3>6 DEF Place
    <3>8. StreamInv'
      <4>1. 0 \in 0..Len(f.parts) /\ Laid(f, body', a, v, u)
        BY <3>1, <3>2, <3>3
      <4>2. sends'.kind = "multipart" /\ sends'.form = f /\ f \in Forms
        BY <1>1, <2>1, <3>1
      <4> QED BY <3>7, <4>1, <4>2 DEF StreamInv
    <3> QED BY <3>3, <3>8 DEF RunInv, PlainInv
  <2>2. CASE sends.kind # "multipart"
    <3>1. sends.kind = "urlencoded" /\ pc' = "util_read"
      BY <1>8, <2>2, SentFiles
    <3>2. PlainInv'
      BY <1>1, <1>8, <2>2, <3>1 DEF PlainInv
    <3> QED BY <3>1, <3>2 DEF StreamInv, RunInv, Streaming
  <2> QED BY <2>1, <2>2
<1> QED BY <1>2, <1>6, <1>7, <1>8

(* The form is read as it was sent, in every state.                          *)
FormInv ==
    /\ pc # "idle" => sends \in Inputs
    /\ StartInv /\ PlainInv /\ StreamInv /\ RunInv /\ SavedAsSent

LEMMA InitForm == Init => FormInv
<1> SUFFICES ASSUME Init PROVE FormInv
  OBVIOUS
<1>1. pc = "idle" /\ saved = {}
  BY DEF Init, BodyInit
<1> QED
  BY <1>1 DEF FormInv, StartInv, PlainInv, StreamInv, RunInv, SavedAsSent, Streaming

(* Which upload a name stands for.                                           *)
LEMMA UploadChosen ==
    ASSUME IsSeq(uploads), NEW name \in Range(UploadNames),
           NEW i, i = UploadIndex(name)
    PROVE  i \in 1..Len(uploads) /\ uploads[i].name = name
<1>1. Len(uploads) \in Nat /\ DOMAIN uploads = 1..Len(uploads)
  BY DEF IsSeq
<1>2. PICK n \in Nat : n = Len(uploads) /\ DOMAIN uploads = 1..n
  BY <1>1
<1> DEFINE T == {k \in 1..n : uploads[k].name = name}
<1>3. PICK k \in 1..n : uploads[k].name = name
  <2>1. PICK k \in DOMAIN UploadNames : UploadNames[k] = name
    BY DEF Range
  <2>2. k \in DOMAIN uploads /\ UploadNames[k] = uploads[k].name
    BY <2>1 DEF UploadNames
  <2> QED BY <1>2, <2>1, <2>2
<1>4. T # {} /\ T \subseteq Nat
  BY <1>2, <1>3
<1>5. PICK least \in T : \A k2 \in T : least <= k2
  BY <1>4, LeastNat
<1>6. least \in 1..n /\ uploads[least].name = name
  BY <1>5
<1>7. ASSUME NEW j \in 1..(least - 1) PROVE uploads[j].name # name
  <2>1. j \in 1..n /\ ~(least <= j)
    BY <1>2, <1>6, <1>7
  <2> QED BY <1>5, <2>1
<1>8. i = CHOOSE h \in DOMAIN uploads :
             uploads[h].name = name /\ \A j \in 1..(h - 1) : uploads[j].name # name
  BY DEF UploadIndex
<1>9. \E h \in DOMAIN uploads :
         uploads[h].name = name /\ \A j \in 1..(h - 1) : uploads[j].name # name
  BY <1>2, <1>6, <1>7
<1>10. i \in DOMAIN uploads /\ uploads[i].name = name
  BY <1>8, <1>9
<1> QED BY <1>2, <1>10

(* The upload of a page is a file that the client sent.                      *)
LEMMA UploadSent ==
    ASSUME NEW x, IsSeq(x), SameUploads(uploads, x), NEW name \in Range(UploadNames),
           NEW i, i = UploadIndex(name)
    PROVE  i \in 1..Len(uploads) /\ i \in DOMAIN x /\ x[i].name = name /\ x[i].data = uploads[i].data
<1>1. IsSeq(uploads) /\ Len(uploads) = Len(x) /\ DOMAIN x = 1..Len(x)
  BY DEF SameUploads, IsSeq
<1>2. i \in 1..Len(uploads) /\ uploads[i].name = name
  BY <1>1, UploadChosen
<1>3. SameUpload(uploads[i], x[i])
  BY <1>1, <1>2 DEF SameUploads
<1> QED BY <1>1, <1>2, <1>3 DEF SameUpload

LEMMA FormSaved ==
    ASSUME sends \in Inputs, RunInv, SavedAsSent, NEW name, UploadSave(name)
    PROVE  SavedAsSent'
<1>1. PICK x : x = FormFiles(sends.form)
  OBVIOUS
<1>2. pc = "run" /\ ~Odd /\ name \in Range(UploadNames)
      /\ saved' = saved \cup {[name |-> name, data |-> uploads[UploadIndex(name)].data]}
  BY DEF UploadSave, Runs, Odd
<1>3. SameUploads(uploads, x) /\ IsSeq(x)
  BY <1>1, <1>2, SentFiles DEF RunInv
<1>4. PICK i : i = UploadIndex(name)
  OBVIOUS
<1>5. i \in DOMAIN x /\ x[i].name = name /\ x[i].data = uploads[i].data
  BY <1>2, <1>3, <1>4, UploadSent
<1>6. sends.form \in Forms
  <2>1. x # <<>>
    <3> SUFFICES ASSUME x = <<>> PROVE FALSE
      OBVIOUS
    <3>1. Len(x) = 0 /\ DOMAIN x = 1..0
      BY <1>3 DEF IsSeq
    <3> QED BY <1>5, <3>1
  <2> QED BY <1>1, <2>1, SentFiles
<1> SUFFICES ASSUME NEW s \in saved'
             PROVE  \E f \in Forms : \E h \in DOMAIN FormFiles(f) :
                       FormFiles(f)[h].name = s.name /\ FormFiles(f)[h].data = s.data
  BY DEF SavedAsSent
<1>7. CASE s \in saved
  BY <1>7 DEF SavedAsSent
<1>8. CASE s = [name |-> name, data |-> uploads[i].data]
  <2>1. s.name = name /\ s.data = uploads[i].data
    BY <1>8
  <2>2. FormFiles(sends.form)[i].name = s.name /\ FormFiles(sends.form)[i].data = s.data
        /\ i \in DOMAIN FormFiles(sends.form)
    BY <1>1, <1>5, <2>1
  <2> QED BY <1>6, <2>2
<1> QED BY <1>2, <1>4, <1>7, <1>8

LEMMA ParsePlaces ==
    ASSUME Parse
    PROVE  pc # "idle" /\ sends' = sends /\ pc' # "parse" /\ (ParseArgs \/ UtilRead \/ pc' # "util_read")
<1>0. ASSUME NEW code, Parsed(code) PROVE pc' \in {"run", "cleanup"}
  BY <1>0 DEF Parsed
<1>1. CASE ParseArgs
  <2>1. pc = "parse" /\ sends' = sends
    BY <1>1 DEF ParseArgs
  <2>2. pc' \in {"run", "cleanup", "eof", "util_read"}
    BY <1>0, <1>1 DEF ParseArgs
  <2> QED BY <1>1, <2>1, <2>2
<1>2. CASE UtilRead
  BY <1>0, <1>2 DEF UtilRead
<1>3. CASE AtEof \/ FindBoundary
  BY <1>0, <1>3 DEF AtEof, FindBoundary
<1>4. CASE HeaderLine
  <2>1. pc = "headers" /\ sends' = sends /\ (pc' = pc \/ Dispatch(hdr))
    BY <1>4 DEF HeaderLine
  <2>2. Dispatch(hdr) => pc' \in {"eof", "value", "tmpfile"}
    BY DEF Dispatch
  <2> QED BY <2>1, <2>2
<1>5. CASE TmpFile \/ WriteFails
  BY <1>0, <1>5 DEF TmpFile, WriteFails
<1>6. CASE MozillaCheck \/ ReadValue \/ ReadFile
  BY <1>6 DEF MozillaCheck, ReadValue, ReadFile
<1> QED BY <1>1, <1>2, <1>3, <1>4, <1>5, <1>6 DEF Parse

(* What goes wrong stays wrong until the request is over; a step of the      *)
(* parser that goes well keeps what is read so far, or lets the page run.    *)
LEMMA FormParse ==
    ASSUME BufferInv, BufferInv', FormInv, Parse
    PROVE  PlainInv' /\ StreamInv' /\ RunInv'
<1>1. CASE Odd'
  BY <1>1 DEF PlainInv, StreamInv, RunInv, Odd
<1>2. CASE ~Odd'
  <2>1. ~Odd
    BY <1>2, OddStays
  <2>2. pc # "idle" /\ (ParseArgs \/ UtilRead \/ pc' # "util_read")
    BY ParsePlaces
  <2>3. sends \in Inputs /\ StartInv /\ PlainInv /\ StreamInv /\ RunInv
    BY <2>2 DEF FormInv
  <2>4. CASE ParseArgs
    BY <2>3, <2>4, FormParseArgs
  <2>5. CASE UtilRead
    BY <1>2, <2>1, <2>3, <2>5, FormUtilRead
  <2>6. CASE AtEof \/ FindBoundary \/ HeaderLine \/ TmpFile \/ MozillaCheck \/ ReadValue \/ ReadFile
    <3>1. StreamInv' /\ RunInv'
      BY <1>2, <2>1, <2>3, <2>6, FormAtEof, FormBoundary, FormHeader, FormTmpFile, FormMozilla, FormRead
    <3>2. pc' # "util_read"
      BY <2>2, <2>6 DEF ParseArgs, UtilRead, AtEof, FindBoundary, HeaderLine, TmpFile,
                        MozillaCheck, ReadValue, ReadFile
    <3> QED BY <3>1, <3>2 DEF PlainInv
  <2>7. CASE WriteFails
    <3>1. pc' = "cleanup"
      BY <2>7 DEF WriteFails, Parsed
    <3> QED BY <3>1 DEF PlainInv, StreamInv, RunInv, Streaming
  <2> QED BY <2>4, <2>5, <2>6, <2>7 DEF Parse
<1> QED BY <1>1, <1>2

LEMMA PlaceKept ==
    ASSUME UNCHANGED bodyVars, NEW f, NEW a, NEW v, NEW u, NEW j, Place(f, a, v, u, j)
    PROVE  Place(f, a, v, u, j)'
<1>1. /\ pc' = pc /\ sends' = sends /\ body' = body /\ pos' = pos /\ remaining' = remaining
      /\ uploads' = uploads /\ parms' = parms /\ buf' = buf /\ hdr' = hdr
  BY DEF bodyVars, bufVars, parmVars
<1>2. Room(j)' <=> Room(j)
  BY <1>1 DEF Room
<1>3. Taken' = Taken
  BY <1>1 DEF Taken
<1>4. CASE Between(a[j], v[j], u[j])
  BY <1>1, <1>2, <1>3, <1>4 DEF Between, ReadSoFar, Place
<1>5. CASE j < Len(f.parts) /\ InPart(f.parts[j + 1], a[j], v[j], u[j])
  <2>1. PICK p, t, w, x : p = f.parts[j + 1] /\ t = a[j] /\ w = v[j] /\ x = u[j]
    OBVIOUS
  <2>2. InHeaders(p, t, w, x) => InHeaders(p, t, w, x)'
    BY <1>1, <1>3 DEF InHeaders, ReadSoFar
  <2>3. InValue(p, t, w, x) => InValue(p, t, w, x)'
    BY <1>1, <1>3 DEF InValue
  <2>4. InFile(p, t, w, x) => InFile(p, t, w, x)'
    BY <1>1, <1>3 DEF InFile
  <2>5. InPart(p, t, w, x)'
    BY <1>5, <2>1, <2>2, <2>3, <2>4 DEF InPart
  <2> QED BY <1>2, <1>5, <2>1, <2>5 DEF Place
<1> QED BY <1>4, <1>5 DEF Place

LEMMA FormKept == ASSUME UNCHANGED bodyVars, StreamInv PROVE StreamInv'
<1>1. /\ pc' = pc /\ sends' = sends /\ body' = body
      /\ edge' = edge /\ cut' = cut /\ lost' = lost
  BY DEF bodyVars, bufVars, oddVars
<1>2. CASE pc \in Streaming /\ ~Odd
  <2>1. PICK f, a, v, u, m, j : Here(f, a, v, u, m, j)
    BY <1>2, HereIs
  <2>2. Place(f, a, v, u, j)' /\ j \in 0..m
    BY <2>1, PlaceKept DEF Here
  <2> QED BY <1>1, <2>1, <2>2, HereAgain
<1>3. CASE ~(pc \in Streaming /\ ~Odd)
  BY <1>1, <1>3 DEF StreamInv, Odd
<1> QED BY <1>2, <1>3

(* Only `upload save' saves a file.                                          *)
LEMMA SavedSteps == ASSUME [Next]_vars PROVE saved' = saved \/ \E name : UploadSave(name)
<1>1. CASE \E s \in Inputs, cs \in Charsets : BeginRequest(s, cs)
  BY <1>1 DEF BeginRequest, InitRequest
<1>2. CASE UNCHANGED saved
  BY <1>2
<1> QED
  BY <1>1, <1>2 DEF Next, vars, objVars, HeadersType, Puts, Flush, Configure, BinaryBegins,
     BinaryEnds, WriteBinary, Include, Env, TableSet, TableUnset, LoadEnv, EndPage, Done

LEMMA FormStep == ASSUME BufferInv, BufferInv', FormInv, [Next]_vars PROVE FormInv'
<1>1. ASSUME NEW s \in Inputs, NEW cs \in Charsets, BeginRequest(s, cs) PROVE FormInv'
  <2>1. /\ pc' = "parse" /\ sends' = s /\ pos' = 0 /\ remaining' = Len(body') /\ uploads' = <<>>
        /\ body' = IF s.kind = "multipart" THEN Encode(s.form) ELSE s.vars
    BY <1>1 DEF BeginRequest, Begin
  <2>2. saved' = saved
    BY <1>1 DEF BeginRequest, InitRequest
  <2>3. StartInv'
    BY <2>1 DEF StartInv
  <2>4. SavedAsSent'
    BY <2>2 DEF FormInv, SavedAsSent
  <2> QED BY <2>1, <2>3, <2>4 DEF FormInv, PlainInv, StreamInv, RunInv, Streaming
<1>2. CASE Parse /\ UNCHANGED objVars
  <2>1. pc # "idle" /\ sends' = sends /\ pc' # "parse"
    BY <1>2, ParsePlaces
  <2>2. SavedAsSent'
    BY <1>2 DEF objVars, FormInv, SavedAsSent
  <2>3. PlainInv' /\ StreamInv' /\ RunInv'
    BY <1>2, FormParse
  <2> QED BY <2>1, <2>2, <2>3 DEF FormInv, StartInv
<1>3. CASE EndPage
  <2>1. pc' = "idle" /\ saved' = saved
    BY <1>3 DEF EndPage, EndRequest
  <2>2. SavedAsSent'
    BY <2>1 DEF FormInv, SavedAsSent
  <2> QED BY <2>1, <2>2 DEF FormInv, StartInv, PlainInv, StreamInv, RunInv, Streaming
<1>4. CASE UNCHANGED bodyVars
  <2>1. SavedAsSent'
    <3>1. ASSUME NEW name, UploadSave(name) PROVE SavedAsSent'
      <4>1. pc = "run"
        BY <3>1 DEF UploadSave, Runs
      <4>2. sends \in Inputs /\ RunInv /\ SavedAsSent
        BY <4>1 DEF FormInv
      <4> QED BY <3>1, <4>2, FormSaved
    <3>2. CASE saved' = saved
      BY <3>2 DEF FormInv, SavedAsSent
    <3> QED BY <3>1, <3>2, SavedSteps
  <2>2. /\ pc' = pc /\ sends' = sends /\ body' = body /\ pos' = pos /\ remaining' = remaining
        /\ uploads' = uploads /\ parms' = parms
    BY <1>4 DEF bodyVars, bufVars, parmVars
  <2>3. StreamInv'
    BY <1>4, FormKept DEF FormInv
  <2>4. StartInv' /\ PlainInv' /\ RunInv'
    BY <1>4, <2>2 DEF FormInv, StartInv, PlainInv, RunInv, Odd, bodyVars, oddVars, SentParms
  <2> QED BY <2>1, <2>2, <2>3, <2>4 DEF FormInv
<1> QED BY <1>1, <1>2, <1>3, <1>4, BodySteps

(* What a page finds is what was sent.                                       *)
LEMMA ReadFaithful ==
    ASSUME FilesInv, FormInv, pc = "run", ~Odd PROVE ReadAsSent
<1>1. sends \in Inputs /\ parms = SentParms /\ SameUploads(uploads, FormFiles(sends.form))
  BY DEF FormInv, RunInv
<1>2. PICK x : x = FormFiles(sends.form)
  OBVIOUS
<1>3. IsSeq(x) /\ SameUploads(uploads, x)
  BY <1>1, <1>2, SentFiles
<1>4. PICK n \in Nat : n = Len(x) /\ DOMAIN x = 1..n /\ Len(uploads) = n /\ DOMAIN uploads = 1..n
  BY <1>3 DEF SameUploads, IsSeq
<1>5. FilesUpTo(Len(uploads))
  BY DEF FilesInv
<1>6. ASSUME NEW i \in DOMAIN uploads
      PROVE  uploads[i].name = x[i].name /\ uploads[i].filename = x[i].filename
             /\ uploads[i].data = x[i].data
  BY <1>3, <1>4, <1>6 DEF SameUploads, SameUpload
<1>7. ASSUME NEW name \in Range(UploadNames)
      PROVE  \E f \in Range(x) :
                /\ f.name = name /\ UploadSize(name) = Len(f.data)
                /\ UploadToVar => UploadData(name) = f.data
  <2>1. PICK i : i = UploadIndex(name)
    OBVIOUS
  <2>2. i \in 1..n /\ x[i].name = name /\ x[i].data = uploads[i].data
    BY <1>3, <1>4, <2>1, UploadSent
  <2>3. x[i] \in Range(x)
    BY <1>4, <2>2 DEF Range
  <2>4. UploadSize(name) = Len(x[i].data)
    BY <2>1, <2>2 DEF UploadSize
  <2>5. TempFile(name) \in tmp
    BY <1>4, <1>5, <2>1, <2>2 DEF FilesUpTo, TempFile
  <2>6. UploadToVar => UploadData(name) = x[i].data
    BY <2>1, <2>2, <2>5 DEF UploadData
  <2> QED BY <2>2, <2>3, <2>4, <2>6
<1> QED BY <1>1, <1>2, <1>4, <1>6, <1>7 DEF ReadAsSent

(* A body that is accepted is read as it was sent, however it comes and      *)
(* wherever the buffer begins anew; what a page saves is a file of a form.   *)
THEOREM SpecFormFaithful == Spec => []FormFaithful
<1>1. RequestInv => BufferInv /\ FilesInv
  BY DEF RequestInv, ObjInv
<1>2. FormInv /\ BufferInv /\ BufferInv' /\ [Next]_vars => FormInv'
  BY FormStep
<1>3. FormInv /\ FilesInv => FormFaithful
  BY ReadFaithful DEF FormInv, FormFaithful, Odd
<1> QED
  BY <1>1, <1>2, <1>3, InitForm, SpecRequestInv, PTL DEF Spec
=============================================================================
