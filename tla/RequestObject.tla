---------------------------- MODULE RequestObject ----------------------------
(* The request as the scripts of a page see it (TclWebapache.c) and the      *)
(* commands of rivetCore.c that read and change it: the variables and the    *)
(* uploads that BodyParser found, the headers of the response, the           *)
(* environment, and the settings of the output channel.                      *)
(*                                                                           *)
(* The requests are those of one Tcl thread, one after the other; the page   *)
(* of a request is an arbitrary sequence of at most MaxCommands commands.  A *)
(* request whose body was not read as it was sent (edge, cut, lost) has a    *)
(* page without commands: nothing is said of it but what BodyParser says.    *)
EXTENDS BodyParser

CONSTANTS
    Charsets,      \* charsets AddType may name, None is no charset
    Encodings,     \* encodings Tcl knows
    Types,         \* content types a script sets
    EnvGroup,      \* environment variables: "header", "common", "cgi", "vars" or "own"
    UploadToVar,   \* UploadFilesToVar
    MaxCommands    \* bound: commands of a page

ASSUME ObjectAssumption ==
    /\ Encodings \cap {None, "binary", "default"} = {}
    /\ Types \cap Charsets = {}
    /\ UploadToVar \in BOOLEAN /\ MaxCommands \in Nat

VARIABLES
    cmds,          \* commands the page has run
    resp,          \* the response: headers_printed, headers_set, its type, charset
    chan,          \* settings of the output channel
    scopes,        \* settings saved by the with_binary_output that run
    asked,         \* settings in force outside of them
    configured,    \* the page has called fconfigure
    texts,         \* encodings in which the page's text went out
    env, loaded,   \* subprocess_env; environment_set
    late,          \* variables the page set after their group was loaded
    saved          \* files written by upload save

chanVars == <<chan, scopes, asked, configured, texts>>
envVars  == <<env, loaded, late>>
objVars  == <<cmds, resp, chanVars, envVars, saved>>
vars == <<bodyVars, objVars>>
-----------------------------------------------------------------------------
(* Variables: var, var_qs and var_post look at a part of the table of the    *)
(* parameters.                                                               *)
Sources == {"all", "qs", "post"}

\* mutant: the first parameter of the body counts to both
Visible_Overlap(source) ==
    SubSeq(parms, IF source = "post" /\ nargs > 0 THEN nargs ELSE 1,
                  IF source = "qs" THEN nargs ELSE Len(parms))

Visible(source) ==
    SubSeq(parms, IF source = "post" THEN nargs + 1 ELSE 1,
                  IF source = "qs" THEN nargs ELSE Len(parms))

VarNames(source) == [i \in DOMAIN Visible(source) |-> Visible(source)[i].key]
VarNumber(source) ==
    CASE source = "qs" -> nargs
      [] source = "post" -> Len(parms) - nargs
      [] OTHER -> Len(parms)
VarExists(k, source) == \E i \in DOMAIN Visible(source) : Visible(source)[i].key = k
ValuesOf(k, table) ==
    FoldLeft(LAMBDA vals, p : IF p.key = k THEN Append(vals, p.val) ELSE vals, <<>>, table)
VarList(k, source) == ValuesOf(k, Visible(source))

(* var get: all values of the variable in one; the default if that is empty, *)
(* which may be so although the variable is there.                           *)
VarGet(k, source, default) ==
    LET all == FlattenSeq(VarList(k, source)) IN IF all = <<>> THEN default ELSE all

(* var all: with defaults for the names that are not there.                  *)
VarAll(source, defaults) ==
    LET keys == {Visible(source)[i].key : i \in DOMAIN Visible(source)}
    IN  [k \in keys \cup DOMAIN defaults |->
            IF k \in keys THEN Last(VarList(k, source)) ELSE defaults[k]]
-----------------------------------------------------------------------------
(* Uploads: the first of that name; a copy of it, or its data.               *)
UploadNames == [i \in DOMAIN uploads |-> uploads[i].name]
UploadIndex(name) == CHOOSE i \in DOMAIN uploads :
                        uploads[i].name = name /\ \A j \in 1..(i - 1) : uploads[j].name # name
TempFile(name) == [req |-> reqs, n |-> UploadIndex(name)]
UploadData(name) ==
    IF UploadToVar /\ TempFile(name) \in tmp THEN uploads[UploadIndex(name)].data ELSE None
UploadSize(name) == Len(uploads[UploadIndex(name)].data)
-----------------------------------------------------------------------------
(* The environment.                                                          *)

Of(group) == {k \in DOMAIN EnvGroup : EnvGroup[k] = group}

(* A group is put into subprocess_env unless it was already.                 *)
\* mutant: it is put there each time
Load_Again(e, group) ==
    [e EXCEPT !.env = [k \in DOMAIN @ |-> IF k \in Of(group) THEN "apache" ELSE @[k]],
              !.loaded = @ \cup {group}]

Load(e, group) ==
    IF group \in e.loaded THEN e
    ELSE [env    |-> [k \in DOMAIN e.env |-> IF k \in Of(group) THEN "apache" ELSE e.env[k]],
          loaded |-> e.loaded \cup {group}]

(* TclWeb_GetEnvVar: headers first, then the groups one after the other as   *)
(* far as it takes, then the variables that are computed.                    *)
GetEnvVar(e, k) ==
    LET common == Load(e, "common")
        cgi    == Load(common, "cgi")
    IN  CASE k \in Of("header") -> [state |-> e, val |-> "apache"]
          [] k \notin Of("header") /\ common.env[k] # None ->
                [state |-> common, val |-> common.env[k]]
          [] k \notin Of("header") /\ common.env[k] = None ->
                [state |-> cgi,
                 val   |-> IF cgi.env[k] # None THEN cgi.env[k]
                           ELSE IF k \in Of("vars") THEN "apache" ELSE None]

(* TclWeb_InitEnvVars: everything at once.                                   *)
InitEnvVars(e) == Load(Load(Load(e, "cgi"), "common"), "vars")

Environment == [env |-> env, loaded |-> loaded]
SetEnvironment(e) == env' = e.env /\ loaded' = e.loaded
-----------------------------------------------------------------------------
(* The channel.                                                              *)

Binary == [translation |-> "lf", encoding |-> "binary"]
Text   == [translation |-> "auto", encoding |-> "default"]
(* -translation binary sets the encoding as well; the name read back is lf.  *)
(* A third setting, -eofchar, is left out.                                   *)
Set(c, option, v) == [c EXCEPT ![option] = v]

(* TclWeb_PrintHeaders: the type is decided when the headers are printed, if *)
(* the page has not done it.                                                 *)
SetHeaderType(r, t) == IF r.set THEN r ELSE [r EXCEPT !.type = t, !.set = TRUE]

PrintHeaders(r) ==
    IF r.printed THEN r
    ELSE [SetHeaderType(r, IF r.charset # None THEN r.charset ELSE "text/html")
            EXCEPT !.printed = TRUE]
-----------------------------------------------------------------------------
(* TclWeb_InitRequest: what it does to the record and to the channel.  A     *)
(* charset that Tcl does not know is not an error for the caller.            *)
\* mutant: the channel is left alone
InitRequest_KeepChannel(cs) ==
    /\ cmds' = 0
    /\ resp' = [printed |-> FALSE, set |-> FALSE, type |-> None, charset |-> cs]
    /\ UNCHANGED <<chan, scopes, asked, saved>>
    /\ configured' = FALSE /\ texts' = {}
    /\ env' = [k \in DOMAIN EnvGroup |-> None] /\ loaded' = {} /\ late' = {}

InitRequest(cs) ==
    /\ cmds' = 0
    /\ resp' = [printed |-> FALSE, set |-> FALSE, type |-> None, charset |-> cs]
    /\ chan' = IF cs \in Encodings THEN Set(chan, "encoding", cs) ELSE chan
    /\ asked' = IF cs \in Encodings THEN Set(asked, "encoding", cs) ELSE asked
    /\ configured' = FALSE /\ texts' = {}
    /\ env' = [k \in DOMAIN EnvGroup |-> None] /\ loaded' = {} /\ late' = {}
    /\ UNCHANGED <<scopes, saved>>

BeginRequest(s, cs) == Begin(s) /\ InitRequest(cs)

(* The page runs, and its commands may.                                      *)
Runs ==
    /\ pc = "run" /\ ~(edge \/ cut \/ lost)
    /\ cmds < MaxCommands /\ cmds' = cmds + 1
    /\ UNCHANGED bodyVars

(* headers type: refused when the headers are out.                           *)
HeadersType(t) ==
    /\ Runs /\ ~resp.printed
    /\ resp' = SetHeaderType(resp, t)
    /\ UNCHANGED <<chanVars, envVars, saved>>

(* Text is encoded as it is written; within a with_binary_output it is meant *)
(* to be bytes.                                                              *)
Puts ==
    /\ Runs
    /\ texts' = IF scopes = <<>> THEN texts \cup {chan.encoding} ELSE texts
    /\ UNCHANGED <<resp, chan, scopes, asked, configured, envVars, saved>>

(* The channel is flushed: RivetChan_OutputProc prints the headers if the    *)
(* channel holds anything.  What it holds is not part of this module (see    *)
(* RequestProcessing), so either may be.                                     *)
Flushed == resp' \in {resp, PrintHeaders(resp)}
Flush ==
    /\ Runs /\ Flushed
    /\ UNCHANGED <<chanVars, envVars, saved>>

(* fconfigure stdout: until the with_binary_output ends.                     *)
Configure(option, v) ==
    /\ Runs
    /\ chan' = Set(chan, option, v) /\ configured' = TRUE
    /\ asked' = IF scopes = <<>> THEN chan' ELSE asked
    /\ UNCHANGED <<resp, scopes, texts, envVars, saved>>

(* with_binary_output: flush, save, set, and evaluate the script ...         *)
BinaryBegins ==
    /\ Runs /\ Flushed
    /\ scopes' = Append(scopes, chan) /\ chan' = Binary
    /\ UNCHANGED <<asked, configured, texts, envVars, saved>>

(* ... which ends with any code; the settings are put back.                  *)
Restored(c, kept) ==
    Set(Set(c, "translation", kept.translation), "encoding", kept.encoding)

\* mutant: not when the script fails
BinaryEnds_OnlyOk(ok) ==
    /\ pc = "run" /\ scopes # <<>>
    /\ chan' = IF ok THEN Restored(chan, Last(scopes)) ELSE chan
    /\ scopes' = Front(scopes)
    /\ Flushed
    /\ UNCHANGED <<bodyVars, cmds, asked, configured, texts, envVars, saved>>

BinaryEnds(ok) ==
    /\ pc = "run" /\ scopes # <<>>
    /\ chan' = Restored(chan, Last(scopes))
    /\ scopes' = Front(scopes)
    /\ Flushed
    /\ UNCHANGED <<bodyVars, cmds, asked, configured, texts, envVars, saved>>

(* write_binary: a with_binary_output around one puts.                       *)
WriteBinary ==
    /\ Runs /\ Flushed
    /\ chan' = Restored(Binary, chan)
    /\ UNCHANGED <<scopes, asked, configured, texts, envVars, saved>>

(* include: the file goes out as it is; only translation and encoding are    *)
(* kept, and nothing is flushed.                                             *)
Include ==
    /\ Runs
    /\ chan' = Restored(Binary, chan)
    /\ UNCHANGED <<resp, scopes, asked, configured, texts, envVars, saved>>

(* ::rivet::env, which makeurl calls for SCRIPT_NAME.                        *)
Env(k) ==
    /\ Runs
    /\ SetEnvironment(GetEnvVar(Environment, k).state)
    /\ UNCHANGED <<resp, chanVars, late, saved>>

LoadEnv ==
    /\ Runs
    /\ SetEnvironment(InitEnvVars(Environment))
    /\ UNCHANGED <<resp, chanVars, late, saved>>

(* apache_table set and unset of subprocess_env.                             *)
TableSet(k) ==
    /\ Runs
    /\ env' = [env EXCEPT ![k] = "script"]
    /\ late' = IF EnvGroup[k] \in loaded \cup {"own"} THEN late \cup {k} ELSE late
    /\ UNCHANGED <<resp, chanVars, loaded, saved>>
TableUnset(k) ==
    /\ Runs
    /\ env' = [env EXCEPT ![k] = None] /\ late' = late \ {k}
    /\ UNCHANGED <<resp, chanVars, loaded, saved>>

(* upload save: a copy that is not the request's.                            *)
UploadSave(name) ==
    /\ Runs
    /\ name \in Range(UploadNames) /\ TempFile(name) \in tmp
    /\ saved' = saved \cup {[name |-> name, data |-> uploads[UploadIndex(name)].data]}
    /\ UNCHANGED <<resp, chanVars, envVars>>

(* The page is over, not within a with_binary_output: the headers and what   *)
(* the channel holds go out.                                                 *)
EndPage ==
    /\ EndRequest /\ scopes = <<>>
    /\ resp' = IF pc = "run" THEN PrintHeaders(resp) ELSE resp
    /\ UNCHANGED <<cmds, chanVars, envVars, saved>>

Parse == ParseArgs \/ UtilRead \/ AtEof \/ FindBoundary \/ HeaderLine \/ TmpFile
            \/ MozillaCheck \/ ReadValue \/ ReadFile \/ WriteFails

Done == pc = "idle" /\ reqs = MaxRequests /\ UNCHANGED vars

Next ==
    \/ \E s \in Inputs, cs \in Charsets : BeginRequest(s, cs)
    \/ Parse /\ UNCHANGED objVars
    \/ \E t \in Types : HeadersType(t)
    \/ Puts \/ Flush
    \/ \E enc \in Encodings : Configure("encoding", enc)
    \/ Configure("translation", "crlf")
    \/ BinaryBegins \/ \E ok \in BOOLEAN : BinaryEnds(ok)
    \/ WriteBinary \/ Include
    \/ \E k \in DOMAIN EnvGroup : Env(k) \/ TableSet(k) \/ TableUnset(k)
    \/ LoadEnv
    \/ \E name \in Range(UploadNames) : UploadSave(name)
    \/ EndPage
    \/ Done

Init ==
    /\ BodyInit
    /\ cmds = 0
    /\ resp = [printed |-> FALSE, set |-> FALSE, type |-> None, charset |-> None]
    /\ chan = Text /\ scopes = <<>> /\ asked = Text
    /\ configured = FALSE /\ texts = {}
    /\ env = [k \in DOMAIN EnvGroup |-> None] /\ loaded = {} /\ late = {}
    /\ saved = {}

Spec == Init /\ [][Next]_vars
-----------------------------------------------------------------------------
(* The parser's variables and the request object have their types; the       *)
(* parameters of the query string are among the parameters.                  *)
TypeOK ==
    /\ pc \in {"idle", "parse", "util_read", "eof", "boundary", "headers", "tmpfile",
               "mozilla", "value", "file", "run", "cleanup"}
    /\ reqs \in 0..MaxRequests /\ cmds \in 0..MaxCommands
    /\ pos \in 0..Len(body) /\ remaining \in Int /\ remaining <= Len(body)
    /\ buf.n \in 0..BufSize /\ buf.begin \in NoPtr..(BufSize + 1)
    /\ nargs \in 0..Len(parms)
    /\ tmp \subseteq [req : 1..MaxRequests, n : 1..Len(uploads)]
    /\ resp \in [printed : BOOLEAN, set : BOOLEAN, charset : Charsets \cup {None},
                 type : Types \cup Charsets \cup {None, "text/html"}]
    /\ chan \in [translation : {"auto", "lf", "crlf"},
                 encoding : Encodings \cup {"default", "binary"}]
    /\ loaded \subseteq {"common", "cgi", "vars"}
    /\ env \in [DOMAIN EnvGroup -> {None, "apache", "script"}]

(* A body that is accepted is read as it was sent, however Apache cuts it    *)
(* into blocks and wherever the buffer begins anew, unless the connection is *)
(* lost or one of the two defects of the buffer met (edge, cut): parameters, *)
(* values, files, and the copies of files that a page saves.                 *)
SentParms ==
    sends.args \o CASE sends.kind = "multipart"  -> FormParms(sends.form)
                    [] sends.kind = "urlencoded" -> sends.vars
                    [] OTHER -> <<>>
ReadAsSent ==
    /\ parms = SentParms
    /\ Len(uploads) = Len(FormFiles(sends.form))
    /\ \A i \in DOMAIN uploads :
         LET f == FormFiles(sends.form)[i]
         IN  uploads[i].name = f.name /\ uploads[i].filename = f.filename
             /\ uploads[i].data = f.data
    /\ \A name \in Range(UploadNames) :
         \E f \in Range(FormFiles(sends.form)) :
            /\ f.name = name /\ UploadSize(name) = Len(f.data)
            /\ UploadToVar => UploadData(name) = f.data
SavedAsSent ==
    \A s \in saved : \E f \in Forms : \E i \in DOMAIN FormFiles(f) :
        FormFiles(f)[i].name = s.name /\ FormFiles(f)[i].data = s.data
FormFaithful ==
    /\ pc = "run" /\ ~(edge \/ cut \/ lost) => ReadAsSent
    /\ SavedAsSent

(* What the code comments and the manual promise: a delimiter cut by the end *)
(* of the buffer is seen (partial matches), an upload is what was sent.      *)
UploadsWhole == pc = "run" /\ ~(cut \/ lost) => ReadAsSent

(* The buffer is always the bytes that Apache handed over last, as many as   *)
(* are still to be parsed, and has a begin if there are any.                 *)
BufferIsNextData ==
    pc \in {"eof", "boundary", "headers", "tmpfile", "mozilla", "value", "file"} =>
        /\ buf.begin = NoPtr => buf.n = 0
        /\ buf.n <= pos
        /\ Data(buf) = SubSeq(body, pos - buf.n + 1, pos)

(* var_qs and var_post see the parameters of the query string and of the     *)
(* body of this request, var both, and the subcommands agree with each other.*)
VarSources ==
    pc = "run" /\ ~(edge \/ cut \/ lost) =>
        /\ Visible("qs") = sends.args
        /\ Visible("all") = Visible("qs") \o Visible("post")
        /\ \A source \in Sources :
             /\ VarNumber(source) = Len(VarNames(source))
             /\ \A k \in Range(VarNames("all")) :
                  /\ VarExists(k, source) <=> VarList(k, source) # <<>>
                  /\ VarExists(k, source) <=> k \in DOMAIN VarAll(source, <<>>)
                  /\ ~VarExists(k, source) => VarGet(k, source, <<None>>) = <<None>>

(* While a page runs every upload of the request has its temporary file, and *)
(* no temporary file outlives its request, whichever way it failed.          *)
TmpFilesGone ==
    /\ \A t \in tmp : t.req = reqs /\ pc # "idle"
    /\ pc = "run" => \A i \in DOMAIN uploads : [req |-> reqs, n |-> i] \in tmp

(* Outside of with_binary_output the channel has the settings it was given   *)
(* outside of it, whatever ran inside and however it ended, in this request  *)
(* and in those before.                                                      *)
ScopeRestores == scopes = <<>> => chan = asked

(* A page of a type with a charset that Tcl knows, which does not configure  *)
(* the channel itself, has its text encoded in that charset.                 *)
TextInCharset == resp.charset \in Encodings /\ ~configured => texts \subseteq {resp.charset}

(* A value that the page put into the environment when the group of the      *)
(* variable was there stays: env and load_env do not replace it.             *)
EnvOverrideKept == \A k \in late : GetEnvVar(Environment, k).val = "script"
=============================================================================
