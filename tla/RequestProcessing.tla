-------------------------- MODULE RequestProcessing --------------------------
(* What a Tcl thread does with a request it was given: Rivet_SendContent     *)
(* (mod_rivet_generator.c), the Tcl request handler it evaluates             *)
(* (rivet/default_request_handler.tcl, ::Rivet::finish_request in            *)
(* rivet/init.tcl.in), the commands of rivetCore.c by which a script changes *)
(* the state of the request (abort_page, exit, no_body, parse, url_script)   *)
(* and the output channel (rivetChannel.c, TclWebapache.c).                  *)
(*                                                                           *)
(* Requests come one after the other; the scripts of a request (configured   *)
(* ones and the page) are arbitrary sequences of these commands.  What must  *)
(* hold is about what one request leaves behind for the next, in the         *)
(* thread's private data, the channel and the script cache.                  *)
EXTENDS ScriptCache, Sequences

CONSTANTS
    Places,       \* directories: has it a RivetDirConf, a RivetUserConf
    UserHosts,    \* virtual hosts that have directories with a RivetUserConf
    ScriptSets,   \* the sets of scripts a configuration may define
    Codes         \* arguments of abort_page

ASSUME RequestAssumption ==
    /\ Places \subseteq [dir : BOOLEAN, user : BOOLEAN]
    /\ UserHosts \subseteq Interps
    /\ \A S \in ScriptSets : S \subseteq {"before", "after", "abort", "error", "every"}
    /\ Codes \cap {None, "exit"} = {}

VARIABLES
    phase,            \* where the thread is
    req,              \* the request: virtual host, file, its times, its place
    perDir,           \* hosts whose per_dir_scripts holds the directory
    uploadDir,        \* upload_dir of running_conf
    loading,          \* key of the script url_script or parse is fetching
    pageAborting, threadExit, abortCode,
    headersPrinted, contentSent,
    buffer,           \* the Tcl channel holds output not written yet
    sent,             \* what Apache was given of the response
    ran               \* the scripts run for the request and how each ended

abortVars  == <<pageAborting, threadExit, abortCode>>
outputVars == <<headersPrinted, contentSent, buffer, sent>>
confVars   == <<req, perDir, uploadDir>>
vars == <<ver, cacheVars, phase, confVars, loading, abortVars, outputVars, ran>>

Main    == {"before", "page", "after"}
ScriptName == Main \cup {"abort", "error", "every"}
Running == phase \in ScriptName /\ loading = None
Ends    == {"open", "ok", "return", "error", "raised"}

Request == [host : Interps, file : Files, stat : Version, place : Places,
            scripts : ScriptSets]

TypeOK ==
    /\ CacheTypeOK
    /\ phase \in ScriptName \cup {"idle", "admitted", "load", "flush", "cleanup", "gone"}
    /\ req \in Request \cup {None}
    /\ perDir \subseteq Interps
    /\ uploadDir \in {"server", "dir"}
    /\ loading \in Keys \cup {None}
    /\ {pageAborting, threadExit, headersPrinted, contentSent, buffer} \subseteq BOOLEAN
    /\ abortCode \in Codes \cup {None, "exit"}
    /\ sent \in Seq({"headers", "body"})
    /\ ran \in Seq([script : ScriptName, end : Ends])

Init ==
    /\ CacheInit
    /\ phase = "idle" /\ req = None /\ perDir = {} /\ uploadDir = "server"
    /\ loading = None
    /\ pageAborting = FALSE /\ threadExit = FALSE /\ abortCode = None
    /\ headersPrinted = FALSE /\ contentSent = FALSE /\ buffer = FALSE
    /\ sent = <<>> /\ ran = <<>>
-----------------------------------------------------------------------------
(* The output channel.                                                       *)

(* TclWeb_PrintHeaders.                                                      *)
PrintHeaders(out) == IF headersPrinted THEN out ELSE Append(out, "headers")

(* What RivetChan_OutputProc gives to Apache: the headers first, and the     *)
(* body only if no_body was not called.  Consecutive body parts are one.     *)
Output(out) ==
    LET h == PrintHeaders(out) IN
    IF contentSent \/ (h # <<>> /\ h[Len(h)] = "body") THEN h ELSE Append(h, "body")

(* Tcl_Flush, explicit or because the channel's buffer is full.              *)
FlushChannel ==
    IF buffer
    THEN /\ sent' = Output(sent)
         /\ headersPrinted' = TRUE /\ buffer' = FALSE
    ELSE UNCHANGED <<sent, headersPrinted, buffer>>
-----------------------------------------------------------------------------
(* The Tcl request handler: which script runs next.                          *)

Ended(e) == [ran EXCEPT ![Len(ran)].end = e]
HasRun(s, h) == \E n \in DOMAIN h : h[n].script = s

(* Script s starts; h is the history so far.                                 *)
Start(s, h) == phase' = s /\ ran' = Append(h, [script |-> s, end |-> "open"])

Configured(s) == s \in req.scripts

(* The finally clause, or the end of the handler when that is where we are.  *)
StartEvery(h) ==
    IF Configured("every") /\ ~HasRun("every", h)
    THEN Start("every", h)
    ELSE phase' = "flush" /\ ran' = h

(* AbortScript; without one finish_request evaluates an empty script.        *)
StartAbort(h) == IF Configured("abort") THEN Start("abort", h) ELSE StartEvery(h)

(* ErrorScript, or ::Rivet::handle_error, which prints the error.            *)
StartError(h) ==
    IF Configured("error")
    THEN Start("error", h) /\ UNCHANGED buffer
    ELSE StartEvery(h) /\ buffer' = TRUE

(* The page comes after BeforeScript, AfterScript after the page.            *)
StartPage(h)  == phase' = "load" /\ ran' = h
StartAfter(h) == IF Configured("after") THEN Start("after", h) ELSE StartEvery(h)

(* A script of the main part ends: `return` leaves the handler's try body.   *)
\* mutant: no trap for the exceptions of abort_page and exit
MainEnds_NoTrap(e) ==
    LET h == Ended(e) IN
    CASE e = "ok" /\ phase = "before" -> StartPage(h) /\ UNCHANGED buffer
      [] e = "ok" /\ phase = "page"   -> StartAfter(h) /\ UNCHANGED buffer
      [] e = "raised" -> StartError(h)
      [] e = "error"  -> StartError(h)
      [] OTHER        -> StartEvery(h) /\ UNCHANGED buffer

MainEnds(e) ==
    LET h == Ended(e) IN
    CASE e = "ok" /\ phase = "before" -> StartPage(h) /\ UNCHANGED buffer
      [] e = "ok" /\ phase = "page"   -> StartAfter(h) /\ UNCHANGED buffer
      [] e = "raised" -> StartAbort(h) /\ UNCHANGED buffer
      [] e = "error"  -> StartError(h)
      [] OTHER        -> StartEvery(h) /\ UNCHANGED buffer

(* finish_request: a closing script that fails, or that raises abort_page or *)
(* `exit`, is reported on the page and followed by the error script; an      *)
(* error script that fails is reported.                                      *)
ClosingEnds(e) ==
    LET h == Ended(e) IN
    CASE e \in {"ok", "return"} -> StartEvery(h) /\ UNCHANGED buffer
      [] phase = "error" -> StartEvery(h) /\ buffer' = TRUE
      [] OTHER ->
            /\ IF Configured("error") THEN Start("error", h) ELSE StartEvery(h)
            /\ buffer' = TRUE

ScriptEnds(e) == IF phase \in Main THEN MainEnds(e) ELSE ClosingEnds(e)
-----------------------------------------------------------------------------
(* Rivet_SendContent up to the evaluation of the handler.                    *)

(* A request arrives for file f of virtual host i: Apache has read the times *)
(* of the file and merged the directory configuration p; running_conf is the *)
(* merged one if the directory's scripts are not in the hash yet or the user *)
(* configuration is fresh, else the server's.                                *)
Admit(i, f, p, S) ==
    /\ phase = "idle"
    /\ p.user => i \in UserHosts
    /\ phase' = "admitted"
    /\ req' = [host |-> i, file |-> f, stat |-> ver[f], place |-> p, scripts |-> S]
    /\ perDir' = IF p.dir THEN perDir \cup {i} ELSE perDir
    /\ uploadDir' = IF p.dir /\ (p.user \/ i \notin perDir) THEN "dir" ELSE "server"
    /\ sent' = <<>> /\ ran' = <<>>
    /\ UNCHANGED <<ver, cacheVars, loading, abortVars, headersPrinted,
                   contentSent, buffer>>

(* Another method, a missing file, a fresh copy at the client or a directory *)
(* that cannot be entered: Apache answers.                                   *)
Refuse ==
    /\ phase = "admitted"
    /\ phase' = "cleanup"
    /\ UNCHANGED <<ver, cacheVars, confVars, loading, abortVars, outputVars, ran>>

(* TclWeb_InitRequest, then the request body is not acceptable.              *)
ParseFails ==
    /\ phase = "admitted"
    /\ phase' = "cleanup"
    /\ headersPrinted' = FALSE
    /\ UNCHANGED <<ver, cacheVars, confVars, loading, abortVars, contentSent,
                   buffer, sent, ran>>

(* A HEAD request that the configuration answers without running anything.   *)
HeadOnly ==
    /\ phase = "admitted"
    /\ phase' = "cleanup"
    /\ headersPrinted' = TRUE
    /\ sent' = Append(sent, "headers")
    /\ UNCHANGED <<ver, cacheVars, confVars, loading, abortVars, contentSent,
                   buffer, ran>>

(* A user configuration empties a cache in use ...                           *)
CleansUp ==
    LET i == req.host IN req.place.user /\ size[i] # 0 /\ free[i] < size[i]

(* ... then the handler starts.                                              *)
\* mutant: headers_printed keeps its value
Evaluate_StaleFlag(poolMade) ==
    LET i == req.host IN
    /\ phase = "admitted"
    /\ headersPrinted' = headersPrinted
    /\ IF CleansUp
       THEN Cleanup(i, poolMade)
       ELSE poolMade /\ UNCHANGED cacheVars
    /\ IF Configured("before") THEN Start("before", ran) ELSE StartPage(ran)
    /\ UNCHANGED <<ver, confVars, loading, abortVars, contentSent, buffer, sent>>
Evaluate(poolMade) ==
    LET i == req.host IN
    /\ phase = "admitted"
    /\ headersPrinted' = FALSE
    /\ IF CleansUp
       THEN Cleanup(i, poolMade)
       ELSE poolMade /\ UNCHANGED cacheVars
    /\ IF Configured("before") THEN Start("before", ran) ELSE StartPage(ran)
    /\ UNCHANGED <<ver, confVars, loading, abortVars, contentSent, buffer, sent>>
-----------------------------------------------------------------------------
(* Commands of a running script.                                             *)

Puts ==
    /\ Running
    /\ buffer' = TRUE
    /\ UNCHANGED <<ver, cacheVars, phase, confVars, loading, abortVars,
                   headersPrinted, contentSent, sent, ran>>

Flush ==
    /\ Running /\ buffer
    /\ FlushChannel
    /\ UNCHANGED <<ver, cacheVars, phase, confVars, loading, abortVars,
                   contentSent, ran>>

(* no_body; a second call is an error, which the script may or may not catch.*)
NoBody ==
    /\ Running /\ ~contentSent
    /\ contentSent' = TRUE
    /\ UNCHANGED <<ver, cacheVars, phase, confVars, loading, abortVars,
                   headersPrinted, buffer, sent, ran>>

(* abort_page, with or without a code: the first code is kept; only the first *)
(* call raises the exception.  A plain `catch` around it hides it.           *)
AbortPage(c, caught) ==
    /\ Running
    /\ abortCode' = IF abortCode = None THEN c ELSE abortCode
    /\ pageAborting' = TRUE
    /\ IF pageAborting \/ caught
       THEN UNCHANGED <<phase, ran, buffer>>
       ELSE ScriptEnds("raised")
    /\ UNCHANGED <<ver, cacheVars, confVars, loading, threadExit,
                   headersPrinted, contentSent, sent>>

(* exit, which Rivet replaces: it always raises, and replaces the code.      *)
Exit(caught) ==
    /\ Running
    /\ pageAborting' = TRUE /\ threadExit' = TRUE /\ abortCode' = "exit"
    /\ IF caught THEN UNCHANGED <<phase, ran, buffer>> ELSE ScriptEnds("raised")
    /\ UNCHANGED <<ver, cacheVars, confVars, loading, headersPrinted,
                   contentSent, sent>>

(* A script runs to its end, returns early or fails.                         *)
EndScript(e) ==
    /\ Running
    /\ ScriptEnds(e)
    /\ UNCHANGED <<ver, cacheVars, confVars, loading, abortVars,
                   headersPrinted, contentSent, sent>>

(* parse: not of the requested file; the times are read before the lookup.   *)
Parse(f, e) ==
    /\ Running /\ f # req.file
    /\ loading' = MakeKey(f, e, ver[f], FALSE, req.place.user)
    /\ UNCHANGED <<ver, cacheVars, phase, confVars, abortVars, outputVars, ran>>

(* ... then the script is found, or read and kept; its commands are those of *)
(* the script that called parse.  A file that cannot be read is an error.    *)
ParseLoad(readable) ==
    LET i == req.host IN
    /\ loading # None /\ HasTable(i)
    /\ IF readable /\ ~Cached(i, loading)
         THEN KeepScript(i, loading, Translate(loading.file, loading.enc, FALSE))
         ELSE UNCHANGED cacheVars
    /\ loading' = None
    /\ UNCHANGED <<ver, phase, confVars, abortVars, outputVars, ran>>

PageKey == MakeKey(req.file, None, req.stat, TRUE, req.place.user)

(* url_script: the times are those Apache read when the request came.  If    *)
(* the file cannot be read there is nothing to run, or a broken script.      *)
UrlScript(readable) ==
    LET i == req.host
        k == PageKey
    IN
    /\ phase = "load" /\ HasTable(i)
    /\ IF readable /\ ~Cached(i, k)
         THEN KeepScript(i, k, Translate(req.file, None, TRUE))
         ELSE UNCHANGED cacheVars
    /\ \/ Start("page", ran)
       \/ ~readable /\ ~Cached(i, k) /\ StartAfter(ran)
    /\ UNCHANGED <<ver, confVars, loading, abortVars, outputVars>>

(* A cleanup, a lookup or a store that touches memory which was given back   *)
(* is undefined: the child crashes here, and all its memory is gone; or      *)
(* nobody has used the memory again and the operation goes on with what it   *)
(* holds, as the actions above say.  Other outcomes are left out.            *)
ChildCrashes ==
    LET i == req.host IN
    /\ \/ phase = "admitted" /\ CleansUp /\ ~Lives(i)
       \/ loading # None /\ UsesFreed(i, loading)
       \/ phase = "load" /\ UsesFreed(i, PageKey)
    /\ phase' = "gone" /\ req' = None /\ loading' = None
    /\ pageAborting' = FALSE /\ abortCode' = None
    /\ contentSent' = FALSE /\ buffer' = FALSE /\ sent' = <<>> /\ ran' = <<>>
    /\ UNCHANGED <<ver, cacheVars, perDir, uploadDir, threadExit, headersPrinted>>
-----------------------------------------------------------------------------
(* The end of Rivet_SendContent.                                             *)

(* After the handler: headers if they are not out yet, then the channel.     *)
\* mutant: the channel is not flushed
Finish_NoFlush ==
    /\ phase = "flush"
    /\ phase' = "cleanup"
    /\ sent' = PrintHeaders(sent)
    /\ headersPrinted' = TRUE /\ buffer' = buffer
    /\ UNCHANGED <<ver, cacheVars, confVars, loading, abortVars, contentSent, ran>>

Finish ==
    /\ phase = "flush"
    /\ phase' = "cleanup"
    /\ sent' = IF buffer THEN Output(sent) ELSE PrintHeaders(sent)
    /\ headersPrinted' = TRUE /\ buffer' = FALSE
    /\ UNCHANGED <<ver, cacheVars, confVars, loading, abortVars, contentSent, ran>>

(* The label sendcleanup: a thread told to exit calls the bridge's           *)
(* exit_handler, which ends it; the private data is made ready for the next  *)
(* request.                                                                  *)
SendCleanup ==
    /\ phase = "cleanup"
    /\ phase' = IF threadExit THEN "gone" ELSE "idle"
    /\ contentSent' = FALSE /\ abortCode' = None /\ pageAborting' = FALSE
    /\ req' = None
    /\ sent' = <<>> /\ ran' = <<>>
    /\ UNCHANGED <<ver, cacheVars, perDir, uploadDir, loading, threadExit,
                   headersPrinted, buffer>>

(* The bridge starts another thread, or Apache another child, with private   *)
(* data of its own.                                                          *)
NewThread ==
    /\ phase = "gone"
    /\ phase' = "idle" /\ perDir' = {} /\ uploadDir' = "server"
    /\ threadExit' = FALSE /\ headersPrinted' = FALSE
    /\ table' = [i \in Interps |-> Empty]
    /\ list' = [i \in Interps |-> [s \in Slots |-> None]]
    /\ size' = [i \in Interps |-> CacheSize] /\ free' = size'
    /\ pool' = [i \in Interps |-> IF Separate THEN i ELSE Root]
    /\ tableFreed' = [i \in Interps |-> FALSE]
    /\ UNCHANGED <<ver, req, loading, pageAborting, abortCode, contentSent,
                   buffer, sent, ran>>

EditFile ==
    /\ \E f \in EditedFiles : Write(f)
    /\ UNCHANGED <<cacheVars, phase, confVars, loading, abortVars, outputVars, ran>>

Next ==
    \/ \E i \in Interps, f \in Files, p \in Places, S \in ScriptSets : Admit(i, f, p, S)
    \/ Refuse \/ ParseFails \/ HeadOnly
    \/ \E made \in BOOLEAN : Evaluate(made)
    \/ Puts \/ Flush \/ NoBody
    \/ \E c \in Codes \cup {None}, caught \in BOOLEAN : AbortPage(c, caught)
    \/ \E caught \in BOOLEAN : Exit(caught)
    \/ \E e \in {"ok", "return", "error"} : EndScript(e)
    \/ \E f \in Files, e \in Encodings \cup {None} : Parse(f, e)
    \/ \E readable \in BOOLEAN : ParseLoad(readable) \/ UrlScript(readable)
    \/ ChildCrashes
    \/ Finish \/ SendCleanup \/ NewThread \/ EditFile

Spec == Init /\ [][Next]_vars
-----------------------------------------------------------------------------
(* Safety.                                                                   *)

(* Apache gets the headers of a response once and before any of its body,    *)
(* and an evaluated request is never left without them, however often the    *)
(* scripts flush and whatever they leave in the channel.                     *)
HeadersFirst ==
    /\ \A n \in DOMAIN sent : (sent[n] = "headers") <=> (n = 1)
    /\ phase = "cleanup" /\ ran # <<>> => sent # <<>>

(* Between two requests the thread holds nothing of the last one: no output  *)
(* in the channel that would be sent to the next client, no abort condition  *)
(* that would silence its abort_page, no no_body; and a thread that was told *)
(* to exit takes no other request.                                           *)
NothingCarriedOver ==
    phase = "idle" =>
        /\ ~pageAborting /\ ~threadExit /\ abortCode = None
        /\ ~contentSent /\ ~buffer /\ loading = None

Count(s) == Cardinality({n \in DOMAIN ran : ran[n].script = s})

(* The scripts of a request run as the manual says: BeforeScript, page and   *)
(* AfterScript in this order and only while all is well, AbortScript exactly *)
(* after an abort_page or exit of one of these got through, the error script *)
(* exactly after a script failed, and AfterEveryScript once, whatever        *)
(* happened, with nothing but an error script after it.                      *)
ScriptsInOrder ==
    LET S(n) == ran[n].script
        E(n) == ran[n].end
        Rank(s) == CASE s = "before" -> 1 [] s = "page" -> 2 [] s = "after" -> 3
                     [] s = "abort" -> 4 [] OTHER -> 5
    IN  /\ \A n \in DOMAIN ran : n > 1 =>
              /\ S(n) = "error" \/ S(n - 1) = "error" \/ Rank(S(n - 1)) < Rank(S(n))
              /\ S(n) \in Main => E(n - 1) = "ok"
              /\ S(n) = "abort" => S(n - 1) \in Main /\ E(n - 1) = "raised"
              /\ S(n) = "error" => \/ E(n - 1) = "error"
                                   \/ S(n - 1) \notin Main /\ E(n - 1) = "raised"
        /\ phase \in {"flush", "cleanup"} /\ ran # <<>> =>
              /\ Count("every") = IF Configured("every") THEN 1 ELSE 0
              /\ Configured("abort") =>
                    (Count("abort") = 1 <=> \E n \in DOMAIN ran : S(n) \in Main /\ E(n) = "raised")
              /\ \A n \in DOMAIN ran : S(n) = "every" => \A m \in DOMAIN ran :
                    m > n => S(m) = "error"

(* While a request lasts its abort code is never lost or replaced by that of *)
(* a later abort_page, only by an exit: AbortScript and AfterEveryScript see *)
(* why the page was interrupted.                                             *)
FirstCodeKept ==
    [][phase # "cleanup" /\ phase' # "gone" /\ abortCode # None =>
           abortCode' \in {abortCode, "exit"}]_vars

(* What url_script finds for the request is the requested file, in its kind, *)
(* and not older than the times Apache read when the request came; and all   *)
(* that is cached is what its key says.  This is said of caches whose memory *)
(* is there.                                                                 *)
PagesFresh ==
    /\ \A i \in Interps : Lives(i) => EntriesSound(i)
    /\ phase = "load" /\ Lives(req.host) /\ Cached(req.host, PageKey) =>
         LET s == table[req.host][PageKey] IN
         /\ s.file = req.file /\ s.kind = KindOf(req.file, TRUE)
         /\ s.read >= req.stat

=============================================================================
