------------------------------ MODULE BodyParser ------------------------------
(* Reading the parameters and the uploads of a request                       *)
(* (request/apache_request.c, over MultipartBuffer): the query string, then  *)
(* a body that is a multipart form, read through the buffer, or anything     *)
(* else, read whole and split at the separators.                             *)
(*                                                                           *)
(* Apache hands the body over in blocks: as much as was asked for, or less   *)
(* (ShortBlocks) when the client is slow, or nothing any more when the       *)
(* connection is lost.  A form is what the client means; what the parser     *)
(* makes of its bytes is compared with it.                                   *)
EXTENDS MultipartBuffer, SequencesExt

CONSTANTS
    Disposition,   \* header bytes that hold a Content-Disposition: [param, filename]
    Forms,         \* forms the client may send: [preamble, parts], see Encode
    Queries,       \* parameters of a query string or a urlencoded body
    PostMax,       \* post_max, UploadMaxSize; 0 is no limit
    MaxRequests,   \* bound: requests of the thread
    ShortBlocks    \* bound: lengths of blocks that are shorter than asked for

\* A disposition with neither a name nor a file: the code adds a parameter
\* without a key (apache_request.c:600), which is undefined behaviour.
ASSUME BodyAssumption ==
    /\ PostMax \in Nat /\ MaxRequests \in Nat /\ ShortBlocks \subseteq Nat
    /\ \A h \in DOMAIN Disposition : Disposition[h].param # None \/ Disposition[h].filename # None

(* What clients send is made of sequences.                                   *)
IsText(s) == s \in Seq(Range(s))
ASSUME InputAssumption ==
    /\ \A q \in Queries : IsText(q)
    /\ \A f \in Forms :
          /\ IsText(f.preamble) /\ IsText(f.parts)
          /\ \A i \in DOMAIN f.parts :
                IsText(f.parts[i].headers) /\ IsText(f.parts[i].data) /\ IsText(f.parts[i].end)

VARIABLES
    pc,            \* where the parser is
    reqs,          \* requests begun so far
    sends,         \* what the client sends: [args, kind, form, vars]
    body,          \* the bytes of its body
    pos,           \* bytes Apache has handed over
    remaining,     \* r->remaining: the length until the end was seen, then 0
    buf,           \* the multipart_buffer
    hdr,           \* header bytes of the part that is read
    parms, nargs,  \* the parameter table; how many came from the query string
    uploads,       \* the list of uploads: [name, filename, data, req]
    tmp,           \* temporary files on disk: [req, n]
    rawPost,       \* raw_post
    status, parsed,\* status of the parse, and whether it took place
    edge, cut, lost\* see below

bufVars  == <<body, pos, remaining, buf, hdr>>
parmVars == <<parms, nargs, uploads, tmp, rawPost, status, parsed>>
oddVars  == <<edge, cut, lost>>
bodyVars == <<pc, reqs, sends, bufVars, parmVars, oddVars>>

(* What can go wrong on the way, noted for the properties:                   *)
(*   edge: a search took the bytes behind the valid ones for part of the     *)
(*         delimiter, or missed a delimiter that was not whole in the buffer; *)
(*   cut: a line was given up that had not come whole;                       *)
(*   lost: the connection was lost.                                          *)

\* A file without a name is passed over as a part that does not say what it is.
Filename(h) == IF h = None THEN None ELSE Disposition[h].filename
DispositionOf(headers) ==
    LET D == {h \in headers \cap DOMAIN Disposition : Disposition[h].param # None}
    IN  IF D = {} THEN None ELSE CHOOSE h \in D : TRUE

(* A multipart body: each part after a boundary line, its headers, an empty  *)
(* line, its data and its end, which is a line end; some clients leave it    *)
(* out after an empty file.                                                  *)
CRLF == <<CR, LF>>
EncodePart(p) == Boundary \o CRLF \o FlattenSeq([i \in DOMAIN p.headers |-> <<p.headers[i]>> \o CRLF])
                          \o CRLF \o p.data \o p.end
Encode(f) == f.preamble \o FlattenSeq([i \in DOMAIN f.parts |-> EncodePart(f.parts[i])])
                        \o Boundary \o <<"-", "-">> \o CRLF

(* What the form says: its parameters and its files; a part that does not    *)
(* say what it is says nothing.                                              *)
About(p) == DispositionOf(Range(p.headers))
ParmOf(p) ==
    IF About(p) = None THEN <<>>
    ELSE <<[key |-> Disposition[About(p)].param,
            val |-> IF Filename(About(p)) = None THEN p.data ELSE <<Filename(About(p))>>]>>
FileOf(p) ==
    IF Filename(About(p)) = None THEN <<>>
    ELSE <<[name |-> Disposition[About(p)].param, filename |-> Filename(About(p)), data |-> p.data]>>
FormParms(f) == FlattenSeq([i \in DOMAIN f.parts |-> ParmOf(f.parts[i])])
FormFiles(f) == FlattenSeq([i \in DOMAIN f.parts |-> FileOf(f.parts[i])])

(* What a client owes the parser: a boundary that occurs in nothing it sends, *)
(* lines that end, and headers of one line.  A byte 0 is for files: lines    *)
(* that are passed over and values are C strings.                            *)
PartAssumption(p) ==
    /\ Range(p.headers) \cap {CR, LF, NUL} = {}
    /\ "B" \notin Range(p.data) /\ (Filename(About(p)) = None => NUL \notin Range(p.data))
    /\ p.end # CRLF => p.end = <<>> /\ p.data = <<>> /\ Filename(About(p)) # None
ASSUME FormAssumption ==
    \A f \in Forms :
        /\ Range(f.preamble) \cap {"B", NUL} = {} /\ (f.preamble # <<>> => Last(f.preamble) = LF)
        /\ \A i \in DOMAIN f.parts : PartAssumption(f.parts[i])

Sent(k, args, f, vars) == [kind |-> k, args |-> args, form |-> f, vars |-> vars]
NoForm == [preamble |-> <<>>, parts |-> <<>>]
Inputs == {Sent("multipart", q, f, <<>>) : q \in Queries, f \in Forms}
     \cup {Sent("urlencoded", q, NoForm, v) : q \in Queries, v \in Queries}
     \cup {Sent("get", q, NoForm, <<>>) : q \in Queries}
-----------------------------------------------------------------------------
(* ap_get_client_block: how many of the wanted bytes come.  Unless the end   *)
(* was seen at least one comes, all of them if the client is fast; none when *)
(* the connection is lost (0 in ShortBlocks).                                *)
Blocks(wanted) ==
    LET most == Min({wanted, Len(body) - pos}) IN
    CASE wanted <= 0 \/ remaining <= 0 -> {0}
      [] OTHER -> {most} \cup {k \in ShortBlocks : k < most}
Block(k) == SubSeq(body, pos + 1, pos + k)
Unread(p) == SubSeq(body, p + 1, Len(body))

(* What a block of k of the wanted bytes changes.                            *)
Left(k) == IF k > 0 /\ pos + k = Len(body) THEN 0 ELSE remaining
Received(k) == pos' = pos + k /\ remaining' = Left(k)
Watch(wanted, k) == lost' = (lost \/ (k = 0 /\ wanted > 0 /\ remaining > 0))
-----------------------------------------------------------------------------
(* ApacheRequest_init, and the limit of Rivet_SendContent; Apache has read   *)
(* the header of the request and knows the length of its body.               *)
\* mutant: nargs keeps its value
Begin_KeepNargs(s) ==
    /\ pc = "idle" /\ reqs < MaxRequests
    /\ reqs' = reqs + 1 /\ sends' = s
    /\ body' = IF s.kind = "multipart" THEN Encode(s.form) ELSE s.vars
    /\ pos' = 0 /\ remaining' = Len(body') /\ pc' = "parse"
    /\ parms' = <<>> /\ uploads' = <<>> /\ rawPost' = <<>>
    /\ status' = "ok" /\ parsed' = FALSE
    /\ edge' = FALSE /\ cut' = FALSE /\ lost' = FALSE
    /\ UNCHANGED <<nargs, buf, hdr, tmp>>

Begin(s) ==
    /\ pc = "idle" /\ reqs < MaxRequests
    /\ reqs' = reqs + 1 /\ sends' = s
    /\ body' = IF s.kind = "multipart" THEN Encode(s.form) ELSE s.vars
    /\ pos' = 0 /\ remaining' = Len(body') /\ pc' = "parse"
    /\ parms' = <<>> /\ nargs' = 0 /\ uploads' = <<>> /\ rawPost' = <<>>
    /\ status' = "ok" /\ parsed' = FALSE
    /\ edge' = FALSE /\ cut' = FALSE /\ lost' = FALSE
    /\ UNCHANGED <<buf, hdr, tmp>>

(* The parse is over: ApacheRequest_parse keeps its status.  The buffer is   *)
(* not used again.                                                           *)
Parsed(code) ==
    /\ parsed' = TRUE /\ status' = code
    /\ pc' = IF code = "ok" THEN "run" ELSE "cleanup"
    /\ body' = <<>> /\ pos' = 0 /\ remaining' = 0 /\ buf' = NewBuffer /\ hdr' = {}

(* ApacheRequest___parse: the query string first; then how the body is read. *)
(* Apache may refuse the body; a body over the limit is not read; a body     *)
(* that is not there is no error.                                            *)
ParseArgs ==
    /\ pc = "parse"
    /\ parms' = sends.args /\ nargs' = IF sends.args = <<>> THEN nargs ELSE Len(sends.args)
    /\ UNCHANGED <<reqs, sends, uploads, tmp, rawPost, oddVars>>
    /\ \/ /\ sends.kind = "get" \/ Len(body) = 0
          /\ Parsed("ok")
       \/ sends.kind # "get" /\ Parsed("refused")
       \/ /\ sends.kind # "get" /\ Len(body) > 0
          /\ PostMax > 0 /\ Len(body) > PostMax
          /\ Parsed("too large")
       \/ /\ sends.kind # "get" /\ Len(body) > 0
          /\ ~(PostMax > 0 /\ Len(body) > PostMax)
          /\ pc' = (IF sends.kind = "multipart" THEN "eof" ELSE "util_read")
          /\ buf' = NewBuffer /\ hdr' = {}
          /\ UNCHANGED <<body, pos, remaining, status, parsed>>

(* ApacheRequest_parse_urlencoded: util_read collects the blocks until one   *)
(* is empty; the bytes that came are split into parameters.                  *)
UtilRead ==
    /\ pc = "util_read"
    /\ \E k \in Blocks(Len(body)) :
         /\ Watch(Len(body), k)
         /\ IF k > 0
            THEN Received(k) /\ UNCHANGED <<pc, body, buf, hdr, parms, rawPost, status, parsed>>
            ELSE /\ rawPost' = SubSeq(body, 1, pos)
                 /\ parms' = parms \o SubSeq(body, 1, pos)
                 /\ Parsed("ok")
    /\ UNCHANGED <<reqs, sends, nargs, uploads, tmp, edge, cut>>
-----------------------------------------------------------------------------
(* ApacheRequest_parse_multipart.                                            *)

(* multipart_buffer_eof.                                                     *)
AtEof ==
    LET wanted == IF buf.n = 0 THEN Wanted(buf, remaining) ELSE 0 IN
    /\ pc = "eof"
    /\ \E k \in Blocks(wanted) :
         /\ Watch(wanted, k)
         /\ IF buf.n = 0 /\ k = 0
            THEN Parsed("ok")
            ELSE /\ buf' = (IF buf.n = 0 THEN Fill(buf, Block(k)) ELSE buf)
                 /\ Received(k)
                 /\ pc' = "boundary"
                 /\ UNCHANGED <<body, hdr, status, parsed>>
    /\ UNCHANGED <<reqs, sends, parms, nargs, uploads, tmp, rawPost, edge, cut>>

(* The fill of a get_line, if it takes one, and whether it gives up a line.  *)
LineWants == IF NeedsFill(buf) THEN Wanted(buf, remaining) ELSE 0
Line(k) == GetLine(buf, Block(k))
WatchLine(k) ==
    /\ Watch(LineWants, k)
    /\ cut' = (cut \/ (Line(k).line = NoLine /\ pos + k < Len(body)))

(* find_boundary: a line that is not the boundary is passed over; without a  *)
(* line the rest of the body is dropped, and that is not an error.           *)
FindBoundary ==
    /\ pc = "boundary"
    /\ \E k \in Blocks(LineWants) :
         /\ WatchLine(k)
         /\ IF Line(k).line = NoLine
            THEN Parsed("ok")
            ELSE /\ Received(k)
                 /\ buf' = Line(k).buf /\ hdr' = {}
                 /\ pc' = IF Line(k).line = Boundary THEN "headers" ELSE "boundary"
                 /\ UNCHANGED <<body, status, parsed>>
    /\ UNCHANGED <<reqs, sends, parms, nargs, uploads, tmp, rawPost, edge>>

(* The headers of a part are read: what kind of a part it is.  A part        *)
(* without a Content-Disposition is passed over.                             *)
Upload(h) == [name |-> Disposition[h].param, filename |-> Disposition[h].filename,
              data |-> <<>>, req |-> reqs]
Dispatch(headers) ==
    LET h == DispositionOf(headers) IN
    CASE h = None -> pc' = "eof" /\ UNCHANGED parmVars
      [] h # None /\ Filename(h) = None ->
            /\ pc' = "value"
            /\ parms' = Append(parms, [key |-> Disposition[h].param, val |-> <<>>])
            /\ UNCHANGED <<nargs, uploads, tmp, rawPost, status, parsed>>
      [] OTHER ->
            /\ parms' = Append(parms, [key |-> Disposition[h].param, val |-> <<Filename(h)>>])
            /\ uploads' = Append(uploads, Upload(h))
            /\ pc' = "tmpfile"
            /\ UNCHANGED <<nargs, tmp, rawPost, status, parsed>>

(* One header line; the empty line, or none, ends them.                      *)
HeaderLine ==
    /\ pc = "headers"
    /\ \E k \in Blocks(LineWants) :
         /\ WatchLine(k) /\ Received(k)
         /\ buf' = Line(k).buf
         /\ IF Line(k).line \in {NoLine, <<>>}
            THEN hdr' = hdr /\ Dispatch(hdr)
            ELSE hdr' = hdr \cup Range(Line(k).line) /\ UNCHANGED <<pc, parmVars>>
    /\ UNCHANGED <<reqs, sends, body, edge>>

(* ApacheRequest_tmpfile: the file is registered for removal with the        *)
(* request's pool; it may not be possible to make it.                        *)
TmpFile ==
    /\ pc = "tmpfile"
    /\ \/ /\ pc' = "mozilla"
          /\ tmp' = tmp \cup {[req |-> reqs, n |-> Len(uploads)]}
          /\ UNCHANGED <<bufVars, status, parsed>>
       \/ Parsed("no temp file") /\ tmp' = tmp
    /\ UNCHANGED <<reqs, sends, parms, nargs, uploads, rawPost, oddVars>>

(* The hack for an empty file without a line end: after another fill the     *)
(* boundary is where the data should be.                                     *)
MozillaCheck ==
    LET wanted == Wanted(buf, remaining) IN
    /\ pc = "mozilla"
    /\ \E k \in Blocks(wanted) :
         LET b == Fill(buf, Block(k))
             empty == MatchesAt(b, b.begin, Boundary)
         IN  /\ Watch(wanted, k)
             /\ buf' = b /\ pos' = pos + k
             /\ remaining' = IF empty THEN Left(k) - 2 ELSE Left(k)
             /\ pc' = IF empty THEN "eof" ELSE "file"
             /\ edge' = (edge \/ empty # IsPrefix(Boundary, Unread(pos' - b.n)))
    /\ UNCHANGED <<reqs, sends, body, hdr, parmVars, cut>>

(* A multipart_buffer_read into FILLUNIT bytes, which fills first unless the *)
(* buffer has as many.                                                       *)
ReadWants == IF FillUnit > buf.n THEN Wanted(buf, remaining) ELSE 0
ReadFrom(k) == IF FillUnit > buf.n THEN Fill(buf, Block(k)) ELSE buf
ReadOf(k) == Read(ReadFrom(k), FillUnit)

(* A read of len bytes from b, which holds the bytes of the body up to p: at *)
(* one of these bytes or right behind them, where the delimiter would not be *)
(* whole in b, it is not found although it begins there, or found although   *)
(* it does not: what an earlier fill left in the memory completed it.        *)
AtEdge(b, p, len) ==
    LET first == p - b.n + 1
        after == IF len < b.n /\ Data(b)[len + 1] = CR THEN len + 1 ELSE len
    IN  \E i \in first..(first + after) :
            /\ i + Len(BoundaryNext) - 1 > p
            /\ IsPrefix(BoundaryNext, Unread(i - 1)) # (MemStr(b, BoundaryNext) = b.begin + i - first)

Reading(k) ==
    /\ Watch(ReadWants, k) /\ Received(k)
    /\ buf' = ReadOf(k).buf
    /\ edge' = (edge \/ AtEdge(ReadFrom(k), pos + k, Len(ReadOf(k).data)))

(* multipart_buffer_read_body: the value is what the reads return until one  *)
(* returns nothing, each appended as a C string: what is behind a byte 0 of  *)
(* a read is lost.                                                           *)
CString(s) == LET Z == {i \in DOMAIN s : s[i] = NUL}
              IN  IF Z = {} THEN s ELSE SubSeq(s, 1, Min(Z) - 1)
ReadValue ==
    /\ pc = "value"
    /\ \E k \in Blocks(ReadWants) :
         /\ Reading(k)
         /\ pc' = IF ReadOf(k).data = <<>> THEN "eof" ELSE "value"
         /\ parms' = [parms EXCEPT ![Len(parms)].val = @ \o CString(ReadOf(k).data)]
    /\ UNCHANGED <<reqs, sends, body, hdr, nargs, uploads, tmp, rawPost, status, parsed, cut>>

(* A file: each piece is written to the temporary file, which may fail.      *)
ReadFile ==
    /\ pc = "file"
    /\ \E k \in Blocks(ReadWants) :
         /\ Reading(k)
         /\ pc' = IF ReadOf(k).data = <<>> THEN "eof" ELSE "file"
         /\ uploads' = [uploads EXCEPT ![Len(uploads)].data = @ \o ReadOf(k).data]
    /\ UNCHANGED <<reqs, sends, body, hdr, parms, nargs, tmp, rawPost, status, parsed, cut>>

WriteFails ==
    /\ pc = "file" /\ \E k \in Blocks(ReadWants) : ReadOf(k).data # <<>>
    /\ Parsed("write failed")
    /\ UNCHANGED <<reqs, sends, parms, nargs, uploads, tmp, rawPost, oddVars>>

(* The request is over; its pool goes, and with it the temporary files that  *)
(* were registered.                                                          *)
\* mutant: the files stay when the request failed
EndRequest_KeepFailed ==
    /\ pc \in {"run", "cleanup"}
    /\ pc' = "idle"
    /\ tmp' = IF status = "ok" THEN {t \in tmp : t.req # reqs} ELSE tmp
    /\ UNCHANGED <<reqs, sends, bufVars, parms, nargs, uploads, rawPost, status, parsed, oddVars>>

EndRequest ==
    /\ pc \in {"run", "cleanup"}
    /\ pc' = "idle"
    /\ tmp' = {t \in tmp : t.req # reqs}
    /\ UNCHANGED <<reqs, sends, bufVars, parms, nargs, uploads, rawPost, status, parsed, oddVars>>

ParseNext ==
    \/ \E s \in Inputs : Begin(s)
    \/ ParseArgs \/ UtilRead
    \/ AtEof \/ FindBoundary \/ HeaderLine \/ TmpFile \/ MozillaCheck
    \/ ReadValue \/ ReadFile \/ WriteFails

BodyInit ==
    /\ pc = "idle" /\ reqs = 0 /\ sends = Sent("get", <<>>, NoForm, <<>>)
    /\ body = <<>> /\ pos = 0 /\ remaining = 0 /\ buf = NewBuffer /\ hdr = {}
    /\ parms = <<>> /\ nargs = 0 /\ uploads = <<>> /\ tmp = {} /\ rawPost = <<>>
    /\ status = "ok" /\ parsed = FALSE
    /\ edge = FALSE /\ cut = FALSE /\ lost = FALSE
=============================================================================
