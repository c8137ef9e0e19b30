# Verification of Apache Rivet (mod_rivet)

mod_rivet embeds the Tcl interpreter in the Apache web server. Inside each Apache child process an *MPM
bridge* connects the framework threads that accept HTTP requests (handlers) with the Tcl interpreters that
generate the content; around the bridges stand a request processor, a script cache, a request parser and a
Tcl library. This directory holds TLA+ models of these parts, the TLC configurations that check them on small
instances, and TLAPS proofs of the properties that matter most for every value of the constants.

Paths below are relative to the repository root; `ng/` abbreviates `src/mod_rivet_ng/`.

## 1. Inventory: what the system consists of

| Component | Source | State it keeps | Operations |
|---|---|---|---|
| worker bridge | `ng/rivet_worker_mpm.c` | queue of idle threads, exiting array, workers[], counters, one `handler_private` record per thread | child init, supervisor loop, request_processor, WorkerBridge_Request, Shutdown/Finalize, ExitHandler |
| lazy bridge | `ng/rivet_lazy_mpm.c` | per virtual host: idle stack, threads_count, mutex; per thread: `lazy_tcl_worker` | child init, request_processor, create_worker, LazyBridge_Request, Finalize, ExitHandler |
| prefork bridge | `ng/rivet_prefork_mpm.c`, `ng/worker_prefork_common.c` | one thread-private record, one interpreter per virtual host | ChildInit, Request, Finalize, ExitHandler; interpreter creation and child scripts |
| module core | `ng/mod_rivet.c`, `ng/mod_rivet_common.c` | module globals, pools, virtual host indices | pre/post config, bridge choice and loading, child init, dispatch, thread private data |
| request processing | `ng/mod_rivet_generator.c`, `rivet/init.tcl.in`, `rivet/default_request_handler.tcl` | per thread: page_aborting, thread_exit, abort_code, running scripts and conf, headers-sent flags | Rivet_SendContent, request_handling, finish_request, handle_error |
| script cache | `ng/mod_rivet_cache.c` | hash of compiled scripts, free-slot count, FIFO list, a pool of its own | create, lookup, store, cleanup |
| Rivet commands | `ng/rivetCore.c`, `ng/rivetInspect.c`, `ng/rivetChannel.c` | request object, channel buffer, abort state | abort_page, exit, headers, parse, include, var, upload, inspect, ... |
| request object | `ng/TclWebapache.c`, `src/TclWeb.c` | headers_set, headers_printed, content_sent, charset, environment | headers, cookies, variables, uploads, output |
| body parser | `src/request/apache_request.c`, `apache_multipart_buffer.c` | parsed parameters, upload list, refill buffer | url-encoded and multipart parsing with limits |
| configuration | `ng/apache_config.c` | server, directory and user configuration records | directives, create and merge |
| template parser | `src/parser/rivetParser.c`, `parserPkgInit.c`, `rivet/packages/tclrivet/` | outside / inside markup, partial delimiter | .rvt to Tcl translation |
| Tcl utility library | `src/librivet/`, `rivet/rivet-tcl/` | none (pure), cookies and redirects aside | list, WWW and crypt commands; cookie, redirect, try, ... |
| session package | `rivet/packages/session/` | session row and cache rows in a database, cookie | activate, store, fetch, delete, garbage collection |
| simpledb package | `rivet/packages/simpledb/` | tables of items with field indices | setitem, getitem, delitem, finditems, save/load |
| DIO and display | `rivet/packages/dio/` | connection handle, last result, key sequence | query, fetch, insert, update, delete, search |
| forms | `rivet/packages/form/`, `rivet/packages/formbroker/` | field values, validation state of a form | form and field output; validate, failing |
| other packages | `aida`, `asciiglyphs`, `calendar`, `commserver`, `dtcl`, `entities`, `rivet_ncgi` | presentation data | output helpers |
| CGI variant | `src/TclWebcgi.c`, `src/testing.c` | - | stubs, not built by default |

How they interact. Apache calls the post-config hook once per start (server init: bridge chosen, Tcl
initialised), the child-init hook once per child process, and the handler hook once per request, on a
framework thread. The handler calls the bridge's `request_processor`; a threaded bridge passes the
`request_rec` through shared memory to a Tcl thread and blocks; the Tcl thread runs `Rivet_SendContent`, which
selects configuration and scripts, evaluates the Tcl request handler and flushes headers and body. Tcl code
calls back into the module (`abort_page`, `exit`, `headers`), and `exit` calls back into the bridge's
`exit_handler`, which may start the same finalisation as the cleanup of the child's pool.

Which behaviours are hard:

* *concurrency* - handlers, Tcl threads, the supervisor and the cleanup thread share queues, arrays, counters
  and one condition variable per thread used in both directions with `apr_thread_cond_signal`;
* *ordering* - headers before body, scripts before/after/abort/error, exit deferred to the end of the request,
  child init/exit scripts around all requests of a thread;
* *failure and stopping* - threads that exit in the middle of service, a child told to stop with requests open,
  thread creation that fails, conditions that hold by the time one waits;
* *stale state* - configuration merged per directory, cached scripts, sessions that time out, indices kept
  beside the data they index;
* *limits* - the queue's capacity, the cache's slots, post and upload limits.

What makes each component correct, in one line:

* bridges: one request - one thread - one answer; nobody waits for ever; the pool is neither leaked nor shared;
* module core: every hook runs on initialised globals, each virtual host gets one index and its interpreter;
* request processing: each request runs its scripts in the documented order and leaves no trace in the next;
* script cache: a lookup returns what the file held at that modification time, and the cache stays bounded;
* request object and body parser: headers leave once and before the body; limits are kept; parts are whole;
* configuration: the innermost block that sets a directive wins, and nothing leaks from one request to another;
* template parser: what is outside markup is output verbatim, what is inside is executed verbatim;
* session: a session belongs to one client, expires, and its data disappears with it;
* simpledb: the index of a field is always the inverse of the items.

## 2. Plan

Most important behaviour first.

1. `WorkerBridge` + `RequestService` (abstract) + `WorkerBridgeProofs`: invariants and refinement - done.
2. `LazyBridge`, refining the same `RequestService`, with `LazyBridgeProofs` - done.
3. `RequestProcessing`: `Rivet_SendContent` and the Tcl request handler, `abort_page`/`exit`, headers - done.
4. `ScriptCache`: lookup/store/cleanup, capacity, modification times, duplicated interpreters; `RequestProofs` for
   both and for the order of scripts - done.
5. `MultipartBuffer`, `BodyParser`, `RequestObject`: bodies over the refilled buffer, and the request as the commands
   of a page see and change it; `RequestObjectProofs` on `FoldFacts` - done.
6. `RivetConfig`, `ServerLifecycle`: configuration, start, restart, children, virtual hosts;
   `ServerLifecycleProofs` on `FoldFacts` - done.
7. `Dio`, `Session`, `SessionProofs`: the session package on a database shared by threads and processes - done.
8. `TemplateParser`, `TextCommands`: the template automaton, list and string commands; `TextCommandsProofs` on
   `FoldFacts` - done.
9. Left: `simpledb`; key sequences of DIO; formbroker.

Which module uses which:

    RequestService <- WorkerBridge <- MCWorkerBridge, WorkerBridgeProofs
    RequestService <- LazyBridge <- MCLazyBridge, LazyBridgeProofs
    ScriptCache <- RequestProcessing <- MCRequestProcessing, RequestProofs
    MultipartBuffer <- BodyParser <- RequestObject <- MCRequestObject, RequestObjectProofs
    RivetConfig <- ServerLifecycle <- MCServerLifecycle, ServerLifecycleProofs
    FoldFacts <- RequestObjectProofs, ServerLifecycleProofs, TextCommandsProofs
    Dio <- Session <- MCSession, SessionProofs
    TemplateParser <- TextCommands <- MCTextCommands, TextCommandsProofs

Out of the prover's reach: liveness under fairness and ENABLED stay with TLC; every invariant of the runs is a
theorem. What a fold or a function defined by
recursion computes can be proved in spite of the operators such definitions take: `FoldFacts` states
induction over the set of numbers that have a property (`Induction`, from the well-founded order of the
naturals) and makes a fold over a sequence a function on the sets of its positions (`IterationExists`, `FoldSteps`,
`FlattenSteps`), whose values on the prefixes 1..k are the states the fold passes through; `LiesAt` says where a
sequence lies in what it was put together to (`FlattenBehind`, `PieceOfPiece`). `SelectSeq` and
`@@`, which the prover does not look into, are avoided in what is proved about.

## 3. Modules

### WorkerBridge, RequestService, WorkerBridgeProofs

`WorkerBridge` models `ng/rivet_worker_mpm.c`: the supervisor (`Sup*`), the Tcl worker threads (`Worker*`,
i.e. `request_processor`), the framework threads (`Handler*`, i.e. `WorkerBridge_Request`) and whoever runs
`WorkerBridge_Finalize`/`WorkerBridge_Shutdown` (`MainFinalize`, `Shutdown*`, `FinalizeJoin`): the cleanup of
the child's pool, or a worker whose script called `exit` when `SingleThreadExit` is off. Variables named after
the C fields: `queue`, `exiting`, `workers`, `threadsCount` are `mpm->...`; `status`, `req`, `code` are the
fields of `handler_private`; `waiters[t]` is the set of threads asleep on that record's condition variable.
Program counters `wpc`, `hpc`, `spc`, `fpc` name the point a thread has reached. A step is what a thread does
between two points where another thread can interfere; a mutex held across steps is read off the program
counters (`Holds`, `JobMutexFree`). Waits may end spuriously (`SpuriousWakeup`).

`RequestService` is what both threaded bridges promise the server: a request is accepted, given to a thread
that has no other, processed once and answered; nothing new is accepted in a stopping child. Each bridge
defines the phase of a request from its own state (`PhaseOf`) and shows `Service!Spec`.

| Run | Question | Bounds |
|---|---|---|
| worker_serve | the safety invariants, the refinement, and that every shutdown ends: several workers and the cleanup finalise at once, thread creation fails, the child is stopped at any moment | 2 slots, 2 handlers, 2 thread identities, 1 of the 5 waits |
| worker_live | posted requests are answered, exited threads replaced | 1 slot, 2 handlers, 2 identities, 2 of the 5 waits, `exit` ends one thread |

Two handlers are the smallest number that contend for one worker; two slots the smallest where one worker can
exit or finalise while another serves; in `worker_live` the second identity lets a replacement start while the old
thread is still announced. A larger queue or more waits only lengthen the same loops.

Fairness: weak fairness of each thread's own steps - the C threads are scheduled by the operating system, a
content script is assumed to end, a mutex or queue that stays available is obtained. No fairness is assumed for
arrivals, `exit`, the server's stop or spurious wakeups. `worker_live` lets the server stop only when its
handlers are idle (`GracefulStop`); without it a handler whose worker quits is never answered, which the code
accepts because the process is about to disappear.

What is proved (`WorkerBridgeProofs`, TLAPS): for any finite or infinite sets of handlers and threads, any pool
size, queue size, number of waits and either setting of the flags, `TypeOK`, `ExclusiveOwner`,
`QueuedWorkersServe`, `ServesItsHandler` and `AnswerIsOwn`. None of them is inductive: that a queued worker is
not shared depends on every popped worker being in the hands of exactly one handler or finaliser, and that a
result goes to the right handler depends on which program counters of the pair (worker, handler) can coexist.
`IInv` adds these correlations: which statuses go with which `wpc`, who may hold which record, and that a worker
outside its loop is neither queued nor held by an open request. The proof has one lemma per action. It assumes
only the two named assumptions of the module.

`WorkerBridgeProofs` also proves that the bridge implements `RequestService` (`WorkerImplementsService`). The phase of a
request changes in six kinds of step, each with a lemma: `HandlerAccept` asks, the pop gives the request to an idle
thread, `WorkerBegin` and `WorkerReply` begin and finish it, `HandlerReturn` returns its answer, and the exit
handler stops or ends the service. Everything else, attaching to the condition variable included, is `Elsewhere` and leaves
the abstract state alone. `IInv` is needed where the abstract service says that a thread has one request: at
each of these steps the record has one holder, so the phases of the other handlers do not move.

Only model-checked: all liveness (it is outside the prover).

Found by reading: `WorkerBridge_Shutdown` does not wait for running threads as its comment says
(`rivet_worker_mpm.c:114`): the count it waits for is refreshed only after a successful pop (`KeepStopping`); the queue
holds 100 records, and with more threads a worker blocks on it with its record's mutex held.

### LazyBridge, LazyBridgeProofs

`LazyBridge` models `ng/rivet_lazy_mpm.c`: handlers (`LazyBridge_Request`, `create_worker`), worker threads
(`request_processor`) and finalisers (`LazyBridge_Finalize` from `Rivet_Finalize` or from `exit`). The array of
each virtual host is kept as APR does (`elts`, `nelts`), because the finaliser pops it without the mutex: its
pop is three steps (test, load of `nelts`, store and load of the element), a worker's push under the mutex one.
`w->conf` starts NULL and is stored by the handler; a thread that reads it earlier crashes the process
(`WorkerConfCrash`), as does popping an array another finaliser emptied (`FinalizeReadCrash`). The consequences
of two threads allocating from the process pool at once are not modelled.

| Run | Question | Bounds |
|---|---|---|
| lazy_serve | no thread lost or lent to another virtual host, and the refinement; several finalisers at once (`SingleThreadExit` off), thread creation may fail | 2 workers, 2 handlers, 2 virtual hosts, 2 of 3 rounds |
| lazy_live | answers and shutdown under fairness, `exit` with `SingleThreadExit` on | 2 workers, 2 handlers, 1 virtual host, 2 rounds |
| lazy_deadworker | finding: a thread that leaves is on the array | 2 workers, 2 handlers |

Bound of the instances: a request that needs a new thread waits until an identity is free (`IdentityLeft`); the
program has no such limit. Fairness is the same as for the worker bridge. The lazy bridge refines
`RequestService` with `BeginsWhileStopping`: it never tests `server_shutdown` after a request was accepted.

What is proved (`LazyBridgeProofs`, TLAPS): `TypeOK`, `VHostsIsolated` and `NoWorkerLost`, for any sets of
handlers and threads, any number of virtual hosts and rounds, threads that cannot be created, and either setting
of the flags. A thread can always be found for three reasons: a handler that popped it holds it until it has taken
its result; what is on an array rests (`Resting`); and until the child stops an array holds a thread once and
nothing beyond `nelts` (`Arrays`). `IInv` adds what the program counters of handlers (`HandlersInv`) and threads
(`WorkersInv`) say, who points to whom and that a finaliser's index lies within its array (`Links`), and that the
counted threads are a finite set (`CountInv`), without which `threads_count` is no cardinality. There is one lemma
per action with one step per conjunct; `PushFacts` says what `apr_array_push` does. It assumes only the two named
assumptions of the module.

`LazyBridgeProofs` also proves that the bridge implements `RequestService` (`LazyImplementsService`). `HandlerMiss` asks,
`HandlerCreate` and `HandlerPop` give the request to a thread (a pop without having asked), `WorkerBegin`,
`WorkerReply` and `HandlerReturn` begin, finish and return it. `HandlerPost` and `FinalizeTell` write a status that
moves no request; everything else is `Elsewhere`.

Only model-checked: all liveness (it is outside the prover).

### ScriptCache, RequestProcessing, RequestProofs

`RequestProcessing` models what one Tcl thread does with the requests a bridge gives it, one after the other:
`Rivet_SendContent` (`Admit` to `SendCleanup`), the request handler it evaluates (`StartPage`, `MainEnds`,
`ClosingEnds`, ... : `rivet/default_request_handler.tcl` and `::Rivet::finish_request`), the commands by which a
script changes the state of the request (`AbortPage`, `Exit`, `NoBody`, `Parse`, `UrlScript`) and the output
channel (`FlushChannel`, `Output`). A script is any sequence of these commands that ends normally, with
`return` or with an error; which scripts exist is chosen per request. `phase` is where the thread is, `ran` the
history of scripts of the request, `sent` what Apache was given of the response. The remaining variables are
the fields of the thread's private data and of the request object.

`ScriptCache` holds the cache operations and their invariants; `RequestProcessing` extends it and calls them as
the code does. File texts are versions (`ver`), which `EditFile` increases at any moment, also between the
time Apache reads a file's times (`Admit`), `parse` reads them (`Parse`) and the text is read (`UrlScript`,
`ParseLoad`). Tcl evaluates the script `parse` found within the calling script: its commands are those of the
caller. Two writes to a file within one second, which a key cannot tell apart, are one version.

`pool` and `tableFreed` are about the memory of a cache. `Rivet_VirtualHostsInterps` allocates the root
interpreter's table from the cache's own pool (`worker_prefork_common.c:185`), and `RivetCache_Cleanup` destroys that
pool and makes a new list but no new table: after the first clean-up for the root server its table is freed memory,
with separate interpreters too. Every other interpreter has its table in the thread's pool, but one that was
duplicated from the root's shares the root's pool. With a cache size of 0 only the root has a table.
`HasTable`, `TableLives` and `Lives` say which memory is there, `UsesFreed` when a lookup touches memory that is
not. Such a step is undefined: the child crashes (`ChildCrashes`; another one, with caches of its own, takes
over), or the memory has not been used again and the step does what it would have done. What a program finds in
memory that was used again is left out. Under the lazy bridge, which calls `Rivet_NewVHostInterp` for
every host, each interpreter is like a virtual host's here.

| Run | Question | Bounds |
|---|---|---|
| request_serve | all invariants of request, channel and cache | the root's interpreter and a separate one of a virtual host, of which a child uses one cache at a time (the root's with one entry at most), 2 files (one also plain Tcl when requested), 1 edit, 2 cache slots, no `-encoding`, abort with a code or none, 2 script sets, user configuration or none |

Two slots are the fewest that distinguish first, last and middle of the list; three keys compete for them
already with one edit of one file; an encoding, which `parse` appends to the file name of the key, would only
add another name. The two script sets cover all five scripts: those around the page and those
for what goes wrong. The caches of separate interpreters have no memory in common, so the constraint
`OneCacheUsed` leaves out children that serve both hosts. A script may flush and print any number of times, `sent`
merges consecutive body parts. Deadlock is checked: the thread can always take a request, and a thread that
left is replaced by the bridge (`NewThread`). There is no liveness here: that a script ends is up to its author.

What is proved (`RequestProofs`, TLAPS): `TypeOK`, `HeadersFirst`, `NothingCarriedOver`, `CacheAccounting`,
`PagesFresh` and `FirstCodeKept`, for any cache size and any sets of interpreters (separate or sharing a pool),
files, encodings, directories, scripts and abort codes. `CacheAccounting` and `PagesFresh` judge a cache as long as
its memory is there, and `CacheAccounting` says where that is so: in every virtual host with an interpreter of its
own, whatever is cleaned up. Of the root's cache after its first clean-up, and of shared pools, they say
nothing, because there is nothing to say of freed memory. The inductive invariant `RInv` adds three things to the
types. `CacheInv`: the tables are finite, without which their cardinality says nothing, every entry
is what its key says, and only the root's table is ever given back (`PoolsOwned`). `TimesSound`: the times in a request and in a pending lookup are at most the file's
present ones; this is why a text read after its times were taken can only be newer than its key, and why
`EntriesSound` survives a store. `ResponseSound` and `ThreadClean`: what the place of the thread in
`Rivet_SendContent` says of its flags, above all that `headers_printed` agrees with what was sent exactly from
the handler's start to its end; outside it the flag is stale and nothing may print. The operations of the cache
have lemmas of their own (`StoreKeepsCache`, `CleanupKeepsCache`), and so have the handler (`ScriptEndsProceeds`)
and the channel (`OutputSound`).

`FirstCodeKept` is an action property that is proved and not run.

`ScriptsInOrder` is proved on top of `RInv`. The invariant `OrderInv` says of the history alone that
each script may follow the one before (`Follows`), that AbortScript and AfterEveryScript ran at most once and that
only ErrorScript comes after the latter (`Ordered`), and that AbortScript has run exactly if a main script was interrupted
(`AbortRun`); and, of the thread's place, that only main scripts that went well lie behind a main script and only
BeforeScript behind the loading of a page. `AbortRun` is broken while `ScriptEnds` is evaluated, between the end of
the interrupted script and the start of AbortScript, so the lemmas are stated for a history `h` and the script started
after it (`StartKeeps`, `EveryKeeps`, `ErrorKeeps`), not for states.

Found by reading and modelled: a user configuration of the root server empties its cache by
`RivetCache_Cleanup`, which destroys the pool the table `objCache` was allocated from (`mod_rivet_cache.c:120`,
`worker_prefork_common.c:185`) and never makes the table again, although the comment at `mod_rivet_cache.c:97`
says no more than that the cache is emptied. The next lookup for the root server (`rivetCore.c:2090` and on) is a use after
free, under the prefork and the worker bridge, whether interpreters are separate or not. With the
property `\A i \in Interps : Lives(i)` TLC shows it with two requests. A duplicated interpreter object
shares the pool of its source (`worker_prefork_common.c:66`), which `RivetCache_Cleanup` of either destroys,
although the comment there says that an interpreter must have its own cache. A virtual host with a cache size of 0 has no
table, and `url_script` looks its key up in it.

Found by reading, not expressed as a property: `abort_page` neither flushes the buffer nor stops what comes
later, as `src/doc/xml/commands.xml:104` says; an `abort_page` that a plain `catch` swallows still marks
the request as aborting; an `exit` or the first `abort_page` in AbortScript or AfterEveryScript is reported as
a failure of that script; a cache that was full once never logs it again, and old versions are never evicted.
The merged configuration of a directory is built for its first request only (`mod_rivet_generator.c:154`), so that
its `UploadDirectory` is used once.

### MultipartBuffer, BodyParser, RequestObject, RequestObjectProofs, FoldFacts

`MultipartBuffer` is `src/request/apache_multipart_buffer.c`: the buffer's memory with what earlier fills left in
it, `Fill`, `NextLine`, `MemStr`, `Read`. `BodyParser` is `apache_request.c`: the query string, a urlencoded body
(`UtilRead`), the multipart parser with one action per pass of its loops (`AtEof`, `FindBoundary`, `HeaderLine`,
`TmpFile`, `MozillaCheck`, `ReadValue`, `ReadFile`). Apache hands the body over in blocks: whole, short, or none any
more when the connection is lost; a temporary file may not be creatable or writable. A byte is a name; the boundary has three. What the client means is a form; `Encode` makes its bytes, and the
properties compare what was parsed with the form.

`RequestObject` is `ng/TclWebapache.c` with the commands of `ng/rivetCore.c` that use it: `var`, `var_qs`, `var_post`,
`upload`, `headers type`, `env`, `load_env`, `apache_table` on the environment, `include`, `with_binary_output`,
`write_binary`, and a script's own `fconfigure`. A page is any sequence of them. `asked` records the channel settings
in force outside of `with_binary_output`, `late` the variables set after their group was loaded. What the channel
holds is left to `RequestProcessing`: a flush prints the headers or, if there is nothing to write, does not (`Flushed`).

| Run | Question | Bounds |
|---|---|---|
| request_object | forms are read as sent; sources of variables, temporary files, channel settings and environment, over two requests of one thread | FILLUNIT 10 instead of 5120; 3 forms (a value and a file with line ends, dashes and a byte 0 in them; a part that says nothing, one with a file but no name, empty files with and without line end, behind a long preamble; a body over the limit), query strings with 0 or 1 parameter, blocks short by any amount down to 3 or lost; 2 requests, 3 commands a page |
| body_boundary | finding: a delimiter cut by the end of the full buffer | one file of 1 to 12 bytes |

A FILLUNIT of 10 makes the buffer shorter than any body, so that refills fall on every place of a boundary, a line
end and a header; the code's sizes differ only in how long the stretches between refills are. Two requests are what
it takes for one to leave something to the next. Deadlock is checked, `Done` is the end of the instance.

`FormFaithful` speaks of bodies that were neither lost nor hit by the two defects of the buffer, which the model
notes when they happen: `edge` (the comparison of `my_memstr`, which takes the whole delimiter however few valid bytes
are left: a delimiter that is not whole in the buffer is missed, or one is found that only what an earlier fill left
in the memory completes) and `cut` (a line given up because one fill did not complete it). `body_boundary` shows the
first of the two `edge`s without that exclusion. The second needs data that begin like the delimiter, for instance a
value `<LF>-x` read in short blocks behind a preamble of one line end: it comes out empty. TLC found it on instances
larger than the runs', when an `edge` that only meant the first let `FormFaithful` fail.

What is proved (`RequestObjectProofs`, TLAPS): `TypeOK`, `ScopeRestores`, `TextInCharset`, `TmpFilesGone`,
`EnvOverrideKept`, `BufferIsNextData`, `VarSources` and `FormFaithful`, for every size of the buffer, every set of forms, queries,
charsets, encodings, types and variables, and any number of requests and commands. The invariant `ObjInv` has a part for each. `ScopesInv`: the
outermost of the nested `with_binary_output` holds what is in force outside, and none is open between requests,
which is why the settings saved by one cannot end up in another request; `CharsetInv` speaks of `asked`, since the
channel itself is binary within one. `EnvSound` ties each variable of `late` to a loaded group, so that `Load` cannot
touch it (`LoadSound`). `FilesInv`: the files of all uploads are there, but for the last one where the parser is about to
make it; none is left when the thread is idle.

`BufferInv` is the refill buffer's: while the parser reads, `pos` bytes of the body were handed over and the buffer
`Holds` the last `n` of them at `begin` (`BufOK` bounds both by the buffer's memory, a begin of NULL goes with no data).
`FillFacts` is the heart of it: a fill that moves what is left to the front, and one that keeps it where it is, both
leave old and new bytes side by side whatever earlier fills left in the memory. A line or a block taken leaves a buffer
that `Follows` the one before: it holds the last bytes of whatever that held, also where a full buffer without a
newline is given up and `begin` becomes NULL. `ParmInv` is the parameters': those of the
query string come first and are counted by `nargs`, whatever the parser appends. For `VarSources` the fold
behind `var list` and the function behind `var all` are compared with `VarExists` position by position.
`TypeOK` bounds `remaining` from above only: `apache_request.c:638` subtracts two for every empty file, so that the count
may fall below zero.
Assumed are the named assumptions of the modules, `InputAssumption` among them: what clients send are sequences of bytes.

`FormFaithful` is proved on top of these (`FormInv`), as a comparison of the parser's whole run over a body with the form
the body was made of. The parser's place in the body is `Taken`, `pos - buf.n`: the bytes handed over without those still
in the buffer.

- The form as positions. `FormLies` finds, for every form, a place a[j] behind the j-th part, such that a boundary lies
  behind a[j], the part's headers and data at fixed distances from it (`PartLies`), the last boundary behind a[m], and whole
  lines without a boundary before a[0] (`LinesUntil`); the parameters and files of the first j parts are v[j] and u[j]
  (`JoinedUpTo`).
- The operations as steps over the body. `LineRead`, from `BufferInv`, says which bytes of the body a line is and what it
  takes (`LineOf`); `ReadLength` and `NoEdge` say how long a block read is, and that it stops before the
  delimiter and not elsewhere unless an `edge` was met; `LineAtPart`, `LineAtEnd`, `LineAtHeader`, `LineIsEmpty` do that
  for each kind of line.
- The invariant. `StreamInv` says that what is read so far is the beginning of the form: for some j the parser is `Between`
  parts with v[j] and u[j] read and only lines without a boundary before a[j], or in part j + 1: after i header lines with
  `hdr` their bytes (`InHeaders`), or in its data, the bytes from its first to `Taken` being the value or the
  last upload (`InValue`, `InFile`). `Room(j)` is about `remaining`: each empty file took two off it, and it must
  not reach zero before the body is over; a part has at least seven bytes, so it does not. `StartInv` and `PlainInv` are
  about a body not yet read and a urlencoded one, `RunInv` about the page.
- The steps. `BoundaryStep`, `HeaderStep`, `TmpFileStep`, `MozillaStep`, `ValueStep` and `FileStep` are about one part at
  given positions, `FormBoundary` to `FormRead` about the form, and `OddStays` says that what went wrong stays wrong, so
  that nothing has to be known of such a body. `UploadSave` then copies a file of the form, since `UploadIndex` finds an
  upload for every name (`UploadChosen`) and its temporary file is there (`FilesInv`).

Two assumptions carry it, which TLC evaluates on the runs' constants. `FormAssumption` is what a client owes the
parser: a boundary that occurs in no preamble, header or data; headers of one line; a preamble of whole lines; a
part that ends with a line end or is an empty file without one; no byte 0 in a value, since each read of one is
appended as a C string (`CString`, `apache_multipart_buffer.c:299`) and what is behind the byte in the same read is
lost, which depends on how the body was cut into blocks; and none where the parser takes the body line by line, since
the model has the line of one byte 0 stand for the NULL of `next_line` (`NoLine`). Files may hold any byte, and the
instance's file holds a 0. `FillUnit > 2`: a
block read returns at most FILLUNIT - 1 bytes and, with a delimiter in the buffer, gives a CR at their end back, so that
a piece of the one byte CR would be empty and read as the end of the data; FILLUNIT is 5120 in the code.

Found by reading: `get_line` fills once, so a slow client's body may end early without an error
(`apache_multipart_buffer.c:146`); `include` does not put back `-eofchar`; a variable set with `apache_table`
before its group was loaded is overwritten by the next `env`; a byte 0 in a value of a form cuts what is left of it in
the same read; a `Content-Disposition` with neither a name nor a file name adds a parameter without a key
(`apache_request.c:600`), which is undefined and excluded by `BodyAssumption`.

### RivetConfig, ServerLifecycle, ServerLifecycleProofs

`RivetConfig` holds the configuration records and the operations of `ng/apache_config.c` on them: the three
directives (`ServerConf`, `DirConf`, `UserConf`), the merges Apache asks for (`MergeConfig`, `MergeDirConfig`), the
copy for a virtual host without a record of its own (`CopyConfig`) and the configuration of a request (`GetConf`).
The text of a script is the sequence of directives it was put together from.

`ServerLifecycle` drives them through the life of a server: the configuration file is read, once more after the
first run of `Rivet_ServerInit` (which only leaves a mark in the process pool), and again at every restart; the
bridge is chosen and initialised, `ServerInitScript` runs in the parent; a child gives every server its record and
index (`ChildInit`), makes the interpreter objects one virtual host after the other (`VHostInterp`), runs the child
scripts, serves requests and ends. `Request` is `Rivet_SendContent` up to the choice of the scripts, with
Apache's directory walk (`PerDirConfig`, external), the scripts kept by path (`StorePerDir`), and
what `::rivet::inspect` answers a script (`Inspected`). `EditUserConf` writes an `.htaccess` file at any moment.

| Run | Question | Bounds |
|---|---|---|
| lifecycle_serve | the definition closest to a request's directory wins, inspect agrees, indexes and init scripts | every file of up to 3 of the 13 directives; root and 2 virtual hosts (one without directives); directories `/a`, `/a/b`, `/u`; 1 edit, 1 child, 1 restart, 2 requests; both bridges |

`ClosestWins` and `InitScriptsOnce` compare what the chain of merges, copies and caches yields with reference
definitions that look at the file alone (`OfPlace`, `ServerText`). Three directives are needed for a text of
the root, of a virtual host and of a section to compete; two requests for the second to find what the first stored. One
child and one restart show that nothing is inherited from the reading before. Deadlock is not checked: the bounds on
edits, children, restarts and requests end a behaviour, and a server whose bridge is missing is down. `EnvBridge`, the
bridge that `RIVET_MPM_BRIDGE` names in the environment, is not set in the instance: the configured one and the choice
by the MPM's kind come after it. `Names` holds the directories of uploads and the bridges a directive may name; it gives the
records their types and has one member here.

What is proved (`ServerLifecycleProofs`, TLAPS): `TypeOK`, `VHostsIndexed` and `InitScriptsOnce` for every set of directives,
any virtual hosts and directories, and any numbers of edits, restarts, children and requests. `IInv` follows
the records: while the file is read each is what the lines read so far make of it (`ReadUpTo`, carried through the fold
over the file by `ReadStep`), afterwards it is what all its lines make (`RecordsInv`), and a child's records are
`ChildRecords` of them (`ChildInv`). `InitScriptsOnce` is not inductive because it says nothing of a child that is half
made: `LogInv` tells, for the host the child is at, which lines may have been evaluated in which interpreter (`Allowed`),
that none is there twice (`LogOnce`), and which are.

`ClosestWins` and `InspectTruth` are proved under the hypothesis `UserAlone`: a directory with a `RivetUserConf`, in a
section or in its `.htaccess` file, has no configured directory above or below it. The instance TLC checks
satisfies it, and without it both are false (below). The walk to a directory is taken apart into its steps
(`EnterDirFacts`): up to three records are merged at each, and after every one a script's text is that of the closest
definition so far (`WalkTexts`), while the record's path is that of the innermost section (`WalkPlaces`). `CacheInv`
says what is kept of earlier requests. Without any hypothesis, `InspectSeesClosest` shows that what `::rivet::inspect`
answers, which goes through the same merges and copies but keeps nothing, is always the closest definition: the
merges are right, only what is kept by path can be stale. Assumed are the named assumptions of the two modules: each
directory's path begins with the paths of those above it (`PathAssumption`), directives occur where the
handlers accept them (`DirectiveAssumption`), and `None` is no record (`NullAssumption`, `ObjectAssumption`).

Outside the instance, because `UserAlone` excludes it: a directory with a section of its own below an `.htaccess` file with a `RivetUserConf`.
There `ClosestWins` fails, which is a defect of the code: `Rivet_MergeDirConfigVars` takes `user_scripts_status`
from the inner record only (`apache_config.c:300`), so `Rivet_SendContent` takes the scripts it kept at the
directory's first request and never looks at the `.htaccess` file again. TLC shows it with
`Dirs = {"u", "ux"}`, a `RivetDirConf AfterScript` for `/u/x` and one edit of `/u/.htaccess`. And an `.htaccess` file
with a `RivetUserConf` in a directory below a section: the merged record has the section's path, so that
`Rivet_SendContent` (`mod_rivet_generator.c:154`) keeps the user's scripts under it if a request below comes first, and
runs them for every later request of the section. TLC shows this one with a section of `/a` and one edit of
`/a/b/.htaccess`.

Not expressed as a property, and contrary to a comment: `ClosestWins` takes for the text of a definition all its lines
of a script, one after the other, since that is what `Rivet_SetScript` does with every script
(`apache_config.c:140`). The comment on it says that Before, After and Error scripts "override the old directive
completely" (`:99`-`:101`). With a reference that takes only the last line of these three (in `LinesText`), TLC
finds `ClosestWins` violated by a record with two `BeforeScript` lines, of which both run. Between records a definition does replace the other.

Found by reading, not expressed as a property: a `RivetUserConf` overrides the `RivetDirConf` of an outer
section, the manual says the opposite (`src/doc/xml/directives.xml:24`); the prefork bridge runs `ChildExitScript`
only after `exit`; `MergeConfig` takes `honor_head_requests`, `upload_max` and others from the root server even if the
virtual host sets them; a virtual host's `cache_size` of -1 (its default) replaces the root's; a copied record
has no child scripts of its own, which only `SeparateVirtualInterps` makes visible.

### Dio, Session, SessionProofs

`Session` models the package `rivet/packages/session`: the threads of the server, each with a Session object that
lives as long as its interpreter, share the tables `rivet_session` and `rivet_session_cache` (`sess`, `cache`).
`BeginRequest` drops what `::request` kept (`sid`, the variable `sessionInfo(sessionID)`); then the script calls
methods in any order (`Call`), each of which runs `id` first. Every SQL statement is a step of its own, because
requests of one client may run in several threads and processes: `IdFetch` and, by what it found, `IdDelete`
or `RefreshSelect` and `RefreshWrite`; then the method itself (`Create`, `StoreSelect`, `StoreData`, `Clear`,
`DeleteSession`). `fetch`, `load` and `stash` add nothing: the first two read only, the third is `store` again.
A statement that fails ends the method, and the script goes on. Times are ages, `Tick` makes them older up to one
more than the garbage collection's limit. Data stored by a request stand for the client it serves. `Collect` is the garbage
collection of another process. `owner` and `lastUse` are history.

`Dio` holds the methods of a database handle these use, on a table seen as a function: `StoreWrite` is what
`store` does after its select. `Tdbc` chooses between the handle of the Tdbc connector, which has an `update` of its
own, and all the others.

| Run | Question | Bounds |
|---|---|---|
| session_serve | isolation, is_new_session, extension of sessions in use | 2 threads, 2 clients, 2 ids, 1 key; lifetime 1, refresh interval 0, collection after 1; Tdbc |
| session_refresh | finding: with any other connector a refresh fails | the same |

Two threads are the fewest that interleave the statements of two methods, two clients the fewest that can mix
up sessions; each thread serves both in turn. Lifetime and interval differ, so that a session can be fresh, due for a
refresh, or timed out; the collection's limit may equal the lifetime. `Unused` gives an id again once nobody
knows it. Deadlock is checked. No fairness and no liveness: what a script calls is up to its author.

The instance is the one for which the schema of `session-create-postgresql.sql` is used: unique `session_id`,
cache rows that refer to it and are deleted with it.

What is proved (`SessionProofs`, TLAPS): `TypeOK`, `SessionIsolation` and `NewOfRequest` for any sets of threads,
clients, ids and keys, any intervals and either kind of handle, and `InUseExtended` for the handle whose `update`
works. `IInv` says where an id may be: what a request holds of ids (its cookie, its answer, its session, the local
of a method) was made for its client (`ThreadInv`), what a client's jar holds was made for the client (`JarInv`), a
session's row has its owner's address and a row of data a session that exists (`TabInv`: the foreign key). That
suffices because an id is given again only when nobody knows it (`CreateKeeps`), and because the row that a
refresh writes, even when it inserts it anew, has the address of the client whose cookie it was. `Extended` is
sharper than the property: a thread extends a session only if the select of its `store` found the row, since an
insert over a row that came back fails. Steps that only delete rows share one lemma (`DeletesKeep`,
`StaysExtended`), and so do the ends of `id` and of a method (`IdReturnsFacts`, `ReturnFacts`).

Found by reading, not expressed as a property: a session that another
request deletes between the fetch of `id` and the select of the refresh is inserted again by the refresh; `IdDelete` deletes a row that another request has just refreshed; a `store` whose row is deleted between its
two statements reports success; `new_session_reason` keeps the reason of an earlier session of the same object
although `session-class.tcl:487` says it returns "" for a session that is not new; after `delete_session` the rest of
the request goes on with the id of the deleted session.

### TemplateParser, TextCommands, TextCommandsProofs

`TemplateParser` is the automaton of `src/parser/rivetParser.c`, one `Step` per character folded over the template,
with the text that `Rivet_GetRivetFileEncoding` puts around it (`Translate`). `Meaning` says what a template
means by looking for whole tags; `Reading` says how Tcl reads the script; `TemplateFaithful` compares the two.
`Odd` templates - a tag behind an equal character, as in `<<?`, or half a tag at the end - are translated differently
and are left out of the comparison, not of the check that every character is escaped.

`TextCommands` models `lremove`, `lassign_array`, `comma_join`, `comma_split`, `escape_string`, `unescape_string`,
`escape_sgml_chars` and `escape_shell_command` (`src/librivet/`) and the decoding of a query string
(`split_to_parms`, `ap_unescape_url_u`), each a function compared with what it means.

| Run | Question | Bounds |
|---|---|---|
| text_commands | templates, list commands, escapes | every template of up to 6 of 6 characters; lists of up to 3 of 3 elements with up to 2 of 3 patterns; lines of up to 3 fields of up to 2 characters; strings of up to 3 of 11 bytes |

Six characters hold an opening and a closing tag with a character before, in and behind; the four characters of the
tags, an ordinary one and one to escape are all the automaton distinguishes. Three bytes hold one `%XX`. A NUL byte, which ends a C string, is not in the instance.

What is proved (`TextCommandsProofs`, TLAPS): `TemplateFaithful`, `ListMeaning` and `EscapesUndone`, all of the run's
properties, for arguments of every length. `TextAssumption` says what the arguments are: the bytes of strings are those of
a C string (1 to 255), a pattern is the set of the elements it matches, a field is a sequence of characters, and no
character of a template is one of the three texts that the translation puts around it, which are one symbol each in
the model. An action calls one command, so that each theorem is a matter of what the command returns. Each loop over
an argument is a fold; it is unrolled to a walk, the states `g[0], g[1], ...` the loop passes through, and what has
become of the first k characters is proved by induction over k. Where a command reads what another one wrote, the
induction is over the pieces written (`LiesAt` gives each its place), and one more lemma says how the
reader takes one piece:

* `EscapesUndone`: `ByteDecoded` reads one escaped byte with both decoders; `DecodersAgree` follows them in
  step through any string, until one finds a `%` without two digits; `WordsRead` and `ParmsUndone` do the words and pairs of a
  query string, whose separators no escaped byte is one of (`EscapeIsSafe`). `ShellUndone` follows the shell over an escaped
  string, `ByteRead` over one of its bytes.
* `TemplateFaithful`: parser, reading and meaning walk over the template and the script together (`TranslationRead`). The
  relation between them says what the automaton still holds back, the first character of what may become a tag
  (`MeaningIs`): at such a place the meaning, which looks ahead, has either taken that character already or met the tag
  that the automaton sees with the next one only.
* `ListMeaning`: `LremoveFirst` splits the walk at the least hit; `LineSplit` and `JoinSplit` take a line field by field,
  `DoubledRead` a quoted field with its doubled quotes; `GivenIs` goes by the index of each element.

TLC checks the same properties on the bounded instance, where each of them is broken by its mutated form.

What the properties do not ask for, because the code does otherwise:

* `comma_split` does not turn two quotes in the body of a field into one, as its comments say (`rivetList.c:244`,
  `:289`): it passes over the pair and the field keeps both, so that `comma_split` does not undo `comma_join`, which
  doubles them. `ListMeaning` asks that each field comes back as it was or with its quotes doubled; with the first
  alone TLC finds it violated by a list of one field that is a quote.
* `comma_split` reports a format error for every line whose last field is quoted: no comma is behind the closing
  quote, so that it is taken for a quote within the field (`:299`) and the end of the line for the end of an unterminated
  string (`:281`), although the code below means to allow it (`:317`). `ListMeaning` compares lines that go on.
* `escape_shell_command` escapes the twenty characters of its own list (`rivetWWW.c:335`). A double quote, `#` and
  newline, which mean something to a shell as well, are not in it and stay as they are; the manual's list ends with "etc."
  (`src/doc/xml/commands.xml:567`). `EscapesUndone` says what a shell makes of the characters of the list
  (`ShellReading`): a backslash makes the byte behind it literal, every other byte is itself, and a character of the list
  that is not behind a backslash would be `bad`.


## 4. Mutants

Each definition with the suffix of a mutated form (`Completed_Spurious`, `EndRequest_KeepFailed`, ...) is the
definition before or after it with a plausible mistake; PROJECT.json says which run and property notices each.
None of them is part of a specification.

## 5. Not modelled

* `simpledb`: an in-memory table that the module itself does not use. Its index is wrong after the first update
  (`simpledb.tcl:168` writes the name of a variable instead of its value), so it has no invariant to keep.
* DIO beyond the operations sessions need: texts of SQL statements, connections, key sequences, the display.
* `form`, `formbroker` and the other packages: HTML formatting and validation of single fields, sequential code.
* `rivetCrypt.c`, cookies and redirection: conversions and formatting.
* `%uXXXX` escapes, upload hooks, expiry dates of cookies (`apache_request.c`); commands that only read the request
  (`raw_post`, `load_headers`, `makeurl`) or write to the log.
* Conversions between the encodings of Tcl and of the system.
* The release of interpreters at the end of a thread (`Rivet_ReleasePerDirScripts`), whose entries are released as if they were Tcl
  objects (`mod_rivet_common.c:221`): what this does to memory is undefined.
* What a race inside APR's allocator does (`rivet_lazy_mpm.c:391` allocates from the process pool under the mutex of
  one virtual host).
* What a request finds in freed memory of a script cache that was used again for something else.
* The CGI variant: stubs that are not built by default.
