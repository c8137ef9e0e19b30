--------------------------- MODULE ServerLifecycle ---------------------------
(* The life of a server that runs mod_rivet: the configuration is read twice *)
(* at start and once at every restart (mod_rivet.c, the hooks of Apache),    *)
(* the bridge is chosen and loaded, ServerInitScript runs in the parent;     *)
(* children start and build their virtual hosts' interpreters and run the    *)
(* child scripts (rivet_prefork_mpm.c, worker_prefork_common.c), serve       *)
(* requests of directories, each with its configuration                      *)
(* (mod_rivet_generator.c), and end.                                         *)
(*                                                                           *)
(* One child, and in it one Tcl thread, is followed at a time: children      *)
(* share nothing but what they were forked with, and with the worker bridge  *)
(* (the composition of its threads is in WorkerBridge) each thread has       *)
(* interpreters of its own.                                                  *)
EXTENDS RivetConfig, FiniteSets, SequencesExt

CONSTANTS
    VHosts,        \* how many virtual hosts: servers are 0..VHosts, 0 the root
    Path,          \* from a directory to the directories above it and itself
    Directives,    \* what a configuration file may contain
    MaxLines,      \* bound on the length of a configuration file
    UserDirs,      \* directories whose .htaccess holds a RivetUserConf
    MaxEdits,      \* bound on how often an .htaccess file is written
    MaxChildren,   \* bound on the children of a configuration
    MaxRestarts,   \* bound on restarts of the server
    MaxRequests,   \* bound on the requests a child serves
    Threaded,      \* what ap_mpm_query answers of the MPM
    Bridges,       \* the bridges installed
    EnvBridge      \* the bridge RIVET_MPM_BRIDGE names in the environment, or None

ASSUME LifecycleAssumption ==
    /\ VHosts \in Nat /\ MaxLines \in Nat /\ MaxEdits \in Nat /\ MaxChildren \in Nat
    /\ MaxRestarts \in Nat /\ MaxRequests \in Nat
    /\ UserDirs \subseteq Dirs /\ EnvBridge \in Names \cup {"worker", "prefork", None}

(* The path of a directory ends in it and begins with those of the           *)
(* directories above it.                                                     *)
ASSUME PathAssumption ==
    /\ Path \in [Dirs -> Seq(Dirs)]
    /\ \A d \in Dirs : Path[d] # <<>> /\ Path[d][Len(Path[d])] = d
    /\ \A d \in Dirs : \A n \in 1..Len(Path[d]) : Path[Path[d][n]] = SubSeq(Path[d], 1, n)

Hosts == 0..VHosts
Root  == 0

(* What the handlers of the directives let pass: a section names its         *)
(* directory and none of the scripts only a server has; values have a type.  *)
ValueOf(var) ==
    CASE var = "CacheSize" -> Int
      [] var \in {"HonorHeadRequests", "SeparateVirtualInterps", "SingleThreadExit"} -> BOOLEAN
      [] OTHER -> Names \cup {None}

ASSUME DirectiveAssumption ==
    \A l \in Directives :
        /\ l.kind \in {"server", "dir", "user"} /\ l.host \in Hosts
        /\ l.kind # "server" => l.dir \in Dirs /\ l.var \notin Script \ SectionScript
        /\ l.val \in ValueOf(l.var)

VARIABLES
    file,       \* the configuration file
    edits,      \* how often each .htaccess was written, 0 if there is none
    phase,      \* where the server is in Apache's start sequence
    userdata,   \* "rivet_post_config" is set in the process pool
    restarts,
    globals,    \* module_globals, None before pre_config
    server,     \* the record of each server; None: it shares the root's
    section,    \* the record of each <Directory> section that has one
    master,     \* the texts the parent's interpreter evaluated
    children, child,   \* children so far; where the current one is
    pos,        \* the virtual host the child's loop is at
    crec,       \* the server records in the child
    interps,    \* the thread's array of rivet_thread_interp objects
    evald,      \* the texts each Tcl interpreter evaluated, by its first host
    req_cnt,    \* requests the thread served
    last        \* the last request: place, scripts run, scripts inspected

parentVars == <<file, phase, userdata, restarts, globals, server, section, master>>
memory     == <<crec, interps, evald, req_cnt, last>>
childVars  == <<children, child, pos, memory>>
vars == <<parentVars, edits, childVars>>

(* mod_rivet_globals, and a rivet_thread_interp: the Tcl interpreter, by its *)
(* first host, its server's scripts and those kept for directories.          *)
Globals == [serverInit : Seq(TextItem), separate : BOOLEAN, singleExit : BOOLEAN \cup {None},
            mpmBridge : Names \cup {None},
            bridge : Names \cup {"worker", "prefork", None}]
InterpObject == [tcl : Hosts, scripts : Running, perDir : [Dirs -> Running \cup {None}]]

ASSUME ObjectAssumption == None \notin InterpObject

Text(i)      == <<"line", i>>
RivetInit    == <<<<"Rivet", 0>>>>
LinesOf(h)   == {i \in DOMAIN file : file[i].host = h}

NoInterps == [i \in Hosts |-> None]
NoTexts   == [h \in Hosts |-> <<>>]

Init ==
    /\ file \in UNION {[1..n -> Directives] : n \in 0..MaxLines}
    /\ edits = [d \in UserDirs |-> 0]
    /\ phase = "start" /\ userdata = FALSE /\ restarts = 0 /\ globals = None
    /\ server = [h \in Hosts |-> None]
    /\ section = [h \in Hosts |-> [d \in Dirs |-> None]]
    /\ master = <<>>
    /\ children = 0 /\ child = "none" /\ pos = Root
    /\ crec = [h \in Hosts |-> None] /\ interps = NoInterps /\ evald = NoTexts
    /\ req_cnt = 0 /\ last = None
-----------------------------------------------------------------------------
(* Reading the configuration.                                                *)

(* Rivet_CreateModuleGlobals.                                                *)
CreateModuleGlobals ==
    [serverInit |-> <<>>, separate |-> FALSE, singleExit |-> None, mpmBridge |-> None,
     bridge |-> None]

(* Rivet_InitGlobals, the pre_config hook; the pool the last reading's       *)
(* records lived in was cleared.                                             *)
InitGlobals ==
    /\ phase = "start"
    /\ phase' = "reading"
    /\ globals' = CreateModuleGlobals
    /\ server' = [h \in Hosts |-> IF h = Root THEN CreateConfig ELSE None]
    /\ section' = [h \in Hosts |-> [d \in Dirs |-> None]]
    /\ UNCHANGED <<file, userdata, restarts, master, edits, childVars>>

(* What RivetServerConf sets in module_globals.                              *)
SetGlobal(g, var, val, t) ==
    CASE var = "ServerInitScript"       -> [g EXCEPT !.serverInit = Append(@, t)]
      [] var = "SeparateVirtualInterps" -> [g EXCEPT !.separate = val]
      [] var = "SingleThreadExit"       -> [g EXCEPT !.singleExit = val]
      [] var = "MpmBridge"              -> [g EXCEPT !.mpmBridge = val]
      [] OTHER                          -> g

(* Apache gives a server, and a section, its record when it meets the first  *)
(* directive of the module there.                                            *)
RecordOf(r, h)        == IF r[h] = None THEN CreateConfig ELSE r[h]
SectionOf(s, h, d)    == IF s[h][d] = None THEN CreateDirConfig ELSE s[h][d]

(* Line i of the file, on the globals, server and section records st.        *)
Directive(st, i) ==
    LET l == file[i]
        t == Text(i)
        rec == RecordOf(st.server, l.host)
    IN IF l.kind = "server"
       THEN [st EXCEPT !.globals = SetGlobal(@, l.var, l.val, t),
                       !.server[l.host] = ServerConf(rec, l.var, l.val, t)]
       ELSE LET sec == SectionOf(st.section, l.host, l.dir)
            IN [st EXCEPT !.server[l.host] = rec,
                          !.section[l.host][l.dir] =
                              IF l.kind = "dir" THEN DirConf(sec, l.dir, l.var, l.val, t)
                              ELSE UserConf(sec, l.var, t)]

(* ap_process_config_tree: the lines of the file, one after the other.       *)
ReadLines(start) == FoldLeft(Directive, start, [i \in DOMAIN file |-> i])

(* ap_process_config_tree, then ap_fixup_virtual_hosts: a virtual host with  *)
(* a record of its own gets it merged with the root's, the others share that.*)
ReadConfig ==
    LET read == ReadLines([globals |-> globals, server |-> server, section |-> section])
    IN /\ phase = "reading"
       /\ phase' = "read"
       /\ globals' = read.globals /\ section' = read.section
       /\ server' = [h \in Hosts |->
                        IF h = Root \/ read.server[h] = None THEN read.server[h]
                        ELSE MergeConfig(read.server[Root], read.server[h])]
       /\ UNCHANGED <<file, userdata, restarts, master, edits, childVars>>

(* Rivet_SeekMPMBridge: the bridge of the environment, else the configured   *)
(* one, else by the MPM's kind.                                              *)
SeekMPMBridge ==
    CASE EnvBridge # None -> EnvBridge
      [] EnvBridge = None /\ globals.mpmBridge # None -> globals.mpmBridge
      [] OTHER -> IF Threaded THEN "worker" ELSE "prefork"

(* The bridges' server_init: single_thread_exit when it was not configured.  *)
BridgeServerInit(g) ==
    IF g.singleExit = None THEN [g EXCEPT !.singleExit = (g.bridge # "prefork")] ELSE g

(* An interpreter evaluates a script, if there is one; an error is logged.   *)
Eval(log, t) == IF t = <<>> THEN log ELSE Append(log, t)

(* Rivet_PerInterpInit: the Rivet commands and package in an interpreter; a  *)
(* package that cannot be loaded ends the process.                           *)
PerInterpInit(log) == Eval(log, RivetInit)

(* Rivet_RunServerInit: the master interpreter is made and evaluates         *)
(* ServerInitScript, then the bridge's part.                                 *)
RunServerInit(g) ==
    /\ master' = Eval(PerInterpInit(<<>>), g.serverInit)
    /\ globals' = BridgeServerInit(g)

(* Rivet_ServerInit, the post_config hook: the first run only leaves a mark. *)
(* A bridge that is not found or cannot be loaded ends the server.           *)
ServerInitFirst ==
    /\ phase = "read" /\ ~userdata
    /\ userdata' = TRUE /\ phase' = "start"
    /\ UNCHANGED <<file, restarts, globals, server, section, master, edits, childVars>>

ServerInit ==
    /\ phase = "read" /\ userdata
    /\ IF SeekMPMBridge \in Bridges
       THEN /\ phase' = "up"
            /\ RunServerInit([globals EXCEPT !.bridge = SeekMPMBridge])
       ELSE phase' = "down" /\ UNCHANGED <<globals, master>>
    /\ UNCHANGED <<file, userdata, restarts, server, section, edits, childVars>>

(* The server is restarted: the children are gone, the configuration is read *)
(* again in the same process.                                                *)
Restart ==
    /\ phase = "up" /\ child = "none" /\ restarts < MaxRestarts
    /\ restarts' = restarts + 1 /\ phase' = "start" /\ children' = 0
    /\ UNCHANGED <<file, userdata, globals, server, section, master, edits, child, pos, memory>>
-----------------------------------------------------------------------------
(* A child starts.                                                           *)

(* Rivet_ChildInit: every server gets a record of its own and an index.      *)
\* mutant: a shared record is not copied: all that share it get the last index
ChildRecords_Shared ==
    LET sharing == {h \in Hosts : h = Root \/ server[h] = None}
    IN [h \in Hosts |-> [(IF h \in sharing THEN server[Root] ELSE server[h])
            EXCEPT !.idx = IF h \in sharing THEN CHOOSE m \in sharing : \A g \in sharing : g <= m
                           ELSE h]]
\* mutant: the indexes start at 1
ChildRecords_FromOne ==
    [h \in Hosts |-> [(IF server[h] = None THEN CopyConfig(server[Root], Zeroed) ELSE server[h])
                        EXCEPT !.idx = h + 1]]
ChildRecords ==
    [h \in Hosts |-> [(IF server[h] = None THEN CopyConfig(server[Root], Zeroed) ELSE server[h])
                        EXCEPT !.idx = h]]

ChildInit ==
    /\ phase = "up" /\ child = "none" /\ children < MaxChildren
    /\ children' = children + 1 /\ child' = "thread"
    /\ crec' = ChildRecords
    /\ UNCHANGED <<parentVars, edits, pos, interps, evald, req_cnt, last>>

(* MPM_MasterInterp: the prefork bridge's child inherits the parent's        *)
(* interpreter, a thread of the worker bridge makes one.                     *)
MasterInterp == IF globals.bridge = "prefork" THEN master ELSE PerInterpInit(<<>>)

(* The bridge's child or thread start up to GlobalInitScript, which the root *)
(* interpreter evaluates whatever SeparateVirtualInterps says.               *)
ThreadStart ==
    /\ child = "thread"
    /\ child' = "hosts" /\ pos' = Root
    /\ interps' = NoInterps
    /\ evald' = [NoTexts EXCEPT ![Root] =
                     Eval(MasterInterp, crec[Root].script["GlobalInitScript"])]
    /\ UNCHANGED <<parentVars, edits, children, crec, req_cnt, last>>

(* RIVET_POKE_INTERP and RIVET_PEEK_INTERP: the array is indexed by idx.     *)
Peek(h) == interps[crec[h].idx]

NoPerDir == [d \in Dirs |-> None]

(* Rivet_NewVHostInterp and Rivet_DuplicateVHostInterp: an object around a   *)
(* new interpreter, or around the root's, which is initialised.              *)
NewVHostInterp(h) == [tcl |-> h, initialized |-> FALSE, perDir |-> NoPerDir]
DuplicateVHostInterp == [tcl |-> Root, initialized |-> TRUE, perDir |-> NoPerDir]

ObjectOf(h) ==
    IF h = Root \/ ~globals.separate THEN DuplicateVHostInterp ELSE NewVHostInterp(h)

(* Where the loops over the virtual hosts go.                                *)
Proceed(next) ==
    IF pos < VHosts THEN pos' = pos + 1 /\ child' = child ELSE pos' = Root /\ child' = next

(* The loop of Rivet_VirtualHostsInterps for one virtual host.               *)
VHostInterp ==
    /\ child = "hosts"
    /\ LET obj == ObjectOf(pos)
       IN /\ interps' = [interps EXCEPT ![crec[pos].idx] =
                             [tcl |-> obj.tcl, scripts |-> RunningScripts(crec[pos]),
                              perDir |-> obj.perDir]]
          /\ evald' = IF obj.initialized THEN evald
                      ELSE [evald EXCEPT ![obj.tcl] = PerInterpInit(@)]
    /\ Proceed("init")
    /\ UNCHANGED <<parentVars, edits, children, crec, req_cnt, last>>

(* Rivet_RunChildScripts for one virtual host: in a shared interpreter a     *)
(* script that is the root's own is not run again.                           *)
\* mutant: the inherited script runs again
ChildScript_Again(h, name) == crec[h].script[name]
ChildScript(h, name) ==
    LET function == crec[h].script[name]
    IN IF h = Root \/ globals.separate \/ function # crec[Root].script[name]
       THEN function ELSE <<>>

RunChildScript(name) ==
    /\ evald' = [evald EXCEPT ![Peek(pos).tcl] = Eval(@, ChildScript(pos, name))]
    /\ UNCHANGED <<crec, interps, req_cnt, last>>

ChildInitScripts ==
    /\ child = "init"
    /\ RunChildScript("ChildInitScript")
    /\ Proceed("serving")
    /\ UNCHANGED <<parentVars, edits, children>>

(* The process or thread is gone, and its memory with it.                    *)
Forget ==
    /\ crec' = [h \in Hosts |-> None] /\ interps' = NoInterps /\ evald' = NoTexts
    /\ req_cnt' = 0 /\ last' = None

(* The child ends.  A thread of the worker bridge ends by running the exit   *)
(* scripts; the prefork bridge's Finalize runs nothing, only the `exit` of a *)
(* request's script does.                                                    *)
ChildEnds(byScript) ==
    /\ child = "serving"
    /\ pos' = Root
    /\ IF byScript \/ globals.bridge = "worker"
       THEN child' = "exit" /\ UNCHANGED memory
       ELSE child' = "none" /\ Forget
    /\ UNCHANGED <<parentVars, edits, children>>

ChildExitScripts ==
    /\ child = "exit"
    /\ RunChildScript("ChildExitScript")
    /\ Proceed("gone")
    /\ UNCHANGED <<parentVars, edits, children>>

ChildGone ==
    /\ child = "gone"
    /\ child' = "none" /\ Forget
    /\ UNCHANGED <<parentVars, edits, children, pos>>
-----------------------------------------------------------------------------
(* Requests.                                                                 *)

(* An .htaccess file is written; while no child serves nobody looks at it.   *)
EditUserConf(d) ==
    /\ child = "serving" /\ edits[d] < MaxEdits
    /\ edits' = [edits EXCEPT ![d] = @ + 1]
    /\ UNCHANGED <<parentVars, childVars>>

(* The record of the .htaccess file of dir, which is read for every request; *)
(* written says how often each of these files was written.                   *)
Htaccess(written, dir) ==
    IF dir \in UserDirs /\ written[dir] > 0
    THEN UserConf(CreateDirConfig, "BeforeScript", <<dir, written[dir]>>) ELSE None

MergeIfAny(conf, add) == IF add = None THEN conf ELSE MergeDirConfig(conf, add)

(* One directory of Apache's walk: the root server's section is merged, then *)
(* the virtual host's, then the .htaccess file.                              *)
EnterDir(sec, written, h, conf, dir) ==
    MergeIfAny(MergeIfAny(MergeIfAny(conf, sec[Root][dir]),
                          IF h = Root THEN None ELSE sec[h][dir]),
               Htaccess(written, dir))

(* ap_directory_walk; r->per_dir_config is what it leaves.                   *)
DirectoryWalk(sec, written, h, d) ==
    FoldLeft(LAMBDA conf, dir : EnterDir(sec, written, h, conf, dir), CreateDirConfig, Path[d])
PerDirConfig(h, d) == DirectoryWalk(section, edits, h, d)

(* Rivet_SendContent up to the choice of the scripts: those of the server,   *)
(* of the directory (made at its first request and kept by its path), or,    *)
(* when the records of the place hold a RivetUserConf, made for the request. *)
\* mutant: a RivetUserConf is not looked for
RunningOf_NoUser(h, rdc) ==
    IF rdc.path = None THEN Peek(h).scripts
    ELSE IF Peek(h).perDir[rdc.path] # None THEN Peek(h).perDir[rdc.path]
    ELSE RunningScripts(GetConf(crec[h], rdc))
RunningOf(h, rdc) ==
    IF rdc.user THEN RunningScripts(GetConf(crec[h], rdc))
    ELSE IF rdc.path = None THEN Peek(h).scripts
    ELSE IF Peek(h).perDir[rdc.path] # None THEN Peek(h).perDir[rdc.path]
    ELSE RunningScripts(GetConf(crec[h], rdc))

StorePerDir(h, rdc) ==
    interps' = IF rdc.path # None /\ Peek(h).perDir[rdc.path] = None
               THEN [interps EXCEPT ![crec[h].idx].perDir[rdc.path] =
                                        RunningScripts(GetConf(crec[h], rdc))]
               ELSE interps

(* Rivet_ReadConfParameter: what ::rivet::inspect answers for the scripts, in *)
(* a configuration made anew for each call.                                  *)
Inspected(h, rdc) ==
    LET rsc == GetConf(crec[h], rdc)
    IN [s \in RequestScript |-> rsc.script[s]]

(* A request; its scripts may ask ::rivet::inspect for the configuration.    *)
Request(h, d) ==
    LET rdc == PerDirConfig(h, d)
    IN /\ child = "serving" /\ req_cnt < MaxRequests
       /\ req_cnt' = req_cnt + 1
       /\ StorePerDir(h, rdc)
       /\ last' = [host |-> h, dir |-> d, scripts |-> RunningOf(h, rdc),
                   inspect |-> Inspected(h, rdc), edits |-> edits]
       /\ UNCHANGED <<parentVars, edits, children, child, pos, crec, evald>>
-----------------------------------------------------------------------------
Next ==
    \/ InitGlobals \/ ReadConfig \/ ServerInitFirst \/ ServerInit \/ Restart
    \/ ChildInit \/ ThreadStart \/ VHostInterp \/ ChildInitScripts
    \/ \E byScript \in BOOLEAN : ChildEnds(byScript)
    \/ ChildExitScripts \/ ChildGone
    \/ \E d \in UserDirs : EditUserConf(d)
    \/ \E h \in Hosts, d \in Dirs : Request(h, d)

Spec == Init /\ [][Next]_vars
-----------------------------------------------------------------------------
(* The places the server and its child can be in; a record knows the path of *)
(* its own section only, an index leads to an object that was made.          *)
TypeOK ==
    /\ phase \in {"start", "reading", "read", "up", "down"} /\ userdata \in BOOLEAN
    /\ globals \in Globals \cup {None} /\ master \in Seq(Seq(TextItem))
    /\ child \in {"none", "thread", "hosts", "init", "serving", "exit", "gone"}
    /\ edits \in [UserDirs -> 0..MaxEdits] /\ pos \in Hosts
    /\ children \in 0..MaxChildren /\ restarts \in 0..MaxRestarts /\ req_cnt \in 0..MaxRequests
    /\ server \in [Hosts -> Conf \cup {None}]
    /\ section \in [Hosts -> [Dirs -> Conf \cup {None}]]
    /\ crec \in [Hosts -> Conf \cup {None}]
    /\ interps \in [Hosts -> InterpObject \cup {None}]
    /\ evald \in [Hosts -> Seq(Seq(TextItem))]
    /\ \A h \in Hosts :
          /\ server[h] = None \/ server[h].path = None
          /\ \A d \in Dirs : section[h][d] = None \/ section[h][d].path \in {None, d}
          /\ child # "none" => crec[h] # None /\ crec[h].idx \in Hosts

(* Reference definitions, from the file alone: the text that the lines of a  *)
(* server, of a section, of an .htaccess file define for a script: all of    *)
(* them, one after the other, for every script.  The comment on              *)
(* Rivet_SetScript (apache_config.c:99-101) says otherwise of Before, After  *)
(* and Error scripts, that a line overrides the old directive completely:    *)
(* its code (140) appends those as well, and of two BeforeScript lines of a  *)
(* record both run.                                                          *)
TextUpTo(f, own) ==
    LET text[n \in 0..Len(f)] ==
            IF n = 0 THEN <<>>
            ELSE IF n \in own THEN Append(text[n - 1], Text(n)) ELSE text[n - 1]
    IN text
LinesText(f, own) == TextUpTo(f, own)[Len(f)]
ServerLines(f, h, name) ==
    {i \in DOMAIN f : f[i].kind = "server" /\ f[i].host = h /\ f[i].var = name}
SectionLines(f, h, d, name) ==
    {i \in DOMAIN f : f[i].kind # "server" /\ f[i].host = h /\ f[i].dir = d /\ f[i].var = name}
ServerText(h, name)     == LinesText(file, ServerLines(file, h, name))
SectionText(h, d, name) == LinesText(file, SectionLines(file, h, d, name))

(* The text a directory gives a script: by the root server's section (1),    *)
(* the virtual host's (2), its .htaccess file (3).                           *)
TextAt(h, dir, written, name, r) ==
    CASE r = 1 -> SectionText(Root, dir, name)
      [] r = 2 -> IF h = Root THEN <<>> ELSE SectionText(h, dir, name)
      [] r = 3 -> IF dir \in UserDirs /\ written[dir] > 0 /\ name = "BeforeScript"
                  THEN <<<<dir, written[dir]>>>> ELSE <<>>

(* The places on the way to d that define a script, and the closest of them. *)
Definitions(h, d, written, name) ==
    {p \in (1..Len(Path[d])) \X (1..3) : TextAt(h, Path[d][p[1]], written, name, p[2]) # <<>>}
Closer(p, q)  == p[1] > q[1] \/ (p[1] = q[1] /\ p[2] >= q[2])
Closest(defs) == CHOOSE p \in defs : \A q \in defs : Closer(p, q)

OfServer(h, name) ==
    IF ServerText(h, name) # <<>> THEN ServerText(h, name) ELSE ServerText(Root, name)

OfPlace(h, d, written, name) ==
    LET defs == Definitions(h, d, written, name)
    IN IF defs = {} THEN OfServer(h, name)
       ELSE TextAt(h, Path[d][Closest(defs)[1]], written, name, Closest(defs)[2])

(* A directory that has a RivetUserConf, in a section or in an .htaccess     *)
(* file, has no configured directory above or below it.                      *)
UserPlace(d) ==
    d \in UserDirs \/ \E l \in Directives : l.kind = "user" /\ l.dir = d
Configured(d) == d \in UserDirs \/ \E l \in Directives : l.kind # "server" /\ l.dir = d
UserAlone ==
    \A d \in Dirs : \A n, m \in 1..Len(Path[d]) :
        UserPlace(Path[d][n]) /\ Configured(Path[d][m]) => n = m

(* A request runs, for every script, the text of the definition closest to   *)
(* its directory: the .htaccess file's or the section's of the innermost     *)
(* directory that has one, else the virtual host's, else the root server's - *)
(* through the merges of servers and directories, the copy of the root's     *)
(* record and the scripts kept by path from earlier requests.  Between       *)
(* records a definition replaces the other; within a record lines add up,    *)
(* which the comment at apache_config.c:99-101 denies for three of the       *)
(* scripts (see ServerText).  It holds where UserAlone does.  Below an       *)
(* .htaccess file, a directory with a section of its own loses the mark of a *)
(* RivetUserConf in the merge and keeps what .htaccess said at its first     *)
(* request; and an .htaccess file in a directory below a section's has its   *)
(* scripts kept under the path of the section, for every later request       *)
(* there, when a request of its own comes first.                             *)
ClosestWins ==
    last # None => \A name \in DOMAIN last.scripts :
        last.scripts[name] = OfPlace(last.host, last.dir, last.edits, name)

(* ::rivet::inspect, by which a request handler of its own is to find the    *)
(* scripts, reports for the request the scripts that ran.                    *)
InspectTruth == last # None => last.inspect = last.scripts

(* Each virtual host finds at its index the interpreter object made for it,  *)
(* whether its record was merged, copied or the root server's own.           *)
VHostsIndexed ==
    child \in {"init", "serving", "exit"} =>
        \A h \in Hosts :
            /\ Peek(h) # None
            /\ Peek(h).tcl = IF globals.separate THEN h ELSE Root
            /\ \A g \in Hosts \ {h} : crec[g].idx # crec[h].idx

(* How often the text t was evaluated in the interpreter of host h.          *)
Evaluated(h, t) ==
    Cardinality({n \in DOMAIN evald[h] : \E k \in DOMAIN evald[h][n] : evald[h][n][k] = t})

(* When a child serves, each of its interpreters was initialised exactly     *)
(* once and before any script ran in it, the child initialisation a virtual  *)
(* host defines has run in its interpreter, and no line of the file has run  *)
(* twice in any, inherited interpreters and shared, merged or copied records *)
(* notwithstanding.                                                          *)
InitScriptsOnce ==
    /\ \A h \in Hosts : \A i \in DOMAIN file : Evaluated(h, Text(i)) <= 1
    /\ \A h \in Hosts : Evaluated(h, RivetInit[1]) <= 1 /\ (evald[h] # <<>> => evald[h][1] = RivetInit)
    /\ child = "serving" =>
           \A h \in Hosts :
               /\ evald[Peek(h).tcl] # <<>>
               /\ \A i \in LinesOf(h) :
                      file[i].var = "ChildInitScript" => Evaluated(Peek(h).tcl, Text(i)) = 1
=============================================================================
