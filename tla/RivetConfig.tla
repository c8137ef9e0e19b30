----------------------------- MODULE RivetConfig -----------------------------
(* The configuration records of mod_rivet and what apache_config.c does with *)
(* them: the handlers of RivetServerConf, RivetDirConf and RivetUserConf,    *)
(* the merges Apache asks for and the one made for every request.            *)
(*                                                                           *)
(* A script's text is abstracted to the sequence of the directives it was    *)
(* put together from (<<>> is NULL), so that the texts of two directives are *)
(* never equal.  `settings` stands for the members MergeConfig takes from    *)
(* the base record alone (honor_head_requests, upload_files_to_var,          *)
(* import_rivet_ns, export_rivet_ns, upload_max).  The tables of directives  *)
(* are only listed by ::rivet::inspect and left out.                         *)
EXTENDS Integers, Sequences

CONSTANTS
    Dirs,     \* the directories of <Directory> sections and .htaccess files
    Names,    \* the directories of uploads and the bridges a directive may name
    None      \* the null pointer

(* Scripts a directory may define, those of a server too, and the one that   *)
(* only the root server's record is asked for.                               *)
SectionScript == {"BeforeScript", "AfterScript", "ErrorScript", "AbortScript",
                  "AfterEveryScript"}
MergedScript  == SectionScript \cup {"RequestHandler", "ChildInitScript", "ChildExitScript"}
Script        == MergedScript \cup {"GlobalInitScript"}

(* The texts scripts are put together from: lines of the configuration file, *)
(* an .htaccess file, the initialisation of an interpreter.                  *)
TextItem == ({"line", "Rivet"} \cup Dirs) \X Nat

(* rivet_server_conf, and the running_scripts taken from it.                 *)
Conf == [script : [Script -> Seq(TextItem)], cache : Int, settings : BOOLEAN,
         upload : Names \cup {"default", None}, user : BOOLEAN, path : Dirs \cup {None}, idx : Nat]
RequestScript == SectionScript \cup {"RequestHandler"}
Running       == [RequestScript -> Seq(TextItem)]

ASSUME NullAssumption ==
    None \notin Dirs /\ None \notin Conf /\ None \notin Running

(* A record fresh from apr_pcalloc.                                          *)
Zeroed == [script |-> [s \in Script |-> <<>>], cache |-> 0, settings |-> FALSE,
           upload |-> None, user |-> FALSE, path |-> None, idx |-> 0]

(* Rivet_CreateConfig and Rivet_CreateDirConfig.                             *)
CreateConfig    == [Zeroed EXCEPT !.cache = -1, !.upload = "default"]
CreateDirConfig == Zeroed

(* RIVET_CONF_SELECT, for scripts and for the other members.                 *)
Selected(base, overlay) == IF overlay # <<>> THEN overlay ELSE base
SelectDir(base, overlay) == IF overlay # None THEN overlay ELSE base
SelectInt(base, overlay) == IF overlay # 0 THEN overlay ELSE base

(* Rivet_SetScript with Rivet_AppendStringToConf: the text t is appended.    *)
SetScript(conf, name, t) == [conf EXCEPT !.script[name] = Append(@, t)]

(* Rivet_ServerConf on the record of a server; the members of module_globals *)
(* are the caller's.                                                         *)
ServerConf(conf, var, val, t) ==
    CASE var = "CacheSize"         -> [conf EXCEPT !.cache = val]
      [] var = "UploadDirectory"   -> [conf EXCEPT !.upload = val]
      [] var = "HonorHeadRequests" -> [conf EXCEPT !.settings = val]
      [] var \in Script            -> SetScript(conf, var, t)
      [] OTHER                     -> conf

(* Rivet_DirConf: the section's directory becomes the record's path.         *)
DirConf(conf, dir, var, val, t) ==
    [IF var = "UploadDirectory"
     THEN [conf EXCEPT !.upload = val]
     ELSE SetScript(conf, var, t) EXCEPT !.path = dir]

(* Rivet_UserConf: the path is left alone, an UploadDirectory has no effect. *)
UserConf(conf, var, t) ==
    [IF var \in SectionScript THEN SetScript(conf, var, t) ELSE conf EXCEPT !.user = TRUE]

(* Rivet_MergeConfig: a virtual host's record over the root server's.        *)
MergeConfig(base, over) ==
    [Zeroed EXCEPT
        !.script   = [s \in Script |-> IF s \in MergedScript
                                       THEN Selected(base.script[s], over.script[s]) ELSE <<>>],
        !.cache    = SelectInt(base.cache, over.cache),
        !.settings = base.settings,
        !.upload   = SelectDir(base.upload, over.upload),
        !.path     = SelectDir(base.path, over.path)]

(* Rivet_MergeDirConfigVars: add over base, into the record new.             *)
\* mutant: the base wins
MergeDirConfigVars_BaseWins(new, base, add) ==
    [new EXCEPT
        !.script = [s \in Script |-> IF s \in MergedScript
                                     THEN Selected(add.script[s], base.script[s]) ELSE @[s]],
        !.upload = SelectDir(base.upload, add.upload),
        !.path   = SelectDir(base.path, add.path), !.user = add.user]
MergeDirConfigVars(new, base, add) ==
    [new EXCEPT
        !.script = [s \in Script |-> IF s \in MergedScript
                                     THEN Selected(base.script[s], add.script[s]) ELSE @[s]],
        !.upload = SelectDir(base.upload, add.upload),
        !.path   = SelectDir(base.path, add.path),
        !.user   = add.user]

(* Rivet_MergeDirConfig: two directory records, the second the inner one's.  *)
MergeDirConfig(base, add) == MergeDirConfigVars(Zeroed, base, add)

(* Rivet_CopyConfig: all but the child scripts.                              *)
CopyConfig(old, new) ==
    [old EXCEPT !.script = [s \in Script |-> IF s \in {"ChildInitScript", "ChildExitScript"}
                                             THEN new.script[s] ELSE @[s]]]

(* Rivet_GetConf: the configuration of a request, from that of its server    *)
(* and of its directory.                                                     *)
GetConf(rsc, rdc) == MergeDirConfigVars(CopyConfig(rsc, Zeroed), rsc, rdc)

(* Rivet_RunningScripts: what a configuration has a request run.             *)
RunningScripts(conf) == [s \in RequestScript |-> conf.script[s]]
=============================================================================
