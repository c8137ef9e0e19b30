------------------------- MODULE MCServerLifecycle -------------------------
(* A root server and two virtual hosts, of which only the first has lines of *)
(* its own; /a, /a/b with sections, /u a user's directory.                   *)
EXTENDS ServerLifecycle

MCDirs == {"a", "ab", "u"}
MCPath == [a |-> <<"a">>, ab |-> <<"a", "ab">>, u |-> <<"u">>]

Line(kind, host, dir, var, val) ==
    [kind |-> kind, host |-> host, dir |-> dir, var |-> var, val |-> val]

Scripts(kind, hosts, dirs, names) ==
    {Line(kind, h, d, n, None) : h \in hosts, d \in dirs, n \in names}

MCDirectives ==
    Scripts("server", {0}, {None}, {"BeforeScript", "ServerInitScript", "GlobalInitScript",
                                    "ChildInitScript"})
    \cup Scripts("server", {1}, {None}, {"ErrorScript", "ChildInitScript", "ChildExitScript"})
    \cup Scripts("dir", {0, 1}, {"a"}, {"BeforeScript"})
    \cup Scripts("dir", {0}, {"ab"}, {"BeforeScript"})
    \cup Scripts("user", {0}, {"u"}, {"BeforeScript"})
    \cup {Line("server", 0, None, "SeparateVirtualInterps", TRUE),
          Line("server", 0, None, "MpmBridge", "absent")}

(* The hypothesis of the theorems about requests holds of the instance.      *)
ASSUME InstanceIsUserAlone == UserAlone
============================================================================
