------------------------------- MODULE MCFlow -------------------------------
(***************************************************************************)
(* Engines of two or three actions, picked from one of every kind, run     *)
(* twice: with and without drivers and log files.                          *)
(***************************************************************************)
EXTENDS Flow

NoT == [kind |-> "none", says |-> ""]
T(kind, says) == [kind |-> kind, says |-> says]
Broken == T("broken", "")
NoS == [kind |-> "none", key |-> "", assigns |-> ""]
S(kind, key, assigns) == [kind |-> kind, key |-> key, assigns |-> assigns]
Reads == S("reads", "k", "")

Blank(name) ==
    [name |-> name, when |-> NoS,
     trigger |-> [name |-> "", data |-> FALSE, script |-> NoS, async |-> FALSE],
     result |-> [set |-> FALSE, script |-> NoS],
     command |-> NoT, workDir |-> NoT, stdout |-> NoT, stderr |-> NoT,
     args |-> {}, argsTemplate |-> NoT, argsScript |-> NoS,
     env |-> {}, envTemplate |-> NoT, envScript |-> NoS,
     failIfNonZeroCode |-> TRUE,
     script |-> NoS, scriptFile |-> [name |-> NoT, code |-> NoS]]

Cmd == [Blank("a") EXCEPT !.command = T("text", "c")]
Trigger == [name |-> "t", data |-> FALSE, script |-> NoS, async |-> FALSE]

(* commands *)
Plain   == [Cmd EXCEPT !.args = {T("text", "x")}, !.env = {T("text", "v")}]
ToFile  == [Cmd EXCEPT !.stdout = T("text", "out"), !.workDir = T("text", "d"), !.failIfNonZeroCode = FALSE]
ToBoth  == [Cmd EXCEPT !.stdout = T("text", "out"), !.stderr = T("text", "err")]
ToOne   == [Cmd EXCEPT !.stdout = T("text", "/out"), !.stderr = T("text", "/out")]
ByTpl   == [Cmd EXCEPT !.argsTemplate = T("list", ""), !.envTemplate = T("object", "")]
BadEnv  == [Cmd EXCEPT !.argsScript = S("list", "", "k"), !.envTemplate = T("numbers", "")]
EnvJs   == [Cmd EXCEPT !.envScript = S("map", "", "")]
BadCmd  == [Cmd EXCEPT !.stderr = Broken]
TwoArgs == [Cmd EXCEPT !.args = {T("text", "x")}, !.argsTemplate = T("list", "")]

(* the others *)
Sync    == [Blank("b") EXCEPT !.trigger = Trigger]
Async   == [Blank("b") EXCEPT !.trigger = [Trigger EXCEPT !.async = TRUE, !.script = S("map", "", "k")]]
Unknown == [Blank("b") EXCEPT !.trigger = [Trigger EXCEPT !.name = "unknown"]]
Both    == [Blank("b") EXCEPT !.trigger = [Trigger EXCEPT !.data = TRUE, !.script = Reads]]
Res     == [Blank("b") EXCEPT !.result = [set |-> TRUE, script |-> Reads]]
NoData  == [Blank("b") EXCEPT !.result = [set |-> TRUE, script |-> NoS]]
Flips   == [Blank("b") EXCEPT !.script = S("true", "", "k")]
Throws  == [Blank("b") EXCEPT !.script = S("throw", "", "k")]
FromFile == [Blank("b") EXCEPT !.scriptFile = [name |-> T("text", "f"), code |-> S("map", "", "k")]]
NoName  == [Blank("") EXCEPT !.script = Reads]
None    == Blank("b")
Two     == [Flips EXCEPT !.command = T("text", "c")]

Named(a, n) == [a EXCEPT !.name = n]

Commands == {Plain, ToFile, ToBoth, ToOne, ByTpl, BadEnv, EnvJs, BadCmd, TwoArgs}
Others == {Sync, Async, Unknown, Both, Res, NoData, Flips, Throws, FromFile, NoName, None, Two}

MCConfigs ==
    {<<o, c>> : o \in Others, c \in Commands}
      \cup {<<o, [c EXCEPT !.when = Reads]>> : c \in {ToFile, ToOne}, o \in Others}
      \cup {<<ToFile, [o EXCEPT !.when = Reads]>> : o \in Others}
      \cup {<<ToFile, Named(ToFile, n)>> : n \in {"a", "c"}}
      \cup {<<Flips, Named(Plain, "b")>>}
      \cup {<<o, c, Named(Sync, "z")>> : o \in {Async, Res, Flips}, c \in {ToBoth, [ToFile EXCEPT !.when = Reads]}}

MCEngines ==
    {[script |-> TRUE, template |-> TRUE, logs |-> TRUE],
     [script |-> FALSE, template |-> FALSE, logs |-> FALSE]}

MCEnvs == {[context |-> [k |-> TRUE], workDir |-> "w"], [context |-> [k |-> FALSE], workDir |-> ""],
           [context |-> [x \in {} |-> TRUE], workDir |-> "w"]}
=============================================================================
