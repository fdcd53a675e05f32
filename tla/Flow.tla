-------------------------------- MODULE Flow --------------------------------
(***************************************************************************)
(* flow/flow.go: an engine runs the actions of its config one after the    *)
(* other, each a trigger, a result, a command or a script.  The engine is  *)
(* used again for a later Run, with another environment, while the         *)
(* asynchronous triggers of an earlier one may still be pending.           *)
(*                                                                         *)
(* A template is [kind, says]: kind is what its text looks like once       *)
(* expanded ("none" for an absent field, "broken" when it does not parse). *)
(* A script is [kind, key, assigns]: what its value is ("reads" for the    *)
(* global key, "throw" for an exception) and the global it negates.        *)
(* The context of an environment holds Booleans.                           *)
(***************************************************************************)
EXTENDS Integers, Sequences, FiniteSets

CONSTANTS
    Configs,    \* the sequences of actions an engine is made with
    Engines,    \* [script, template, logs]: which drivers and options it has
    Envs,       \* [context, workDir]: what a Run is given
    MaxRuns,    \* bound on the calls of Run
    MaxFaults   \* bound on the failures of the file system

ASSUME FlowAssumption ==
    /\ \A c \in Configs : c \in Seq({c[i] : i \in DOMAIN c})
    /\ \A e \in Envs : e.context \in [DOMAIN e.context -> BOOLEAN]
    /\ MaxRuns \in Nat /\ MaxFaults \in Nat

VARIABLES
    config,     \* the actions
    engine,     \* the drivers and options
    js,         \* the globals of the script runtime
    env,        \* the environment of the current Run
    run,        \* the current Run
    disk,       \* the files commands' output was written to
    async,      \* the asynchronous triggers: what became of each
    faults      \* failures of the file system so far

flowVars == <<config, engine, js, env, run, disk, async, faults>>

Nothing == <<>>                      \* no output, no data
Token(stream) == <<stream, run.n, run.i>>
NewActionResponse == [exit |-> 0, out |-> Nothing, err |-> Nothing, skipped |-> FALSE]
NewRun(n, pc) ==
    [n |-> n, pc |-> pc, i |-> 1, responses |-> <<>>, data |-> 0, failed |-> FALSE,
     ctx |-> "live", resp |-> NewActionResponse, ran |-> FALSE, wrote |-> {}, lost |-> {}]

-----------------------------------------------------------------------------
(* What templates and scripts evaluate to. *)

(* A template without a driver is its own result. *)
ExecuteTemplate(t) == t.kind # "broken"
EvalTemplate(t) == engine.template => ExecuteTemplate(t)

UnmarshalTemplateResultSlice(t) == t.kind # "badlist"
UnmarshalTemplateResultObject(t) == t.kind \in {"object", "numbers"}
AsMapStringString(t) == t.kind = "object"

(* Mutant: only the keys the runtime does not know yet are set. *)
SetContextOnce(globals) ==
    [k \in DOMAIN globals \cup DOMAIN env.context |->
        IF k \in DOMAIN globals THEN globals[k] ELSE env.context[k]]

(* Every context key is set again before a script; other globals stay. *)
SetContext(globals) ==
    [k \in DOMAIN globals \cup DOMAIN env.context |->
        IF k \in DOMAIN env.context THEN env.context[k] ELSE globals[k]]

Execute(s, globals) ==
    LET g == SetContext(globals)
    IN  [js   |-> IF s.assigns \in DOMAIN g THEN [g EXCEPT ![s.assigns] = ~@] ELSE g,
         ok   |-> s.kind # "throw" /\ (s.kind = "reads" => s.key \in DOMAIN g),
         kind |-> s.kind,
         val  |-> IF s.kind = "reads" /\ s.key \in DOMAIN g THEN g[s.key] ELSE TRUE]

EvalScript(s, globals) ==
    IF engine.script THEN Execute(s, globals)
    ELSE [js |-> globals, ok |-> FALSE, kind |-> "none", val |-> FALSE]

ValueToBool(v) == v.val
ValueToStringSlice(v) == v.ok /\ v.kind = "list"
(* Not implemented by flow_goja: every env_script fails. *)
ValueToMapStringString(v) == FALSE

Skips(globals) == [js |-> globals, ok |-> TRUE, kind |-> "none", val |-> TRUE]
ActionWhen(a, globals) ==
    IF a.when.kind = "none" THEN Skips(globals) ELSE EvalScript(a.when, globals)

Count(set) == Cardinality({k \in DOMAIN set : set[k]})
Options(a) ==
    [trigger |-> a.trigger.name # "", result |-> a.result.set,
     command |-> a.command.kind # "none", script |-> a.script.kind # "none",
     script_file |-> a.scriptFile.name.kind # "none"]

(* getActionArgs: the arguments given as a list, a template or a script; a failure is ok = FALSE *)
GetActionArgs(a, globals) ==
    LET given == [list |-> a.args # {}, template |-> a.argsTemplate.kind # "none",
                  script |-> a.argsScript.kind # "none"]
        v     == EvalScript(a.argsScript, globals)
    IN  CASE Count(given) > 1 -> [js |-> globals, ok |-> FALSE]
          [] given.script     -> [js |-> v.js, ok |-> ValueToStringSlice(v)]
          [] OTHER -> [js |-> globals,
                       ok |-> /\ \A t \in a.args : EvalTemplate(t)
                              /\ given.template => /\ EvalTemplate(a.argsTemplate)
                                                   /\ UnmarshalTemplateResultSlice(a.argsTemplate)]

GetActionEnv(a, globals) ==
    LET given == [map |-> a.env # {}, template |-> a.envTemplate.kind # "none",
                  script |-> a.envScript.kind # "none"]
        v     == EvalScript(a.envScript, globals)
    IN  CASE Count(given) > 1 -> [js |-> globals, ok |-> FALSE]
          [] given.script     -> [js |-> v.js, ok |-> v.ok /\ ValueToMapStringString(v)]
          [] OTHER -> [js |-> globals,
                       ok |-> /\ \A t \in a.env : EvalTemplate(t)
                              /\ given.template => /\ EvalTemplate(a.envTemplate)
                                                   /\ UnmarshalTemplateResultObject(a.envTemplate)
                                                   /\ AsMapStringString(a.envTemplate)]

(* A relative name is joined to the action's working directory, or the environment's. *)
WorkDir(a) == IF a.workDir.kind # "none" THEN a.workDir.says ELSE env.workDir
Rooted(t) == t.says = "/out"
File(a, t) == IF Rooted(t) THEN <<"", t.says>> ELSE <<WorkDir(a), t.says>>

-----------------------------------------------------------------------------
(* Validate: every action has a name, and no two the same.  Run does not call it. *)
Validate(actions) ==
    \A i \in DOMAIN actions :
        actions[i].name # "" /\ \A j \in 1..(i - 1) : actions[j].name # actions[i].name

Action == config[run.i]
Acting(k) ==
    /\ run.pc = "action"
    /\ run.i <= Len(config)
    /\ Options(Action)[k]
    /\ Count(Options(Action)) = 1
    /\ LET w == ActionWhen(Action, js) IN w.ok /\ ValueToBool(w)
Unfaulty == UNCHANGED faults
Fault == faults < MaxFaults /\ faults' = faults + 1

Record(name, response) ==
    [n \in DOMAIN run.responses \cup {name} |->
        IF n = name THEN response ELSE run.responses[n]]

(* Run: the next action, or the end *)
Succeed(response) ==
    run' = [run EXCEPT !.pc = "action", !.i = @ + 1, !.resp = NewActionResponse,
                       !.ran = FALSE, !.responses = Record(Action.name, response)]

(* Mutant: the response of a failing command is dropped. *)
FailSilently(responses) ==
    run' = [run EXCEPT !.pc = "returned", !.failed = TRUE, !.responses = run.responses]

(* Run: a failing action ends it; its response is kept if it has one *)
Fail(responses) ==
    run' = [run EXCEPT !.pc = "returned", !.failed = TRUE, !.responses = responses]

Begin ==
    /\ run.pc \in {"idle", "returned"} /\ run.n < MaxRuns
    /\ \E e \in Envs : env' = e
    /\ run' = NewRun(run.n + 1, "action")
    /\ UNCHANGED <<config, engine, js, disk, async, faults>>

CancelRun ==
    /\ run.pc \notin {"idle", "returned"} /\ run.ctx = "live"
    /\ run' = [run EXCEPT !.ctx = "cancelled"]
    /\ UNCHANGED <<config, engine, js, env, disk, async, faults>>

End ==
    /\ run.pc = "action" /\ run.i > Len(config)
    /\ run' = [run EXCEPT !.pc = "returned"]
    /\ UNCHANGED <<config, engine, js, env, disk, async, faults>>

(* No or too many kinds, or a `when` that fails or says no *)
Refuse ==
    /\ run.pc = "action" /\ run.i <= Len(config)
    /\ LET w == ActionWhen(Action, js) IN
       \/ /\ Count(Options(Action)) # 1
          /\ Fail(run.responses)
          /\ UNCHANGED js
       \/ /\ Count(Options(Action)) = 1 /\ ~w.ok
          /\ Fail(run.responses)
          /\ js' = w.js
       \/ /\ Count(Options(Action)) = 1 /\ w.ok /\ ~ValueToBool(w)
          /\ Succeed([NewActionResponse EXCEPT !.skipped = TRUE])
          /\ js' = w.js
    /\ UNCHANGED <<config, engine, env, disk, async, faults>>

RunActionResult ==
    /\ Acting("result")
    /\ LET w == ActionWhen(Action, js)
           v == EvalScript(Action.result.script, w.js)
       IN  IF Action.result.script.kind = "none"
           THEN js' = w.js /\ Succeed(NewActionResponse)
           ELSE /\ js' = v.js
                /\ IF v.ok
                   THEN run' = [run EXCEPT !.i = @ + 1, !.data = run.i,
                                    !.responses = Record(Action.name, NewActionResponse)]
                   ELSE Fail(run.responses)
    /\ UNCHANGED <<config, engine, env, disk, async, faults>>

-----------------------------------------------------------------------------
(* Triggers *)

(* Mutant: an asynchronous trigger is given the context of the Run. *)
TriggerCtxOfRun == "run"

TriggerCtx == "live"

RunActionTrigger ==
    /\ Acting("trigger")
    /\ LET t == Action.trigger
           w == ActionWhen(Action, js)
           given == [data |-> t.data, script |-> t.script.kind # "none"]
           v == IF given.script THEN EvalScript(t.script, w.js) ELSE Skips(w.js)
           known == Count(given) <= 1 /\ t.name # "unknown"
       IN  /\ js' = IF known THEN v.js ELSE w.js
           /\ \/ /\ ~(known /\ v.ok)
                 /\ Fail(run.responses)
                 /\ UNCHANGED async
              \/ /\ known /\ v.ok /\ t.async
                 /\ async' = async \cup {[n |-> run.n, i |-> run.i, ctx |-> TriggerCtx, is |-> "pending"]}
                 /\ Succeed(NewActionResponse)
              \/ /\ known /\ v.ok /\ ~t.async         \* the function answers
                 /\ UNCHANGED async
                 /\ \/ Succeed(NewActionResponse)
                    \/ Fail(run.responses)
    /\ UNCHANGED <<config, engine, env, disk, faults>>

(* The goroutine of an asynchronous trigger; a function may give up when its context is cancelled. *)
CallTrigger(t) ==
    /\ t.is = "pending"
    /\ \E end \in {"done"} \cup (IF t.ctx = "run" THEN {"gave up"} ELSE {}) :
         async' = (async \ {t}) \cup {[t EXCEPT !.is = end]}
    /\ UNCHANGED <<config, engine, js, env, run, disk, faults>>

-----------------------------------------------------------------------------
(* Commands *)

TemplatesOf(a) == {a.command, a.workDir, a.stdout, a.stderr}

(* runActionCommand up to Exec: nothing is kept of an action that fails here *)
PrepareCommand ==
    /\ Acting("command")
    /\ LET a == Action
           w == ActionWhen(a, js)
           args == GetActionArgs(a, w.js)
           envs == GetActionEnv(a, args.js)
           early == {a.command, a.workDir}
       IN  \/ /\ \E t \in TemplatesOf(a) : ~EvalTemplate(t)
              /\ js' = w.js /\ Fail(run.responses) /\ Unfaulty
           \/ /\ \A t \in early : EvalTemplate(t)              \* MkdirAll(workDir)
              /\ WorkDir(a) # ""
              /\ js' = w.js /\ Fail(run.responses) /\ Fault
           \/ /\ \A t \in TemplatesOf(a) : EvalTemplate(t)
              /\ ~args.ok
              /\ js' = args.js /\ Fail(run.responses) /\ Unfaulty
           \/ /\ \A t \in TemplatesOf(a) : EvalTemplate(t)
              /\ args.ok
              /\ js' = envs.js
              /\ \/ ~envs.ok /\ Fail(run.responses) /\ Unfaulty
                 \/ envs.ok /\ engine.logs /\ Fail(run.responses) /\ Fault   \* log dir or files
                 \/ envs.ok /\ run' = [run EXCEPT !.pc = "exec"] /\ Unfaulty
    /\ UNCHANGED <<config, engine, env, disk, async>>

(* What a process leaves in the two buffers: its output, whether it exits or a signal ends it; *)
(* nothing when it does not start.  A log file that cannot be written turns exit code 0 into   *)
(* -1, and takes the standard error with it, whose writer comes second.                        *)
ExecCommand ==
    [exit : {-1, 0, 1}, out : {Token("out")}, err : {Token("err")}]
      \cup {[exit |-> -1, out |-> Nothing, err |-> Nothing]}
      \cup IF engine.logs
           THEN [exit : {-1, 1}, out : {Token("out")}, err : {Nothing}]
           ELSE {}

(* A cancelled context keeps the process from starting, or kills it. *)
CliExec == {o \in ExecCommand : run.ctx = "cancelled" => o.exit = -1}

Exec ==
    /\ run.pc = "exec"
    /\ \E o \in CliExec :
         LET resp == [NewActionResponse EXCEPT !.exit = o.exit, !.out = o.out, !.err = o.err]
         IN  run' = [run EXCEPT !.pc = IF o.exit = -1 THEN "fail" ELSE "stdout",
                                !.ran = TRUE, !.resp = resp, !.wrote = @ \cup {o.out}]
    /\ UNCHANGED <<config, engine, js, env, disk, async, faults>>

Written(file, token) == [f \in DOMAIN disk \cup {file} |-> IF f = file THEN token ELSE disk[f]]

(* The output is taken out of the response before the file is written. *)
WriteOutput(pc, t, field, then) ==
    /\ run.pc = pc
    /\ \/ /\ t.kind = "none"
          /\ run' = [run EXCEPT !.pc = then]
          /\ UNCHANGED disk /\ Unfaulty
       \/ /\ t.kind # "none"
          /\ disk' = Written(File(Action, t), run.resp[field])
          /\ run' = [run EXCEPT !.pc = then, !.resp[field] = Nothing]
          /\ Unfaulty
       \/ /\ t.kind # "none"
          /\ run' = [run EXCEPT !.pc = "fail", !.resp[field] = Nothing, !.lost = @ \cup {Token(field)}]
          /\ UNCHANGED disk /\ Fault
    /\ UNCHANGED <<config, engine, js, env, async>>

WriteStdout == WriteOutput("stdout", Action.stdout, "out", "stderr")
WriteStderr == WriteOutput("stderr", Action.stderr, "err", "code")

CheckCode ==
    /\ run.pc = "code"
    /\ IF Action.failIfNonZeroCode /\ run.resp.exit # 0
       THEN run' = [run EXCEPT !.pc = "fail"]
       ELSE Succeed(run.resp)
    /\ UNCHANGED <<config, engine, js, env, disk, async, faults>>

FailCommand ==
    /\ run.pc = "fail"
    /\ Fail(Record(Action.name, run.resp))
    /\ UNCHANGED <<config, engine, js, env, disk, async, faults>>

-----------------------------------------------------------------------------
(* Scripts *)

RunScriptCode(code, globals) ==
    LET v == EvalScript(code, globals) IN
    /\ js' = v.js
    /\ IF v.ok THEN Succeed(NewActionResponse) ELSE Fail(run.responses)

RunActionScript ==
    /\ Acting("script")
    /\ RunScriptCode(Action.script, ActionWhen(Action, js).js)
    /\ UNCHANGED <<config, engine, env, disk, async, faults>>

RunActionScriptFile ==
    /\ Acting("script_file")
    /\ LET w == ActionWhen(Action, js)
           name == EvalTemplate(Action.scriptFile.name)
       IN  \/ ~name /\ js' = w.js /\ Fail(run.responses) /\ Unfaulty
           \/ name /\ js' = w.js /\ Fail(run.responses) /\ Fault      \* Open, ReadFile, ReadAll
           \/ name /\ RunScriptCode(Action.scriptFile.code, w.js) /\ Unfaulty
    /\ UNCHANGED <<config, engine, env, disk, async>>

-----------------------------------------------------------------------------
FlowInit ==
    /\ config \in Configs
    /\ engine \in Engines
    /\ js = <<>> /\ disk = <<>> /\ async = {} /\ faults = 0
    /\ env = CHOOSE e \in Envs : TRUE
    /\ run = NewRun(0, "idle")

FlowNext ==
    \/ Begin \/ CancelRun \/ End \/ Refuse
    \/ RunActionResult \/ RunActionTrigger
    \/ PrepareCommand \/ Exec \/ WriteStdout \/ WriteStderr \/ CheckCode \/ FailCommand
    \/ RunActionScript \/ RunActionScriptFile
    \/ \E t \in async : CallTrigger(t)

(* The scheduler runs the goroutine of every asynchronous trigger. *)
FlowFairness == WF_flowVars(\E t \in async : CallTrigger(t))

-----------------------------------------------------------------------------
Reached(i) == i < run.i
WhenIsClear(a) == a.when.kind = "reads" /\ a.when.key \in DOMAIN env.context

(* With the names validated, the responses of a Run (flow.go Run) are those of the actions it *)
(* went through, and of the failing one exactly when its command was started; an action is    *)
(* skipped exactly when the Run's own environment says so, whatever earlier scripts and Runs  *)
(* left in the runtime; a failed command is passed over only if its action allows it; and the *)
(* data is that of the last result.                                                           *)
ResponsesTellTruth ==
    (Validate(config) /\ run.n > 0) =>
        /\ DOMAIN run.responses =
             {config[i].name : i \in {j \in DOMAIN config : Reached(j)}}
               \cup IF run.failed /\ run.ran THEN {Action.name} ELSE {}
        /\ \A i \in DOMAIN config : Reached(i) =>
             LET r == run.responses[config[i].name] IN
             /\ WhenIsClear(config[i]) => r.skipped = ~env.context[config[i].when.key]
             /\ r.exit # 0 => ~config[i].failIfNonZeroCode
        /\ \A i \in DOMAIN config :
             (Reached(i) /\ i > run.data /\ config[i].result.set /\ config[i].result.script.kind # "none")
               => run.responses[config[i].name].skipped

(* What a command wrote is never lost: once its action is over (flow.go runActionCommand,     *)
(* Run), its standard output is in the recorded response or in the file the action names,     *)
(* unless that write failed or the same file was written again.                               *)
Rewritten(i) ==
    \E j \in DOMAIN config :
        \/ j = i /\ config[i].stderr.kind # "none" /\ config[i].stderr.says = config[i].stdout.says
        \/ j > i /\ \E t \in {config[j].stdout, config[j].stderr} :
                        t.kind # "none" /\ File(config[j], t) = File(config[i], config[i].stdout)
OutputIsKept ==
    \A i \in DOMAIN config :
        LET out == <<"out", run.n, i>>
            over == Reached(i) \/ (i = run.i /\ run.pc = "returned" /\ run.ran)
        IN  (Validate(config) /\ over /\ config[i].command.kind # "none" /\ out \in run.wrote) =>
                \/ config[i].name \in DOMAIN run.responses /\ run.responses[config[i].name].out = out
                \/ \E f \in DOMAIN disk : disk[f] = out
                \/ out \in run.lost
                \/ config[i].stdout.kind # "none" /\ Rewritten(i)

(* "async trigger must outlive the request scope": the work of the asynchronous triggers that  *)
(* a Run has passed gets done, even if the Run fails or its context is cancelled afterwards.   *)
AsyncTriggersOutlive ==
    \A n \in 1..MaxRuns :
        (\E t \in async : t.n = n) ~> (\A t \in async : t.n = n => t.is = "done")
=============================================================================
