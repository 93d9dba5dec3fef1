----------------------------- MODULE SetupProofs -----------------------------
(***************************************************************************)
(* What setup promises: the preparation of workloads, for any number of    *)
(* workloads and jobs, and the plan of what a machine can serve, for any   *)
(* machine, models, workloads and budgets.                                 *)
(***************************************************************************)
EXTENDS Components, FiniteSetTheorems, WellFoundedInduction, TLAPS

-----------------------------------------------------------------------------
(* Setup and preparation                                                   *)

\* A step of another component leaves what is installed as it is.
LEMMA SetupAlone == Spec => T!Spec
<1>1. Init => T!Init
  BY DEF Init
<1>2. [Next]_vars => [T!Next]_T!setupVars
  BY DEF Next, vars, Alone, setupVars, T!setupVars
<1>3. QED BY <1>1, <1>2, PTL DEF Spec, T!Spec

SetupTyped ==
  /\ python \in [T!Environments -> BOOLEAN] /\ packages \in [T!Environments -> BOOLEAN]
  /\ runtime \in T!RuntimeType
  /\ job \in T!JobType \cup {None}
  /\ ready \in Prepared \cup {None}
  /\ unfinished \subseteq T!Environments \cup {"gguf"}
  /\ marker \in BOOLEAN

\* While a job runs nothing is said to be ready; only the dashboard's jobs
\* remember what they found.
SetupBusy ==
  job # None =>
    /\ ready = None
    /\ job.goal \notin T!Jobs => job.previous = T!NoRuntime

\* An interpreter without its packages is being given them, or a job was cut.
ToolsInstalled ==
  python["tools"] /\ ~T!At("tools", "pip") => packages["tools"] \/ "tools" \in unfinished

\* The executable has the families that cmake's cache lists, unless it is being
\* compiled or a build was cut; what is compiled has what the workload needs.
EngineBuilt ==
  /\ ~T!At("gguf", "compile") /\ binary # None => binary = cache \/ "gguf" \in unfinished
  /\ T!At("gguf", "compile") => Families[job.workload] \subseteq cache

\* The tools and the engine that workload w asks for are there.
ToolsReady(w) == Uses[w] = {"gguf"} \/ packages["tools"] \/ "tools" \in unfinished
EngineReady(w) == "gguf" \in Uses[w] => Families[w] \subseteq binary \/ "gguf" \in unfinished
PackagesReady(w) == \A e \in Uses[w] \cap T!Environments : packages[e]
AllReady(w) == ToolsReady(w) /\ EngineReady(w) /\ PackagesReady(w)

\* A stage is left only when what it installs is there.
StagesDone ==
  /\ job # None =>
       /\ job.stage # "tools" => ToolsReady(job.workload)
       /\ job.stage \in {"vllm", "validate", "record", "download"} => EngineReady(job.workload)
       /\ job.stage \in {"record", "download"} => PackagesReady(job.workload)
  /\ ready # None => AllReady(ready)

\* From its record on, runtime.json names the workload of the job.
Recorded ==
  /\ T!At("record", "write") => runtime = T!Torn
  /\ job # None /\ job.stage = "download" =>
       /\ job.step \in {"begin", "restore"}
       /\ runtime # T!Torn => Uses[job.workload] \subseteq runtime.backends
       /\ job.step = "restore" => runtime # T!Torn /\ job.workload \in runtime.downloads

\* The inductive invariant.
Prepares == SetupTyped /\ SetupBusy /\ ToolsInstalled /\ EngineBuilt /\ StagesDone /\ Recorded


-----------------------------------------------------------------------------
\* The stage after a stage: none that the workload needs is passed over.
LEMMA OnwardStage ==
  ASSUME job \in T!JobType, T!Onward, job.stage \in {"tools", "mlx", "gguf", "vllm"}
  PROVE  \E s \in {"mlx", "gguf", "vllm", "validate"} :
           /\ job' = [job EXCEPT !.step = "begin", !.stage = s]
           /\ "gguf" \in Uses[job.workload] /\ s \in {"vllm", "validate"} =>
                job.stage \in {"gguf", "vllm"}
<1> DEFINE left == {s \in Uses[job.workload] : T!Rank(s) > T!Rank(job.stage)}
           first(s) == \A t \in left : T!Rank(s) <= T!Rank(t)
<1>1. Uses[job.workload] \subseteq {"mlx", "gguf", "vllm"}
  BY SetupAssumption DEF T!JobType, T!Backends
<1>2. T!Rank("tools") = 0 /\ T!Rank("mlx") = 1 /\ T!Rank("gguf") = 2 /\ T!Rank("vllm") = 3
  BY Zenon DEF T!Rank
<1>3. left = {} \/ \E s \in left : first(s)
  BY <1>1, <1>2
<1>4. CASE left = {}
  <2>1. job' = [job EXCEPT !.step = "begin", !.stage = "validate"]
    BY <1>4 DEF T!Onward
  <2>2. "gguf" \in Uses[job.workload] => job.stage \in {"gguf", "vllm"}
    BY <1>2, <1>4
  <2> QED BY <2>1, <2>2
<1>5. CASE left # {}
  <2>1. PICK s \in left : first(s) /\ s = CHOOSE t \in left : first(t)
    BY <1>3, <1>5
  <2>2. job' = [job EXCEPT !.step = "begin", !.stage = s]
    BY <1>5, <2>1, Zenon DEF T!Onward
  <2>3. s = "vllm" /\ "gguf" \in Uses[job.workload] => job.stage \in {"gguf", "vllm"}
    BY <1>2, <2>1
  <2>4. s \in {"mlx", "gguf", "vllm"}
    BY <1>1, <2>1
  <2> HIDE DEF first, left
  <2> QED BY <2>2, <2>3, <2>4
<1> QED BY <1>4, <1>5

LEMMA SetupBegin ==
  ASSUME Prepares, NEW w \in Prepared, NEW refresh \in BOOLEAN, NEW goal \in T!Goals,
         T!Begin(w, refresh, goal)
  PROVE  Prepares'
<1> USE SetupAssumption DEF T!Begin, T!At, T!Step, T!Environments, T!NoRuntime, T!Runtime, T!Torn
<1>0. /\ SetupTyped /\ SetupBusy /\ ToolsInstalled /\ EngineBuilt /\ StagesDone /\ Recorded
  BY DEF Prepares
<1>1. SetupTyped'
  BY <1>0 DEF SetupTyped, T!JobType, T!RuntimeType, T!Goals
<1>2. SetupBusy'
  BY <1>0 DEF SetupBusy, SetupTyped, T!JobType, T!Jobs
<1>3. ToolsInstalled'
  BY <1>0 DEF ToolsInstalled, SetupTyped, T!JobType
<1>4. EngineBuilt'
  BY <1>0 DEF EngineBuilt, SetupTyped, T!JobType, T!Reconciled, T!Needed
<1>5. StagesDone'
  BY <1>0 DEF StagesDone, SetupTyped, SetupBusy, ToolsInstalled, EngineBuilt, T!New, T!Reconciled,
     T!Needed, T!JobType, ToolsReady, EngineReady, PackagesReady, AllReady
<1>6. Recorded'
  BY <1>0 DEF Recorded, SetupTyped, T!JobType, T!RuntimeType
<1> QED BY <1>1, <1>2, <1>3, <1>4, <1>5, <1>6 DEF Prepares

LEMMA SetupVenv ==
  ASSUME Prepares, NEW e \in T!Environments, T!Venv(e)
  PROVE  Prepares'
<1> USE SetupAssumption DEF T!Venv, T!At, T!Step, T!Environments
<1>0. /\ SetupTyped /\ SetupBusy /\ ToolsInstalled /\ EngineBuilt /\ StagesDone /\ Recorded
  BY DEF Prepares
<1>1. SetupTyped'
  BY <1>0 DEF SetupTyped, T!JobType, T!RuntimeType, T!Goals
<1>2. SetupBusy'
  BY <1>0 DEF SetupBusy, SetupTyped, T!JobType, T!Jobs
<1>3. ToolsInstalled'
  BY <1>0 DEF ToolsInstalled, SetupTyped, T!JobType
<1>4. EngineBuilt'
  BY <1>0 DEF EngineBuilt, SetupTyped, T!JobType, T!Reconciled, T!Needed
<1>5. StagesDone'
  BY <1>0 DEF StagesDone, SetupTyped, SetupBusy, ToolsInstalled, EngineBuilt, T!New, T!Reconciled,
     T!Needed, T!JobType, ToolsReady, EngineReady, PackagesReady, AllReady
<1>6. Recorded'
  BY <1>0 DEF Recorded, SetupTyped, T!JobType, T!RuntimeType
<1> QED BY <1>1, <1>2, <1>3, <1>4, <1>5, <1>6 DEF Prepares

LEMMA SetupSkipVenv ==
  ASSUME Prepares, NEW e \in T!Environments, T!SkipVenv(e)
  PROVE  Prepares'
<1> USE SetupAssumption DEF T!SkipVenv, T!At, T!Step, T!Environments
<1>0. /\ SetupTyped /\ SetupBusy /\ ToolsInstalled /\ EngineBuilt /\ StagesDone /\ Recorded
  BY DEF Prepares
<1>a. job \in T!JobType
  BY <1>0 DEF SetupTyped
<1>b. CASE T!Onward
  <2>1. job.stage \in {"tools", "mlx", "gguf", "vllm"}
    BY <1>a
  <2>2. PICK s \in {"mlx", "gguf", "vllm", "validate"} :
           /\ job' = [job EXCEPT !.step = "begin", !.stage = s]
           /\ "gguf" \in Uses[job.workload] /\ s \in {"vllm", "validate"} =>
                job.stage \in {"gguf", "vllm"}
    BY <1>a, <1>b, <2>1, OnwardStage
  <2>3. SetupTyped'
    BY <1>0, <1>a, <2>1, <2>2 DEF SetupTyped, T!JobType, T!RuntimeType, T!Goals
  <2>4. SetupBusy'
    BY <1>0, <1>a, <2>1, <2>2 DEF SetupBusy, SetupTyped, T!JobType, T!Jobs
  <2>5. ToolsInstalled'
    BY <1>0, <1>a, <2>1, <2>2 DEF ToolsInstalled, SetupTyped, T!JobType
  <2>6. EngineBuilt'
    BY <1>0, <1>a, <2>1, <2>2 DEF EngineBuilt, SetupTyped, T!JobType, T!Reconciled, T!Needed
  <2>7. StagesDone'
    BY <1>0, <1>a, <2>1, <2>2 DEF StagesDone, SetupTyped, SetupBusy, ToolsInstalled, EngineBuilt,
       T!New, T!Reconciled, T!Needed, T!JobType, ToolsReady, EngineReady, PackagesReady, AllReady
  <2>8. Recorded'
    BY <1>0, <1>a, <2>1, <2>2 DEF Recorded, SetupTyped, T!JobType, T!RuntimeType
  <2> QED BY <2>3, <2>4, <2>5, <2>6, <2>7, <2>8 DEF Prepares
<1>c. CASE T!Step("pip")
  <2>1. e = "mlx" \/ T!Onward
    BY Zenon DEF T!SkipVenv
  <2>2. CASE e = "mlx"
    <3>1. SetupTyped'
      BY <1>0, <1>a, <1>c, <2>2 DEF SetupTyped, T!JobType, T!RuntimeType, T!Goals
    <3>2. SetupBusy'
      BY <1>0, <1>a, <1>c, <2>2 DEF SetupBusy, SetupTyped, T!JobType, T!Jobs
    <3>3. ToolsInstalled'
      BY <1>0, <1>a, <1>c, <2>2 DEF ToolsInstalled, SetupTyped, T!JobType
    <3>4. EngineBuilt'
      BY <1>0, <1>a, <1>c, <2>2 DEF EngineBuilt, SetupTyped, T!JobType, T!Reconciled, T!Needed
    <3>5. StagesDone'
      BY <1>0, <1>a, <1>c, <2>2 DEF StagesDone, SetupTyped, SetupBusy, ToolsInstalled,
         EngineBuilt, T!New, T!Reconciled, T!Needed, T!JobType, ToolsReady, EngineReady,
           PackagesReady, AllReady
    <3>6. Recorded'
      BY <1>0, <1>a, <1>c, <2>2 DEF Recorded, SetupTyped, T!JobType, T!RuntimeType
    <3> QED BY <3>1, <3>2, <3>3, <3>4, <3>5, <3>6 DEF Prepares
  <2> QED BY <1>b, <2>1, <2>2
<1> QED BY <1>b, <1>c, Zenon DEF T!SkipVenv

LEMMA SetupPip ==
  ASSUME Prepares, NEW e \in T!Environments, T!Pip(e)
  PROVE  Prepares'
<1> USE SetupAssumption DEF T!Pip, T!At, T!Step, T!Environments
<1>0. /\ SetupTyped /\ SetupBusy /\ ToolsInstalled /\ EngineBuilt /\ StagesDone /\ Recorded
  BY DEF Prepares
<1>a. job \in T!JobType
  BY <1>0 DEF SetupTyped
<1>b. CASE T!Onward
  <2>1. job.stage \in {"tools", "mlx", "gguf", "vllm"}
    BY <1>a
  <2>2. PICK s \in {"mlx", "gguf", "vllm", "validate"} :
           /\ job' = [job EXCEPT !.step = "begin", !.stage = s]
           /\ "gguf" \in Uses[job.workload] /\ s \in {"vllm", "validate"} =>
                job.stage \in {"gguf", "vllm"}
    BY <1>a, <1>b, <2>1, OnwardStage
  <2>3. SetupTyped'
    BY <1>0, <1>a, <2>1, <2>2 DEF SetupTyped, T!JobType, T!RuntimeType, T!Goals
  <2>4. SetupBusy'
    BY <1>0, <1>a, <2>1, <2>2 DEF SetupBusy, SetupTyped, T!JobType, T!Jobs
  <2>5. ToolsInstalled'
    BY <1>0, <1>a, <2>1, <2>2 DEF ToolsInstalled, SetupTyped, T!JobType
  <2>6. EngineBuilt'
    BY <1>0, <1>a, <2>1, <2>2 DEF EngineBuilt, SetupTyped, T!JobType, T!Reconciled, T!Needed
  <2>7. StagesDone'
    BY <1>0, <1>a, <2>1, <2>2 DEF StagesDone, SetupTyped, SetupBusy, ToolsInstalled, EngineBuilt,
       T!New, T!Reconciled, T!Needed, T!JobType, ToolsReady, EngineReady, PackagesReady, AllReady
  <2>8. Recorded'
    BY <1>0, <1>a, <2>1, <2>2 DEF Recorded, SetupTyped, T!JobType, T!RuntimeType
  <2> QED BY <2>3, <2>4, <2>5, <2>6, <2>7, <2>8 DEF Prepares
<1>c. CASE T!Step("mark")
  <2>1. e = "vllm" \/ T!Onward
    BY Zenon DEF T!Pip
  <2>2. CASE e = "vllm"
    <3>1. SetupTyped'
      BY <1>0, <1>a, <1>c, <2>2 DEF SetupTyped, T!JobType, T!RuntimeType, T!Goals
    <3>2. SetupBusy'
      BY <1>0, <1>a, <1>c, <2>2 DEF SetupBusy, SetupTyped, T!JobType, T!Jobs
    <3>3. ToolsInstalled'
      BY <1>0, <1>a, <1>c, <2>2 DEF ToolsInstalled, SetupTyped, T!JobType
    <3>4. EngineBuilt'
      BY <1>0, <1>a, <1>c, <2>2 DEF EngineBuilt, SetupTyped, T!JobType, T!Reconciled, T!Needed
    <3>5. StagesDone'
      BY <1>0, <1>a, <1>c, <2>2 DEF StagesDone, SetupTyped, SetupBusy, ToolsInstalled,
         EngineBuilt, T!New, T!Reconciled, T!Needed, T!JobType, ToolsReady, EngineReady,
           PackagesReady, AllReady
    <3>6. Recorded'
      BY <1>0, <1>a, <1>c, <2>2 DEF Recorded, SetupTyped, T!JobType, T!RuntimeType
    <3> QED BY <3>1, <3>2, <3>3, <3>4, <3>5, <3>6 DEF Prepares
  <2> QED BY <1>b, <2>1, <2>2
<1> QED BY <1>b, <1>c, Zenon DEF T!Pip

LEMMA SetupMarkInstalled ==
  ASSUME Prepares, T!MarkInstalled
  PROVE  Prepares'
<1> USE SetupAssumption DEF T!MarkInstalled, T!At, T!Step, T!Environments
<1>0. /\ SetupTyped /\ SetupBusy /\ ToolsInstalled /\ EngineBuilt /\ StagesDone /\ Recorded
  BY DEF Prepares
<1>a. job \in T!JobType
  BY <1>0 DEF SetupTyped
<1>b. CASE T!Onward
  <2>1. job.stage \in {"tools", "mlx", "gguf", "vllm"}
    BY <1>a
  <2>2. PICK s \in {"mlx", "gguf", "vllm", "validate"} :
           /\ job' = [job EXCEPT !.step = "begin", !.stage = s]
           /\ "gguf" \in Uses[job.workload] /\ s \in {"vllm", "validate"} =>
                job.stage \in {"gguf", "vllm"}
    BY <1>a, <1>b, <2>1, OnwardStage
  <2>3. SetupTyped'
    BY <1>0, <1>a, <2>1, <2>2 DEF SetupTyped, T!JobType, T!RuntimeType, T!Goals
  <2>4. SetupBusy'
    BY <1>0, <1>a, <2>1, <2>2 DEF SetupBusy, SetupTyped, T!JobType, T!Jobs
  <2>5. ToolsInstalled'
    BY <1>0, <1>a, <2>1, <2>2 DEF ToolsInstalled, SetupTyped, T!JobType
  <2>6. EngineBuilt'
    BY <1>0, <1>a, <2>1, <2>2 DEF EngineBuilt, SetupTyped, T!JobType, T!Reconciled, T!Needed
  <2>7. StagesDone'
    BY <1>0, <1>a, <2>1, <2>2 DEF StagesDone, SetupTyped, SetupBusy, ToolsInstalled, EngineBuilt,
       T!New, T!Reconciled, T!Needed, T!JobType, ToolsReady, EngineReady, PackagesReady, AllReady
  <2>8. Recorded'
    BY <1>0, <1>a, <2>1, <2>2 DEF Recorded, SetupTyped, T!JobType, T!RuntimeType
  <2> QED BY <2>3, <2>4, <2>5, <2>6, <2>7, <2>8 DEF Prepares
<1> QED BY <1>b

LEMMA SetupSkipBuild ==
  ASSUME Prepares, T!SkipBuild
  PROVE  Prepares'
<1> USE SetupAssumption DEF T!SkipBuild, T!At, T!Step, T!Environments
<1>0. /\ SetupTyped /\ SetupBusy /\ ToolsInstalled /\ EngineBuilt /\ StagesDone /\ Recorded
  BY DEF Prepares
<1>a. job \in T!JobType
  BY <1>0 DEF SetupTyped
<1>b. CASE T!Onward
  <2>1. job.stage \in {"tools", "mlx", "gguf", "vllm"}
    BY <1>a
  <2>2. PICK s \in {"mlx", "gguf", "vllm", "validate"} :
           /\ job' = [job EXCEPT !.step = "begin", !.stage = s]
           /\ "gguf" \in Uses[job.workload] /\ s \in {"vllm", "validate"} =>
                job.stage \in {"gguf", "vllm"}
    BY <1>a, <1>b, <2>1, OnwardStage
  <2>3. SetupTyped'
    BY <1>0, <1>a, <2>1, <2>2 DEF SetupTyped, T!JobType, T!RuntimeType, T!Goals
  <2>4. SetupBusy'
    BY <1>0, <1>a, <2>1, <2>2 DEF SetupBusy, SetupTyped, T!JobType, T!Jobs
  <2>5. ToolsInstalled'
    BY <1>0, <1>a, <2>1, <2>2 DEF ToolsInstalled, SetupTyped, T!JobType
  <2>6. EngineBuilt'
    BY <1>0, <1>a, <2>1, <2>2 DEF EngineBuilt, SetupTyped, T!JobType, T!Reconciled, T!Needed
  <2>7. StagesDone'
    BY <1>0, <1>a, <2>1, <2>2 DEF StagesDone, SetupTyped, SetupBusy, ToolsInstalled, EngineBuilt,
       T!New, T!Reconciled, T!Needed, T!JobType, ToolsReady, EngineReady, PackagesReady, AllReady
  <2>8. Recorded'
    BY <1>0, <1>a, <2>1, <2>2 DEF Recorded, SetupTyped, T!JobType, T!RuntimeType
  <2> QED BY <2>3, <2>4, <2>5, <2>6, <2>7, <2>8 DEF Prepares
<1> QED BY <1>b

LEMMA SetupConfigure ==
  ASSUME Prepares, T!Configure
  PROVE  Prepares'
<1> USE SetupAssumption DEF T!Configure, T!At, T!Step, T!Environments
<1>0. /\ SetupTyped /\ SetupBusy /\ ToolsInstalled /\ EngineBuilt /\ StagesDone /\ Recorded
  BY DEF Prepares
<1>1. SetupTyped'
  BY <1>0 DEF SetupTyped, T!JobType, T!RuntimeType, T!Goals
<1>2. SetupBusy'
  BY <1>0 DEF SetupBusy, SetupTyped, T!JobType, T!Jobs
<1>3. ToolsInstalled'
  BY <1>0 DEF ToolsInstalled, SetupTyped, T!JobType
<1>4. EngineBuilt'
  BY <1>0 DEF EngineBuilt, SetupTyped, T!JobType, T!Reconciled, T!Needed
<1>5. StagesDone'
  BY <1>0 DEF StagesDone, SetupTyped, SetupBusy, ToolsInstalled, EngineBuilt, T!New, T!Reconciled,
     T!Needed, T!JobType, ToolsReady, EngineReady, PackagesReady, AllReady
<1>6. Recorded'
  BY <1>0 DEF Recorded, SetupTyped, T!JobType, T!RuntimeType
<1> QED BY <1>1, <1>2, <1>3, <1>4, <1>5, <1>6 DEF Prepares

LEMMA SetupCompile ==
  ASSUME Prepares, T!Compile
  PROVE  Prepares'
<1> USE SetupAssumption DEF T!Compile, T!At, T!Step, T!Environments
<1>0. /\ SetupTyped /\ SetupBusy /\ ToolsInstalled /\ EngineBuilt /\ StagesDone /\ Recorded
  BY DEF Prepares
<1>a. job \in T!JobType
  BY <1>0 DEF SetupTyped
<1>b. CASE T!Onward
  <2>1. job.stage \in {"tools", "mlx", "gguf", "vllm"}
    BY <1>a
  <2>2. PICK s \in {"mlx", "gguf", "vllm", "validate"} :
           /\ job' = [job EXCEPT !.step = "begin", !.stage = s]
           /\ "gguf" \in Uses[job.workload] /\ s \in {"vllm", "validate"} =>
                job.stage \in {"gguf", "vllm"}
    BY <1>a, <1>b, <2>1, OnwardStage
  <2>3. SetupTyped'
    BY <1>0, <1>a, <2>1, <2>2 DEF SetupTyped, T!JobType, T!RuntimeType, T!Goals
  <2>4. SetupBusy'
    BY <1>0, <1>a, <2>1, <2>2 DEF SetupBusy, SetupTyped, T!JobType, T!Jobs
  <2>5. ToolsInstalled'
    BY <1>0, <1>a, <2>1, <2>2 DEF ToolsInstalled, SetupTyped, T!JobType
  <2>6. EngineBuilt'
    BY <1>0, <1>a, <2>1, <2>2 DEF EngineBuilt, SetupTyped, T!JobType, T!Reconciled, T!Needed
  <2>7. StagesDone'
    BY <1>0, <1>a, <2>1, <2>2 DEF StagesDone, SetupTyped, SetupBusy, ToolsInstalled, EngineBuilt,
       T!New, T!Reconciled, T!Needed, T!JobType, ToolsReady, EngineReady, PackagesReady, AllReady
  <2>8. Recorded'
    BY <1>0, <1>a, <2>1, <2>2 DEF Recorded, SetupTyped, T!JobType, T!RuntimeType
  <2> QED BY <2>3, <2>4, <2>5, <2>6, <2>7, <2>8 DEF Prepares
<1> QED BY <1>b

LEMMA SetupValidate ==
  ASSUME Prepares, T!Validate
  PROVE  Prepares'
<1> USE SetupAssumption DEF T!Validate, T!At, T!Step, T!Environments
<1>0. /\ SetupTyped /\ SetupBusy /\ ToolsInstalled /\ EngineBuilt /\ StagesDone /\ Recorded
  BY DEF Prepares
<1>1. SetupTyped'
  BY <1>0 DEF SetupTyped, T!JobType, T!RuntimeType, T!Goals
<1>2. SetupBusy'
  BY <1>0 DEF SetupBusy, SetupTyped, T!JobType, T!Jobs
<1>3. ToolsInstalled'
  BY <1>0 DEF ToolsInstalled, SetupTyped, T!JobType
<1>4. EngineBuilt'
  BY <1>0 DEF EngineBuilt, SetupTyped, T!JobType, T!Reconciled, T!Needed
<1>5. StagesDone'
  <2>1. job \in T!JobType /\ Uses[job.workload] \subseteq {"mlx", "gguf", "vllm"}
    BY <1>0 DEF SetupTyped, T!JobType, T!Backends
  <2>2. PackagesReady(job.workload)
    BY <2>1 DEF PackagesReady, T!Works
  <2>3. ToolsReady(job.workload) /\ EngineReady(job.workload)
    BY <1>0 DEF StagesDone
  <2>4. job'.workload = job.workload /\ ready' = None
    BY <1>0, <2>1 DEF SetupBusy, T!JobType
  <2> QED BY <2>2, <2>3, <2>4 DEF StagesDone, ToolsReady, EngineReady, PackagesReady
<1>6. Recorded'
  BY <1>0 DEF Recorded, SetupTyped, T!JobType, T!RuntimeType
<1> QED BY <1>1, <1>2, <1>3, <1>4, <1>5, <1>6 DEF Prepares

LEMMA SetupReadRuntime ==
  ASSUME Prepares, T!ReadRuntime
  PROVE  Prepares'
<1> USE SetupAssumption DEF T!ReadRuntime, T!At, T!Step, T!Environments
<1>0. /\ SetupTyped /\ SetupBusy /\ ToolsInstalled /\ EngineBuilt /\ StagesDone /\ Recorded
  BY DEF Prepares
<1>1. SetupTyped'
  BY <1>0 DEF SetupTyped, T!JobType, T!RuntimeType, T!Goals
<1>2. SetupBusy'
  BY <1>0 DEF SetupBusy, SetupTyped, T!JobType, T!Jobs
<1>3. ToolsInstalled'
  BY <1>0 DEF ToolsInstalled, SetupTyped, T!JobType
<1>4. EngineBuilt'
  BY <1>0 DEF EngineBuilt, SetupTyped, T!JobType, T!Reconciled, T!Needed
<1>5. StagesDone'
  BY <1>0 DEF StagesDone, SetupTyped, SetupBusy, ToolsInstalled, EngineBuilt, T!New, T!Reconciled,
     T!Needed, T!JobType, ToolsReady, EngineReady, PackagesReady, AllReady
<1>6. Recorded'
  BY <1>0 DEF Recorded, SetupTyped, T!JobType, T!RuntimeType
<1> QED BY <1>1, <1>2, <1>3, <1>4, <1>5, <1>6 DEF Prepares

LEMMA SetupTruncate ==
  ASSUME Prepares, T!Truncate
  PROVE  Prepares'
<1> USE SetupAssumption DEF T!Truncate, T!At, T!Step, T!Environments, T!Torn, T!Runtime
<1>0. /\ SetupTyped /\ SetupBusy /\ ToolsInstalled /\ EngineBuilt /\ StagesDone /\ Recorded
  BY DEF Prepares
<1>1. SetupTyped'
  BY <1>0 DEF SetupTyped, T!JobType, T!RuntimeType, T!Goals
<1>2. SetupBusy'
  BY <1>0 DEF SetupBusy, SetupTyped, T!JobType, T!Jobs
<1>3. ToolsInstalled'
  BY <1>0 DEF ToolsInstalled, SetupTyped, T!JobType
<1>4. EngineBuilt'
  BY <1>0 DEF EngineBuilt, SetupTyped, T!JobType, T!Reconciled, T!Needed
<1>5. StagesDone'
  BY <1>0 DEF StagesDone, SetupTyped, SetupBusy, ToolsInstalled, EngineBuilt, T!New, T!Reconciled,
     T!Needed, T!JobType, ToolsReady, EngineReady, PackagesReady, AllReady
<1>6. Recorded'
  BY <1>0 DEF Recorded, SetupTyped, T!JobType, T!RuntimeType
<1> QED BY <1>1, <1>2, <1>3, <1>4, <1>5, <1>6 DEF Prepares

LEMMA SetupWriteRuntime ==
  ASSUME Prepares, T!WriteRuntime
  PROVE  Prepares'
<1> USE SetupAssumption DEF T!WriteRuntime, T!At, T!Step, T!Environments, T!Torn, T!Runtime
<1>0. /\ SetupTyped /\ SetupBusy /\ ToolsInstalled /\ EngineBuilt /\ StagesDone /\ Recorded
  BY DEF Prepares
<1>a. job \in T!JobType /\ runtime \in T!RuntimeType
  BY <1>0 DEF SetupTyped
<1>b. Uses[job.workload] \subseteq T!Backends
  BY <1>a DEF T!JobType
<1>c. runtime' \in T!RuntimeType
  <2>1. T!Torn \in T!RuntimeType
    BY DEF T!RuntimeType
  <2>2. T!Runtime("whole", job.workload, Uses[job.workload], job.downloads) \in T!RuntimeType
    BY <1>a, <1>b DEF T!RuntimeType, T!JobType
  <2> QED BY <2>1, <2>2 DEF T!WriteRuntime
<1>d. job' \in T!JobType \cup {None} /\ ready' \in Prepared \cup {None}
  <2>1. [job EXCEPT !.stage = "download", !.step = "begin"] \in T!JobType
    BY <1>a DEF T!JobType
  <2>2. job.workload \in Prepared /\ ready \in Prepared \cup {None}
    BY <1>0, <1>a DEF SetupTyped, T!JobType
  <2> QED BY <2>1, <2>2 DEF T!WriteRuntime
<1>1. SetupTyped'
  BY <1>0, <1>c, <1>d DEF SetupTyped
<1>2. SetupBusy'
  BY ZenonT(30), <1>0 DEF SetupBusy, SetupTyped, T!JobType, T!Jobs
<1>3. ToolsInstalled'
  BY <1>0 DEF ToolsInstalled, SetupTyped, T!JobType
<1>4. EngineBuilt'
  BY <1>0 DEF EngineBuilt, SetupTyped, T!JobType, T!Reconciled, T!Needed
<1>5. StagesDone'
  BY ZenonT(30), <1>0 DEF StagesDone, SetupTyped, SetupBusy, ToolsInstalled, EngineBuilt, T!New, T!Reconciled,
     T!Needed, T!JobType, ToolsReady, EngineReady, PackagesReady, AllReady
<1>6. Recorded'
  <2>1. runtime' # T!Torn => runtime'.backends = Uses[job.workload]
    OBVIOUS
  <2>2. CASE job.goal = "setup"
    BY <2>2 DEF Recorded
  <2>3. CASE job.goal # "setup"
    <3>1. job'.workload = job.workload /\ job'.step = "begin" /\ job'.stage = "download"
      BY <1>a, <2>3 DEF T!JobType
    <3> HIDE DEF T!Torn
    <3> QED BY <2>1, <3>1 DEF Recorded
  <2> QED BY <2>2, <2>3
<1> QED BY <1>1, <1>2, <1>3, <1>4, <1>5, <1>6 DEF Prepares

LEMMA SetupDownload ==
  ASSUME Prepares, T!Download
  PROVE  Prepares'
<1> USE SetupAssumption DEF T!Download, T!At, T!Step, T!Environments, T!Torn, T!Runtime
<1>0. /\ SetupTyped /\ SetupBusy /\ ToolsInstalled /\ EngineBuilt /\ StagesDone /\ Recorded
  BY DEF Prepares
<1>1. SetupTyped'
  BY <1>0 DEF SetupTyped, T!JobType, T!RuntimeType, T!Goals
<1>2. SetupBusy'
  BY <1>0 DEF SetupBusy, SetupTyped, T!JobType, T!Jobs
<1>3. ToolsInstalled'
  BY <1>0 DEF ToolsInstalled, SetupTyped, T!JobType
<1>4. EngineBuilt'
  BY <1>0 DEF EngineBuilt, SetupTyped, T!JobType, T!Reconciled, T!Needed
<1>5. StagesDone'
  BY <1>0 DEF StagesDone, SetupTyped, SetupBusy, ToolsInstalled, EngineBuilt, T!New, T!Reconciled,
     T!Needed, T!JobType, ToolsReady, EngineReady, PackagesReady, AllReady
<1>6. Recorded'
  BY <1>0 DEF Recorded, SetupTyped, T!JobType, T!RuntimeType
<1> QED BY <1>1, <1>2, <1>3, <1>4, <1>5, <1>6 DEF Prepares

LEMMA SetupRestore ==
  ASSUME Prepares, T!Restore
  PROVE  Prepares'
<1> USE SetupAssumption DEF T!Restore, T!At, T!Step, T!Environments, T!Restored
<1>0. /\ SetupTyped /\ SetupBusy /\ ToolsInstalled /\ EngineBuilt /\ StagesDone /\ Recorded
  BY DEF Prepares
<1>1. SetupTyped'
  BY <1>0 DEF SetupTyped, T!JobType, T!RuntimeType, T!Goals
<1>2. SetupBusy'
  BY <1>0 DEF SetupBusy, SetupTyped, T!JobType, T!Jobs
<1>3. ToolsInstalled'
  BY <1>0 DEF ToolsInstalled, SetupTyped, T!JobType
<1>4. EngineBuilt'
  BY <1>0 DEF EngineBuilt, SetupTyped, T!JobType, T!Reconciled, T!Needed
<1>5. StagesDone'
  BY <1>0 DEF StagesDone, SetupTyped, SetupBusy, ToolsInstalled, EngineBuilt, T!New, T!Reconciled,
     T!Needed, T!JobType, ToolsReady, EngineReady, PackagesReady, AllReady
<1>6. Recorded'
  BY <1>0 DEF Recorded, SetupTyped, T!JobType, T!RuntimeType
<1> QED BY <1>1, <1>2, <1>3, <1>4, <1>5, <1>6 DEF Prepares

LEMMA SetupFails ==
  ASSUME Prepares, T!Fails
  PROVE  Prepares'
<1> USE SetupAssumption DEF T!Fails, T!At, T!Step, T!Environments, T!LeftBehind, T!Restored, T!Torn
<1>0. /\ SetupTyped /\ SetupBusy /\ ToolsInstalled /\ EngineBuilt /\ StagesDone /\ Recorded
  BY DEF Prepares
<1>1. SetupTyped'
  BY <1>0 DEF SetupTyped, T!JobType, T!RuntimeType, T!Goals
<1>2. SetupBusy'
  BY <1>0 DEF SetupBusy, SetupTyped, T!JobType, T!Jobs
<1>3. ToolsInstalled'
  BY <1>0 DEF ToolsInstalled, SetupTyped, T!JobType
<1>4. EngineBuilt'
  BY <1>0 DEF EngineBuilt, SetupTyped, T!JobType, T!Reconciled, T!Needed
<1>5. StagesDone'
  BY <1>0 DEF StagesDone, SetupTyped, SetupBusy, ToolsInstalled, EngineBuilt, T!New, T!Reconciled,
     T!Needed, T!JobType, ToolsReady, EngineReady, PackagesReady, AllReady
<1>6. Recorded'
  BY <1>0 DEF Recorded, SetupTyped, T!JobType, T!RuntimeType
<1> QED BY <1>1, <1>2, <1>3, <1>4, <1>5, <1>6 DEF Prepares

LEMMA SetupKilled ==
  ASSUME Prepares, T!Killed
  PROVE  Prepares'
<1> USE SetupAssumption DEF T!Killed, T!At, T!Step, T!Environments, T!LeftBehind
<1>0. /\ SetupTyped /\ SetupBusy /\ ToolsInstalled /\ EngineBuilt /\ StagesDone /\ Recorded
  BY DEF Prepares
<1>1. SetupTyped'
  BY <1>0 DEF SetupTyped, T!JobType, T!RuntimeType, T!Goals
<1>2. SetupBusy'
  BY <1>0 DEF SetupBusy, SetupTyped, T!JobType, T!Jobs
<1>3. ToolsInstalled'
  BY <1>0 DEF ToolsInstalled, SetupTyped, T!JobType
<1>4. EngineBuilt'
  BY <1>0 DEF EngineBuilt, SetupTyped, T!JobType, T!Reconciled, T!Needed
<1>5. StagesDone'
  BY <1>0 DEF StagesDone, SetupTyped, SetupBusy, ToolsInstalled, EngineBuilt, T!New, T!Reconciled,
     T!Needed, T!JobType, ToolsReady, EngineReady, PackagesReady, AllReady
<1>6. Recorded'
  BY <1>0 DEF Recorded, SetupTyped, T!JobType, T!RuntimeType
<1> QED BY <1>1, <1>2, <1>3, <1>4, <1>5, <1>6 DEF Prepares

LEMMA PreparesInit == T!Init => Prepares
<1> SUFFICES ASSUME T!Init PROVE Prepares
  OBVIOUS
<1> USE DEF T!Init
<1>1. T!NoRuntime \in T!RuntimeType
  BY DEF T!NoRuntime, T!Runtime, T!RuntimeType
<1>2. SetupTyped
  BY <1>1 DEF SetupTyped
<1>3. ~python["tools"] /\ binary = None /\ job = None /\ ready = None
  BY DEF T!Environments
<1> QED
  BY <1>2, <1>3 DEF Prepares, SetupBusy, ToolsInstalled, EngineBuilt, StagesDone, Recorded, T!At

LEMMA PreparesStutter ==
  ASSUME Prepares, UNCHANGED T!setupVars
  PROVE  Prepares'
BY DEF T!setupVars, Prepares, SetupTyped, SetupBusy, ToolsInstalled, EngineBuilt, StagesDone,
   Recorded,
       T!At, AllReady, ToolsReady, EngineReady, PackagesReady

LEMMA PreparesNext == Prepares /\ [T!Next]_T!setupVars => Prepares'
<1> SUFFICES ASSUME Prepares, [T!Next]_T!setupVars PROVE Prepares'
  OBVIOUS
<1>1. CASE UNCHANGED T!setupVars
  BY <1>1, PreparesStutter
<1>2. CASE T!Next
  BY <1>2, SetupBegin, SetupVenv, SetupSkipVenv, SetupPip, SetupMarkInstalled, SetupSkipBuild,
     SetupConfigure, SetupCompile, SetupValidate, SetupReadRuntime, SetupTruncate,
     SetupWriteRuntime, SetupDownload, SetupRestore, SetupFails, SetupKilled, Zenon
     DEF T!Next
<1> QED BY <1>1, <1>2

\* The job under way and the killed ones are among those begun; the families
\* that cmake was told and those that are built are some workload's.
SetupCounted ==
  /\ killed \in Nat /\ begun \in 0..MaxJobs
  /\ killed + (IF job = None THEN 0 ELSE 1) <= begun
  /\ cache \subseteq UNION {Families[w] : w \in Prepared}
  /\ binary = None \/ binary \subseteq cache

LEMMA SetupCountedNext == Prepares /\ SetupCounted /\ [T!Next]_T!setupVars => SetupCounted'
<1> SUFFICES ASSUME Prepares, SetupCounted, [T!Next]_T!setupVars PROVE SetupCounted'
  OBVIOUS
<1> USE SetupAssumption DEF SetupCounted
<1>1. CASE UNCHANGED T!setupVars
  BY <1>1 DEF T!setupVars
<1>2. ASSUME job # None, killed' = killed, begun' = begun, UNCHANGED <<cache, binary>>
      PROVE  SetupCounted'
  BY <1>2
<1>3. CASE \/ \E e \in T!Environments : T!Venv(e) \/ T!SkipVenv(e) \/ T!Pip(e)
           \/ T!MarkInstalled \/ T!SkipBuild \/ T!Validate \/ T!ReadRuntime \/ T!Truncate
           \/ T!WriteRuntime \/ T!Download \/ T!Restore \/ T!Fails
  <2>1. job # None /\ killed' = killed /\ begun' = begun /\ UNCHANGED <<cache, binary>>
    BY <1>3, Zenon DEF T!Venv, T!SkipVenv, T!Pip, T!MarkInstalled, T!SkipBuild, T!Validate,
       T!ReadRuntime,
       T!Truncate, T!WriteRuntime, T!Download, T!Restore, T!Fails, T!At
  <2> QED BY <1>2, <2>1
<1>4. ASSUME NEW w \in Prepared, NEW refresh \in BOOLEAN, NEW goal \in T!Goals,
             T!Begin(w, refresh, goal)
      PROVE  SetupCounted'
  BY <1>4 DEF T!Begin
<1>5. CASE T!Configure
  <2>1. job \in T!JobType /\ job.workload \in Prepared
    BY <1>5 DEF T!Configure, T!At, Prepares, SetupTyped, T!JobType
  <2>2. cache' \subseteq UNION {Families[w] : w \in Prepared} /\ cache \subseteq cache'
    BY <1>5, <2>1 DEF T!Configure, T!Needed
  <2>3. killed' = killed /\ begun' = begun /\ binary' = binary /\ job # None
    BY <1>5 DEF T!Configure, T!At
  <2> QED BY <2>2, <2>3
<1>6. CASE T!Compile
  BY <1>6 DEF T!Compile, T!At
<1>7. CASE T!Killed
  BY <1>7 DEF T!Killed
<1> QED BY <1>1, <1>3, <1>4, <1>5, <1>6, <1>7 DEF T!Next

LEMMA PreparesAlways == T!Spec => [](Prepares /\ SetupCounted)
<1>1. T!Init => SetupCounted
  BY SetupAssumption DEF T!Init, SetupCounted
<1> QED BY <1>1, PreparesInit, PreparesNext, SetupCountedNext, PTL DEF T!Spec

LEMMA SetupTypeOK == Prepares /\ SetupCounted => T!TypeOK
<1> SUFFICES ASSUME Prepares, SetupCounted PROVE T!TypeOK
  OBVIOUS
<1>1. killed \in 0..begun /\ begun \in 0..MaxJobs
  BY SetupAssumption DEF SetupCounted
<1>2. SetupTyped
  BY DEF Prepares
<1> QED BY <1>1, <1>2 DEF SetupTyped, SetupCounted, T!TypeOK

\* A job ends with success or with a failure, or it is killed.
LEMMA JobEnds ==
  ASSUME Prepares, SetupCounted, [T!Next]_T!setupVars, job # None, job' = None, killed' = killed
  PROVE  T!Fails \/ T!Restore \/ (T!WriteRuntime /\ job.goal = "setup")
<1> USE SetupAssumption
<1>1. job \in T!JobType /\ ready = None
  BY DEF Prepares, SetupTyped, SetupBusy
<1>2. \A x \in {"begin", "pip", "mark", "compile", "truncate", "write", "restore"} :
        [job EXCEPT !.step = x] \in T!JobType
  BY <1>1 DEF T!JobType
<1>3. ASSUME NEW x \in {"pip", "mark", "compile", "write", "restore"} PROVE ~T!Step(x)
  BY <1>2 DEF T!Step
<1>4. ASSUME job.stage \in {"tools", "mlx", "gguf", "vllm"} PROVE ~T!Onward
  <2> SUFFICES ASSUME T!Onward PROVE FALSE
    OBVIOUS
  <2>1. PICK s \in {"mlx", "gguf", "vllm", "validate"} :
           job' = [job EXCEPT !.step = "begin", !.stage = s]
    BY <1>1, <1>4, OnwardStage
  <2>2. job' \in T!JobType
    BY <1>1, <2>1 DEF T!JobType, T!Environments
  <2> QED BY <2>2
<1>5. \A e \in T!Environments : ~T!Venv(e) /\ ~T!SkipVenv(e) /\ ~T!Pip(e)
  BY <1>3, <1>4 DEF T!Venv, T!SkipVenv, T!Pip, T!At, T!Environments
<1>6. ~T!MarkInstalled /\ ~T!SkipBuild /\ ~T!Configure /\ ~T!Compile /\ ~T!Truncate /\ ~T!Download
  BY <1>3, <1>4 DEF T!MarkInstalled, T!SkipBuild, T!Configure, T!Compile, T!Truncate, T!Download,
     T!At
<1>7. ~T!Validate /\ ~T!ReadRuntime
  <2>1. [job EXCEPT !.stage = "record"] \in T!JobType
    BY <1>1 DEF T!JobType
  <2>2. [job EXCEPT !.step = "truncate", !.downloads = runtime.downloads] \in T!JobType
    BY <1>1 DEF T!JobType, Prepares, SetupTyped, T!RuntimeType
  <2> QED BY <2>1, <2>2 DEF T!Validate, T!ReadRuntime
<1>8. T!WriteRuntime => job.goal = "setup"
  <2>1. [job EXCEPT !.stage = "download", !.step = "begin"] \in T!JobType
    BY <1>1 DEF T!JobType
  <2> QED BY <2>1 DEF T!WriteRuntime
<1>9. ~T!Killed /\ ~UNCHANGED T!setupVars
  BY DEF T!Killed, T!setupVars, SetupCounted
<1>10. \A w \in Prepared, refresh \in BOOLEAN, goal \in T!Goals : ~T!Begin(w, refresh, goal)
  BY DEF T!Begin
<1> QED BY <1>5, <1>6, <1>7, <1>8, <1>9, <1>10, Zenon DEF T!Next

\* While a refresh is under way, the stages that it has left are installed, whatever
\* was cut before it.
Refreshing ==
  job # None /\ job.refresh =>
    /\ job.stage # "tools" /\ Uses[job.workload] # {"gguf"} => packages["tools"]
    /\ job.stage \in {"vllm", "validate", "record", "download"} /\ "gguf" \in Uses[job.workload] =>
         Families[job.workload] \subseteq binary

\* Going on to the next stage after the tools' or the engine's.
LEMMA RefreshOnward ==
  ASSUME job \in T!JobType, T!Onward, Refreshing,
         job.stage \in {"tools", "mlx", "gguf", "vllm"},
         packages["tools"] => packages'["tools"], binary' = binary \/ job.stage = "gguf",
         job.refresh /\ job.stage = "tools" /\ Uses[job.workload] # {"gguf"} => packages'["tools"],
         job.refresh /\ job.stage = "gguf" => Families[job.workload] \subseteq binary'
  PROVE  Refreshing'
<1>1. PICK s \in {"mlx", "gguf", "vllm", "validate"} :
         /\ job' = [job EXCEPT !.step = "begin", !.stage = s]
         /\ "gguf" \in Uses[job.workload] /\ s \in {"vllm", "validate"} =>
              job.stage \in {"gguf", "vllm"}
  BY OnwardStage
<1>2. job'.stage = s /\ job'.workload = job.workload /\ job'.refresh = job.refresh
  BY <1>1 DEF T!JobType
<1>3. job # None
  BY SetupAssumption
<1> QED BY <1>1, <1>2, <1>3 DEF Refreshing

LEMMA RefreshNext == Prepares /\ Refreshing /\ [T!Next]_T!setupVars => Refreshing'
<1> SUFFICES ASSUME Prepares, Refreshing, [T!Next]_T!setupVars PROVE Refreshing'
  OBVIOUS
<1> USE SetupAssumption
<1>a. job \in T!JobType \cup {None} /\ packages \in [T!Environments -> BOOLEAN]
  BY DEF Prepares, SetupTyped
<1>b. "tools" \in T!Environments
  BY DEF T!Environments
<1>c. ASSUME job' = None PROVE Refreshing'
  BY <1>c DEF Refreshing
<1>d. ASSUME job # None, UNCHANGED <<packages, binary>>, job'.workload = job.workload,
             job'.refresh = job.refresh, job'.stage = job.stage
      PROVE  Refreshing'
  BY <1>d DEF Refreshing
<1>e. ASSUME job # None, NEW x, T!Step(x), UNCHANGED <<packages, binary>> PROVE Refreshing'
  <2>1. job'.workload = job.workload /\ job'.refresh = job.refresh /\ job'.stage = job.stage
    BY <1>a, <1>e DEF T!Step, T!JobType
  <2> QED BY <1>d, <1>e, <2>1
<1>1. CASE UNCHANGED T!setupVars
  BY <1>1 DEF T!setupVars, Refreshing
<1>2. ASSUME NEW w \in Prepared, NEW refresh \in BOOLEAN, NEW goal \in T!Goals,
             T!Begin(w, refresh, goal)
      PROVE  Refreshing'
  BY <1>2 DEF T!Begin, Refreshing
<1>3. ASSUME NEW e \in T!Environments, T!Venv(e) PROVE Refreshing'
  <2>1. job \in T!JobType /\ job.stage = e
    BY <1>a, <1>3 DEF T!Venv, T!At
  <2>2. job'.workload = job.workload /\ job'.refresh = job.refresh /\ job'.stage = e
    BY <1>3, <2>1 DEF T!Venv, T!Step, T!JobType
  <2>3. e # "tools" => packages'["tools"] = packages["tools"]
    BY <1>a, <1>b, <1>3 DEF T!Venv
  <2>4. binary' = binary /\ job # None
    BY <1>3 DEF T!Venv, T!At
  <2> QED BY <2>1, <2>2, <2>3, <2>4 DEF Refreshing
<1>4. ASSUME NEW e \in T!Environments, T!SkipVenv(e) PROVE Refreshing'
  <2>1. job \in T!JobType /\ job.stage = e /\ UNCHANGED <<packages, binary>> /\ job # None
    BY <1>a, <1>4 DEF T!SkipVenv, T!At
  <2>2. CASE T!Step("pip")
    BY <1>e, <2>1, <2>2
  <2>3. CASE T!Onward
    <3>1. job.refresh => e = "tools" /\ Uses[job.workload] = {"gguf"}
      BY <1>4 DEF T!SkipVenv, T!New
    <3>2. e # "gguf" /\ e \in {"tools", "mlx", "vllm"}
      BY DEF T!Environments
    <3> QED BY <2>1, <2>3, <3>1, <3>2, RefreshOnward
  <2> QED BY <1>4, <2>2, <2>3, Zenon DEF T!SkipVenv
<1>5. ASSUME NEW e \in T!Environments, T!Pip(e) PROVE Refreshing'
  <2>1. job \in T!JobType /\ job.stage = e /\ binary' = binary /\ job # None
    BY <1>a, <1>5 DEF T!Pip, T!At
  <2>2. packages' = [packages EXCEPT ![e] = TRUE]
    BY <1>5 DEF T!Pip
  <2>3. (packages["tools"] => packages'["tools"]) /\ (e = "tools" => packages'["tools"])
    BY <1>a, <1>b, <2>2
  <2>4. CASE T!Step("mark")
    <3>1. job'.workload = job.workload /\ job'.refresh = job.refresh /\ job'.stage = job.stage
      BY <2>1, <2>4 DEF T!Step, T!JobType
    <3> QED BY <2>1, <2>3, <3>1 DEF Refreshing
  <2>5. CASE T!Onward
    <3>1. e \in {"tools", "mlx", "vllm"}
      BY DEF T!Environments
    <3> QED BY <2>1, <2>3, <2>5, <3>1, RefreshOnward
  <2> QED BY <1>5, <2>4, <2>5, Zenon DEF T!Pip
<1>6. CASE T!MarkInstalled
  <2>1. job \in T!JobType /\ job.stage = "vllm" /\ UNCHANGED <<packages, binary>> /\ T!Onward
    BY <1>a, <1>6 DEF T!MarkInstalled, T!At
  <2> QED BY <2>1, RefreshOnward
<1>7. CASE T!SkipBuild
  <2>1. /\ job \in T!JobType /\ job.stage = "gguf" /\ UNCHANGED <<packages, binary>> /\ T!Onward
        /\ ~job.refresh
    BY <1>a, <1>7 DEF T!SkipBuild, T!At
  <2> QED BY <2>1, RefreshOnward
<1>8. CASE T!Configure
  BY <1>e, <1>8 DEF T!Configure, T!At
<1>9. CASE T!Compile
  <2>1. job \in T!JobType /\ job.stage = "gguf" /\ packages' = packages /\ T!Onward
    BY <1>a, <1>9 DEF T!Compile, T!At
  <2>2. Families[job.workload] \subseteq binary'
    BY <1>9 DEF T!Compile, Prepares, EngineBuilt
  <2> QED BY <2>1, <2>2, RefreshOnward
<1>10. CASE T!Validate
  <2>1. job \in T!JobType /\ job.stage = "validate" /\ UNCHANGED <<packages, binary>>
    BY <1>a, <1>10 DEF T!Validate, T!At
  <2>2. job'.workload = job.workload /\ job'.refresh = job.refresh /\ job'.stage = "record"
    BY <1>10, <2>1 DEF T!Validate, T!JobType
  <2> QED BY <2>1, <2>2 DEF Refreshing
<1>11. CASE T!ReadRuntime
  <2>1. job \in T!JobType /\ UNCHANGED <<packages, binary>> /\ job # None
    BY <1>a, <1>11 DEF T!ReadRuntime, T!At
  <2>2. job'.workload = job.workload /\ job'.refresh = job.refresh /\ job'.stage = job.stage
    BY <1>11, <2>1 DEF T!ReadRuntime, T!JobType
  <2> QED BY <1>d, <2>1, <2>2
<1>12. CASE T!Truncate
  BY <1>e, <1>12 DEF T!Truncate, T!At
<1>13. CASE T!WriteRuntime
  <2>1. job \in T!JobType /\ job.stage = "record" /\ UNCHANGED <<packages, binary>> /\ job # None
    BY <1>a, <1>13 DEF T!WriteRuntime, T!At
  <2>2. CASE job' = [job EXCEPT !.stage = "download", !.step = "begin"]
    <3>1. job'.workload = job.workload /\ job'.refresh = job.refresh /\ job'.stage = "download"
      BY <2>1, <2>2 DEF T!JobType
    <3> QED BY <2>1, <3>1 DEF Refreshing
  <2> QED BY <1>c, <1>13, <2>2, Zenon DEF T!WriteRuntime
<1>14. CASE T!Download
  BY <1>e, <1>14 DEF T!Download, T!At
<1>15. CASE T!Restore \/ T!Fails \/ T!Killed
  BY <1>c, <1>15 DEF T!Restore, T!Fails, T!Killed
<1> QED
  BY <1>1, <1>2, <1>3, <1>4, <1>5, <1>6, <1>7, <1>8, <1>9, <1>10, <1>11, <1>12, <1>13, <1>14,
     <1>15, Zenon DEF T!Next

LEMMA RefreshAlways == T!Spec => []Refreshing
<1>1. T!Init => Refreshing
  BY DEF T!Init, Refreshing
<1> QED BY <1>1, RefreshNext, PreparesAlways, PTL DEF T!Spec

\* Only the last step of a job says that its workload is ready.
LEMMA SaysReady ==
  ASSUME [T!Next]_T!setupVars, ready = None, ready' # None
  PROVE  T!Restore \/ T!WriteRuntime
BY Zenon DEF T!Next, T!setupVars, T!Begin, T!Venv, T!SkipVenv, T!Pip, T!MarkInstalled, T!SkipBuild,
   T!Configure, T!Compile, T!Validate, T!ReadRuntime, T!Truncate, T!Download, T!Fails, T!Killed

\* What a dashboard's job puts back: the workload that it found, with all that
\* either file knew.
LEMMA PutBack ==
  ASSUME Prepares, job # None, job.previous # T!NoRuntime
  PROVE  /\ T!Restored.workload = job.previous.workload
         /\ T!Restored.backends = job.previous.backends \cup runtime.backends
         /\ T!Restored.downloads = job.previous.downloads \cup runtime.downloads
<1>1. job.previous \in T!RuntimeType
  BY DEF Prepares, SetupTyped, T!JobType
<1> QED BY <1>1 DEF T!Restored, T!RuntimeType

\* Setup and preparation: what reports success is whole, whatever failed or was
\* killed before it, if it was a refresh; otherwise with the exception of an audio
\* engine or a tools environment that an earlier attempt left cut half-way and
\* that is taken for done (the run Setup shows both).  What ends keeps the
\* default workload and everything that runtime.json knew.
THEOREM SetupLeavesWhole == Spec => PreparedWhole
<1>1. Prepares => T!PreparedWhole
  BY DEF Prepares, StagesDone, AllReady, ToolsReady, EngineReady, PackagesReady, T!PreparedWhole
<1>2. ASSUME Prepares, SetupCounted, [T!Next]_T!setupVars
      PROVE  [(/\ job # None /\ job' = None /\ killed' = killed /\ job.previous # T!NoRuntime
               /\ job.goal = "prepare" \/ ready' = None) =>
               \/ runtime' = T!Torn
               \/ /\ runtime'.workload = job.previous.workload
                  /\ job.previous.backends \subseteq runtime'.backends
                  /\ job.previous.downloads \subseteq runtime'.downloads
                  /\ ready' # None => /\ Uses[job.workload] \subseteq runtime'.backends
                                      /\ job.workload \in runtime'.downloads]_T!setupVars
  <2> SUFFICES ASSUME job # None, job' = None, killed' = killed, job.previous # T!NoRuntime,
                      job.goal = "prepare" \/ ready' = None, runtime' # T!Torn
               PROVE  /\ runtime'.workload = job.previous.workload
                      /\ job.previous.backends \subseteq runtime'.backends
                      /\ job.previous.downloads \subseteq runtime'.downloads
                      /\ ready' # None => /\ Uses[job.workload] \subseteq runtime'.backends
                                          /\ job.workload \in runtime'.downloads
    BY Zenon
  <2>1. job \in T!JobType /\ job.workload \in Prepared /\ job.goal \in T!Jobs
    BY <1>2 DEF Prepares, SetupTyped, SetupBusy, T!JobType
  <2>2. CASE T!Fails
    <3>1. runtime' = T!Restored /\ ready' = None
      BY <1>2, <2>1, <2>2 DEF T!Fails, Prepares, SetupBusy
    <3> HIDE DEF T!Restored
    <3> QED BY <1>2, <3>1, PutBack
  <2>3. CASE T!Restore
    <3>1. job.goal = "prepare"
      BY <2>1, <2>3, SetupAssumption DEF T!Restore
    <3>2. runtime' = T!Restored
      BY <2>3, <3>1 DEF T!Restore
    <3>3. Uses[job.workload] \subseteq runtime.backends /\ job.workload \in runtime.downloads
      BY <1>2, <2>3 DEF T!Restore, T!At, Prepares, Recorded
    <3> QED BY <1>2, <3>2, <3>3, PutBack
  <2>4. CASE T!WriteRuntime /\ job.goal = "setup"
    BY <2>1, <2>4 DEF T!Jobs
  <2> QED BY <1>2, <2>2, <2>3, <2>4, JobEnds
<1>3. T!Spec => []T!PreparedWhole
  BY <1>1, PreparesAlways, PTL
<1>4. T!Spec => T!DefaultKept
  BY <1>2, PreparesAlways, PTL DEF T!Spec, T!DefaultKept
<1>5. ASSUME Prepares, SetupCounted, Refreshing, [T!Next]_T!setupVars
      PROVE  [job # None /\ job.refresh /\ job' = None /\ ready' # None =>
                T!Whole(ready)']_T!setupVars
  <2> SUFFICES ASSUME job # None, job.refresh, job' = None, ready' # None
               PROVE  T!Whole(ready)'
    BY Zenon
  <2>1. ready = None /\ job \in T!JobType
    BY <1>5 DEF Prepares, SetupBusy, SetupTyped
  <2>3. T!Restore \/ T!WriteRuntime
    BY <1>5, <2>1, SaysReady
  <2>4. /\ job.stage \in {"record", "download"} /\ ready' = job.workload
        /\ UNCHANGED <<packages, binary>>
    BY <2>1, <2>3 DEF T!Restore, T!WriteRuntime, T!At
  <2>5. PackagesReady(job.workload)
    BY <1>5, <2>4 DEF Prepares, StagesDone
  <2> QED BY <1>5, <2>4, <2>5 DEF Refreshing, PackagesReady, T!Whole
<1>6. T!Spec => T!RefreshRepairs
  BY <1>5, PreparesAlways, RefreshAlways, PTL DEF T!Spec, T!RefreshRepairs
<1> QED BY <1>3, <1>4, <1>6, SetupAlone DEF PreparedWhole

-----------------------------------------------------------------------------
(* Planning: sums over finite sets                                          *)

\* A family of subsets of a finite set has a least member: what holds of each subset
\* of a finite set is shown from a least one of which it does not.
LEMMA SmallestSubset ==
  ASSUME NEW S, IsFiniteSet(S), NEW F, F \subseteq SUBSET S, F # {}
  PROVE  \E s \in F : \A t \in F : t \subseteq s => t = s
<1>1. IsWellFoundedOn(StrictSubsetOrdering(S), SUBSET S)
  BY FS_StrictSubsetOrderingWellFounded, FS_FiniteSubsetsOfFinite
<1>2. PICK s \in F : \A t \in F : ~ (<<t, s>> \in StrictSubsetOrdering(S))
  BY <1>1, WFMin
<1>3. ASSUME NEW t \in F, t \subseteq s PROVE t = s
  BY <1>2, <1>3 DEF StrictSubsetOrdering
<1> QED
  BY <1>3

\* The library sums a function by taking one element of its domain after another;
\* Total is that sum over a set of the elements.
FirstOf(s) == CHOOSE x \in s : TRUE
Added(g, f, s) == IF s = {} THEN 0 ELSE f[FirstOf(s)] + g[s \ {FirstOf(s)}]
Adds(g, f, S) == g = [s \in SUBSET S |-> Added(g, f, s)]
Total(f, S) == (CHOOSE g : Adds(g, f, S))[S]

LEMMA FirstIsMember ==
  ASSUME NEW s, s # {}
  PROVE  FirstOf(s) \in s
BY DEF FirstOf

\* The library's sum over a set is Total.
LEMMA SumIsTotal ==
  ASSUME NEW f
  PROVE  \A S : P!SumFunctionOnSet(f, S) = Total(f, S)
BY DEF P!SumFunctionOnSet, P!FoldFunctionOnSet, P!MapThenFoldSet,
       Total, Adds, Added, FirstOf

LEMMA AddsAt ==
  ASSUME NEW S, NEW f, NEW g, Adds(g, f, S), NEW s \in SUBSET S
  PROVE  g[s] = Added(g, f, s)
BY DEF Adds

\* The sums of two functions agree where the functions do.
LEMMA AddsAgree ==
  ASSUME NEW S, IsFiniteSet(S), NEW U, NEW f, NEW g, NEW h, NEW k,
         Adds(g, f, S), Adds(h, k, U),
         \A x \in S \cap U : f[x] = k[x]
  PROVE  \A s \in SUBSET (S \cap U) : g[s] = h[s]
<1> SUFFICES ASSUME NEW s0 \in SUBSET (S \cap U), g[s0] # h[s0]
             PROVE  FALSE
  OBVIOUS
<1> DEFINE Bad == {s \in SUBSET (S \cap U) : g[s] # h[s]}
<1>1. Bad \subseteq SUBSET S /\ Bad # {}
  OBVIOUS
<1>2. PICK s \in Bad : \A t \in Bad : t \subseteq s => t = s
  <2> HIDE DEF Bad
  <2> QED
    BY <1>1, SmallestSubset
<1>3. /\ g[s] = Added(g, f, s)
      /\ h[s] = Added(h, k, s)
  BY DEF Adds
<1>4. CASE s = {}
  BY <1>2, <1>3, <1>4 DEF Added
<1>5. CASE s # {}
  <2>1. FirstOf(s) \in s
    BY <1>5, FirstIsMember
  <2>2. g[s \ {FirstOf(s)}] = h[s \ {FirstOf(s)}]
    BY <1>2, <2>1
  <2> QED
    BY <1>2, <1>3, <1>5, <2>1, <2>2 DEF Added
<1> QED
  BY <1>4, <1>5

\* A function has sums over the subsets of a finite set.
LEMMA AddsExists ==
  ASSUME NEW S, IsFiniteSet(S), NEW f
  PROVE  \E g : Adds(g, f, S)
<1> SUFFICES ASSUME ~ \E g : Adds(g, f, S)
             PROVE  FALSE
  OBVIOUS
<1> DEFINE Bad == {s \in SUBSET S : ~ \E g : Adds(g, f, s)}
<1>1. Bad \subseteq SUBSET S /\ Bad # {}
  OBVIOUS
<1>2. PICK t \in Bad : \A u \in Bad : u \subseteq t => u = t
  <2> HIDE DEF Bad
  <2> QED
    BY <1>1, SmallestSubset
<1> DEFINE G(u) == CHOOSE g : Adds(g, f, u)
<1> DEFINE V(u) == G(u)[u]
<1> DEFINE h == [s \in SUBSET t |-> IF s = {} THEN 0 ELSE f[FirstOf(s)] + V(s \ {FirstOf(s)})]
<1>3. \A u \in SUBSET t : u # t => Adds(G(u), f, u)
  <2> TAKE u \in SUBSET t
  <2> HAVE u # t
  <2>1. \E g : Adds(g, f, u)
    BY <1>2
  <2> QED
    BY <2>1
<1>4. \A u \in SUBSET t : IsFiniteSet(u)
  BY FS_Subset
<1> HIDE DEF G
<1>5. ASSUME NEW u \in SUBSET t, u # t, NEW w \in SUBSET u
      PROVE  G(u)[w] = V(w)
  <2>1. Adds(G(u), f, u) /\ Adds(G(w), f, w) /\ IsFiniteSet(u)
    BY <1>3, <1>4, <1>5
  <2> QED
    BY <2>1, AddsAgree
<1>6. \A s \in SUBSET t : h[s] = Added(h, f, s)
  <2> TAKE s \in SUBSET t
  <2>1. CASE s = {}
    BY <2>1 DEF Added
  <2>2. CASE s # {}
    <3> DEFINE u == s \ {FirstOf(s)}
    <3>1. u \in SUBSET t /\ u # t
      BY <2>2, FirstIsMember
    <3>2. h[u] = V(u)
      <4>1. CASE u = {}
        <5>1. V(u) = Added(G(u), f, u)
          BY <1>3, <3>1, AddsAt
        <5> QED
          BY <4>1, <5>1, <3>1 DEF Added
      <4>2. CASE u # {}
        <5>1. FirstOf(u) \in u
          BY <4>2, FirstIsMember
        <5>2. V(u) = f[FirstOf(u)] + G(u)[u \ {FirstOf(u)}]
          <6>1. V(u) = Added(G(u), f, u)
            BY <1>3, <3>1, AddsAt
          <6> QED
            BY <4>2, <6>1 DEF Added
        <5> QED
          BY <4>2, <5>1, <5>2, <1>5, <3>1
      <4> QED
        BY <4>1, <4>2
    <3> QED
      BY <2>2, <3>2 DEF Added
  <2> QED
    BY <2>1, <2>2
<1>7. Adds(h, f, t)
  BY <1>6 DEF Adds
<1> QED
  BY <1>2, <1>7

LEMMA TotalAdds ==
  ASSUME NEW S, IsFiniteSet(S), NEW f
  PROVE  Adds(CHOOSE g : Adds(g, f, S), f, S)
BY AddsExists

LEMMA SumNothing ==
  ASSUME NEW f
  PROVE  Total(f, {}) = 0
<1>1. \A g : Adds(g, f, {}) => g[{}] = 0
  BY DEF Adds, Added
<1> QED
  BY <1>1, TotalAdds, FS_EmptySet DEF Total

LEMMA SumSame ==
  ASSUME NEW S, IsFiniteSet(S), NEW f, NEW k, \A x \in S : f[x] = k[x]
  PROVE  Total(f, S) = Total(k, S)
<1> DEFINE g == CHOOSE s : Adds(s, f, S)
<1> DEFINE h == CHOOSE s : Adds(s, k, S)
<1>1. Adds(g, f, S) /\ Adds(h, k, S)
  BY TotalAdds
<1> HIDE DEF g, h
<1>2. g[S] = h[S]
  BY <1>1, AddsAgree
<1> QED
  BY <1>2 DEF Total, g, h

\* A sum is its first element and the sum of the others.
LEMMA SumFirst ==
  ASSUME NEW S, IsFiniteSet(S), NEW f, S # {}
  PROVE  Total(f, S) = f[FirstOf(S)] + Total(f, S \ {FirstOf(S)})
<1> DEFINE U == S \ {FirstOf(S)}
<1> DEFINE g == CHOOSE s : Adds(s, f, S)
<1> DEFINE h == CHOOSE s : Adds(s, f, U)
<1>0. IsFiniteSet(U)
  BY FS_RemoveElement
<1>1. Adds(g, f, S) /\ Adds(h, f, U)
  BY <1>0, TotalAdds
<1>a. Total(f, S) = g[S] /\ Total(f, U) = h[U]
  BY DEF Total
<1> HIDE DEF g, h
<1>2. g[U] = h[U]
  BY <1>1, AddsAgree
<1>3. g[S] = Added(g, f, S)
  BY <1>1, AddsAt
<1> QED
  BY <1>2, <1>3, <1>a DEF Added

\* Numbers add up to a number.
LEMMA SumNat ==
  ASSUME NEW S, IsFiniteSet(S), NEW f, \A x \in S : f[x] \in Nat
  PROVE  Total(f, S) \in Nat
<1> SUFFICES ASSUME Total(f, S) \notin Nat
             PROVE  FALSE
  OBVIOUS
<1> DEFINE Bad == {s \in SUBSET S : Total(f, s) \notin Nat}
<1>1. Bad \subseteq SUBSET S /\ Bad # {}
  OBVIOUS
<1>2. PICK s \in Bad : \A t \in Bad : t \subseteq s => t = s
  <2> HIDE DEF Bad
  <2> QED
    BY <1>1, SmallestSubset
<1>3. s # {}
  BY SumNothing
<1>4. Total(f, s) = f[FirstOf(s)] + Total(f, s \ {FirstOf(s)})
  BY <1>3, FS_Subset, SumFirst
<1>5. FirstOf(s) \in s /\ f[FirstOf(s)] \in Nat
  BY <1>3, FirstIsMember
<1>6. Total(f, s \ {FirstOf(s)}) \in Nat
  BY <1>2, <1>5
<1> QED
  BY <1>4, <1>5, <1>6

\* The order of the summands does not matter.
LEMMA SumRemove ==
  ASSUME NEW S, IsFiniteSet(S), NEW f, \A x \in S : f[x] \in Nat, NEW x \in S
  PROVE  Total(f, S) = f[x] + Total(f, S \ {x})
<1> DEFINE Splits(s) == \A y \in s : Total(f, s) = f[y] + Total(f, s \ {y})
<1> SUFFICES ASSUME ~Splits(S)
             PROVE  FALSE
  OBVIOUS
<1> DEFINE Bad == {s \in SUBSET S : ~Splits(s)}
<1>1. Bad \subseteq SUBSET S /\ Bad # {}
  OBVIOUS
<1>2. PICK s \in Bad : \A t \in Bad : t \subseteq s => t = s
  <2> HIDE DEF Bad
  <2> QED
    BY <1>1, SmallestSubset
<1>3. PICK y \in s : Total(f, s) # f[y] + Total(f, s \ {y})
  OBVIOUS
<1> DEFINE c == FirstOf(s)
<1> DEFINE u == s \ {c}
<1> DEFINE w == s \ {y}
<1>4. /\ c \in s
      /\ Total(f, s) = f[c] + Total(f, u)
  BY <1>3, FS_Subset, SumFirst, FirstIsMember
<1> HIDE DEF c
<1>5. y # c
  BY <1>3, <1>4
<1>6. Splits(u) /\ Splits(w)
  BY <1>2, <1>3, <1>4
<1>7. Total(f, u) = f[y] + Total(f, u \ {y}) /\ Total(f, w) = f[c] + Total(f, w \ {c})
  BY <1>3, <1>4, <1>5, <1>6
<1>8. Total(f, u \ {y}) = Total(f, w \ {c})
  <2>1. u \ {y} = w \ {c}
    OBVIOUS
  <2> QED
    BY <2>1
<1>9. Total(f, u \ {y}) \in Nat /\ f[y] \in Nat /\ f[c] \in Nat
  BY <1>3, <1>4, FS_Subset, SumNat
<1>10. f[c] + Total(f, u) = f[y] + Total(f, w)
  <2> HIDE DEF u, w
  <2> QED
    BY <1>7, <1>8, <1>9
<1> QED
  BY <1>3, <1>4, <1>10

\* A part of a set adds up to no more than the set.
LEMMA SumMore ==
  ASSUME NEW S, IsFiniteSet(S), NEW f, \A x \in S : f[x] \in Nat, NEW U \in SUBSET S
  PROVE  Total(f, U) <= Total(f, S)
<1> DEFINE Less(s) == Total(f, s \cap U) <= Total(f, s)
<1> SUFFICES ASSUME ~Less(S)
             PROVE  FALSE
  <2>1. S \cap U = U
    OBVIOUS
  <2> QED
    BY <2>1
<1> DEFINE Bad == {s \in SUBSET S : ~Less(s)}
<1>1. Bad \subseteq SUBSET S /\ Bad # {}
  OBVIOUS
<1>2. PICK s \in Bad : \A t \in Bad : t \subseteq s => t = s
  <2> HIDE DEF Bad
  <2> QED
    BY <1>1, SmallestSubset
<1>3. IsFiniteSet(s) /\ IsFiniteSet(s \cap U) /\ ~Less(s)
  BY FS_Subset
<1>4. s # {}
  <2> SUFFICES ASSUME s = {} PROVE FALSE
    OBVIOUS
  <2>1. s \cap U = {}
    OBVIOUS
  <2> QED
    BY <2>1, <1>3, SumNothing
<1>5. PICK c \in s : TRUE
  BY <1>4
<1> DEFINE u == s \ {c}
<1>6. Less(u)
  BY <1>2
<1>7. Total(f, s) = f[c] + Total(f, u) /\ f[c] \in Nat
  BY <1>3, SumRemove
<1>8. Total(f, u) \in Nat /\ Total(f, s \cap U) \in Nat /\ Total(f, u \cap U) \in Nat
  BY <1>3, FS_Subset, SumNat
<1>9. CASE c \in U
  <2>1. Total(f, s \cap U) = f[c] + Total(f, (s \cap U) \ {c})
    BY <1>3, <1>9, SumRemove
  <2>2. (s \cap U) \ {c} = u \cap U
    OBVIOUS
  <2>3. Total(f, s \cap U) = f[c] + Total(f, u \cap U)
    BY <2>1, <2>2
  <2>4. Total(f, u \cap U) <= Total(f, u) /\ ~ (Total(f, s \cap U) <= Total(f, s))
    BY <1>3, <1>6
  <2> HIDE DEF u
  <2> QED
    BY <1>7, <1>8, <2>3, <2>4
<1>10. CASE c \notin U
  <2>1. s \cap U = u \cap U
    BY <1>10
  <2>2. Total(f, s \cap U) = Total(f, u \cap U)
    BY <2>1
  <2>3. Total(f, u \cap U) <= Total(f, u) /\ ~ (Total(f, s \cap U) <= Total(f, s))
    BY <1>3, <1>6
  <2> HIDE DEF u
  <2> QED
    BY <1>7, <1>8, <2>2, <2>3
<1> QED
  BY <1>9, <1>10

-----------------------------------------------------------------------------
(* Planning: what a model is charged                                        *)

\* The library's largest and smallest of a few numbers.
LEMMA MaxOfTwo ==
  ASSUME NEW a \in Int, NEW b \in Int
  PROVE  /\ P!Max({a, b}) \in {a, b}
         /\ P!Max({a, b}) >= a /\ P!Max({a, b}) >= b
<1>1. \E x \in {a, b} : \A y \in {a, b} : x >= y
  OBVIOUS
<1>2. P!Max({a, b}) \in {a, b} /\ \A y \in {a, b} : P!Max({a, b}) >= y
  BY <1>1, Zenon DEF P!Max
<1> QED
  BY <1>2

LEMMA MaxOfThree ==
  ASSUME NEW a \in Int, NEW b \in Int, NEW c \in Int
  PROVE  /\ P!Max({a, b, c}) \in {a, b, c}
         /\ P!Max({a, b, c}) >= a /\ P!Max({a, b, c}) >= b /\ P!Max({a, b, c}) >= c
<1>1. \E x \in {a, b, c} : \A y \in {a, b, c} : x >= y
  OBVIOUS
<1>2. P!Max({a, b, c}) \in {a, b, c} /\ \A y \in {a, b, c} : P!Max({a, b, c}) >= y
  BY <1>1, Zenon DEF P!Max
<1> QED
  BY <1>2

LEMMA LeastOfTwo ==
  ASSUME NEW a \in Int, NEW b \in Int
  PROVE  P!Least(a, b) \in {a, b} /\ P!Least(a, b) <= a /\ P!Least(a, b) <= b
<1>1. \E x \in {a, b} : \A y \in {a, b} : x <= y
  OBVIOUS
<1>2. P!Min({a, b}) \in {a, b} /\ \A y \in {a, b} : P!Min({a, b}) <= y
  BY <1>1, Zenon DEF P!Min
<1> QED
  BY <1>2 DEF P!Least

\* Products and quotients of amounts are amounts.
LEMMA Products == \A a, b \in Nat : a * b \in Nat
OBVIOUS

\* What a model takes is a number of bytes.
LEMMA CapacityIsNat ==
  ASSUME NEW p \in P!PolicyType, NEW g, g.window \in Nat
  PROVE  P!Capacity(g, p) \in Nat
<1>1. p.tokens \in Nat /\ p.batch \in Nat
  BY DEF P!PolicyType
<1>2. P!Least(p.tokens, g.window + p.batch) \in Nat
  BY <1>1, LeastOfTwo
<1>3. \A t \in Nat : ((t + 255) \div 256) * 256 \in Nat
  OBVIOUS
<1> QED
  BY <1>1, <1>2, <1>3 DEF P!Capacity

LEMMA RowBytesIsNat ==
  ASSUME NEW n \in Nat, NEW kv
  PROVE  P!RowBytes(n, kv) \in Nat
<1>1. (n + 31) \div 32 \in Nat
  OBVIOUS
<1> QED
  BY <1>1 DEF P!RowBytes

LEMMA CacheIsNat ==
  ASSUME NEW p \in P!PolicyType, NEW m \in P!Models
  PROVE  P!CacheBytes(Artifacts[m], p) \in Nat
<1> DEFINE a == Artifacts[m]
<1> DEFINE f == [g \in a.groups |-> P!Capacity(g, p) * p.sequences * g.layers
                                      * (P!RowBytes(g.width, p.key) + P!RowBytes(g.width, p.value))]
<1>1. p.sequences \in Nat
  BY DEF P!PolicyType
<1>2. /\ IsFiniteSet(a.groups)
      /\ \A g \in a.groups : g.layers \in Nat /\ g.width \in Nat /\ g.window \in Nat
  BY PlanningAssumption
<1>3. ASSUME NEW g \in a.groups
      PROVE  f[g] \in Nat
  <2> DEFINE c == P!Capacity(g, p)
  <2> DEFINE r == P!RowBytes(g.width, p.key) + P!RowBytes(g.width, p.value)
  <2>1. c \in Nat /\ r \in Nat /\ g.layers \in Nat
    BY <1>2, CapacityIsNat, RowBytesIsNat
  <2>2. f[g] = c * p.sequences * g.layers * r
    OBVIOUS
  <2> HIDE DEF c, r, f
  <2>3. c * p.sequences \in Nat
    BY <1>1, <2>1, Products
  <2>4. c * p.sequences * g.layers \in Nat
    BY <2>1, <2>3, Products
  <2> QED
    BY <2>1, <2>2, <2>4, Products
<1>4. P!CacheBytes(a, p) = Total(f, DOMAIN f)
  BY SumIsTotal DEF P!CacheBytes
<1> QED
  BY <1>2, <1>3, <1>4, SumNat

LEMMA BytesAreNat ==
  ASSUME NEW m \in P!Models, NEW S, S \subseteq Artifacts[m].files
  PROVE  P!BytesOf(S) \in Nat
<1> DEFINE f == [g \in S |-> g.bytes]
<1>1. IsFiniteSet(S) /\ \A g \in S : f[g] \in Nat
  BY PlanningAssumption, FS_Subset
<1>2. P!BytesOf(S) = Total(f, DOMAIN f)
  BY SumIsTotal DEF P!BytesOf
<1> QED
  BY <1>1, <1>2, SumNat

LEMMA Quarters == P!Quarter \in Nat /\ P!Half \in Nat /\ P!Quarter >= 1 /\ P!Half >= 2
BY PlanningAssumption DEF P!Quarter, P!Half

\* The estimate holds what is loaded, the cache and a margin.
LEMMA EstimateCovers ==
  ASSUME NEW p \in P!PolicyType, NEW m \in P!Models
  PROVE  /\ P!Weights(Artifacts[m], p) \in Nat
         /\ P!Estimate(Artifacts[m], p) \in Nat
         /\ P!Estimate(Artifacts[m], p)
              > P!Weights(Artifacts[m], p) + P!CacheBytes(Artifacts[m], p)
<1> DEFINE a == Artifacts[m]
<1> DEFINE weights == P!Weights(a, p)
<1> DEFINE omitted == P!BytesOf({f \in a.files : ~P!Active(f, p.speculative)})
<1> DEFINE least == (11 * weights) \div 10 + P!Quarter
<1> DEFINE reserved == a.reservation - omitted
<1> DEFINE base == P!Max({0, reserved, least})
<1> DEFINE margin == base - weights
<1> DEFINE declared == a.overhead
<1> DEFINE overhead == P!Max({margin, declared})
<1>1. weights \in Nat /\ omitted \in Nat
  BY BytesAreNat DEF P!Weights
<1>2. a.reservation \in Nat /\ declared \in Nat
  BY PlanningAssumption
<1>3. P!CacheBytes(a, p) \in Nat
  BY CacheIsNat
<1>4. P!Estimate(a, p) = weights + P!CacheBytes(a, p) + overhead
  BY DEF P!Estimate
<1> HIDE DEF weights, omitted
<1>5. least \in Int /\ least > weights
  BY <1>1, Quarters
<1>6. base \in Int /\ base >= least
  <2>1. reserved \in Int /\ 0 \in Int
    BY <1>1, <1>2
  <2> HIDE DEF least, reserved
  <2> QED
    BY <1>5, <2>1, MaxOfThree
<1>7. overhead \in Int /\ overhead >= margin /\ margin = base - weights
  <2> HIDE DEF base
  <2>1. margin \in Int /\ declared \in Int
    BY <1>1, <1>2, <1>6
  <2> HIDE DEF margin, declared
  <2>2. overhead \in Int /\ overhead >= margin
    BY <2>1, MaxOfTwo
  <2> QED
    BY <2>2 DEF margin
<1>8. overhead > 0
  <2> HIDE DEF base, overhead, least, margin
  <2> QED
    BY <1>1, <1>5, <1>6, <1>7
<1> HIDE DEF overhead
<1> QED
  BY <1>1, <1>3, <1>4, <1>7, <1>8 DEF weights

\* What is split between an accelerator and the CPU loses less than one byte to
\* rounding on each side.
LEMMA SplitCovers ==
  ASSUME NEW n \in Nat, NEW b \in Nat, NEW l \in Nat, 0 < l, l < b
  PROVE  /\ (n * (b - l)) \div b \in Nat /\ (n * l) \div b \in Nat
         /\ (n * (b - l)) \div b + (n * l) \div b + 1 >= n
<1> DEFINE x == n * (b - l)
<1> DEFINE y == n * l
<1> DEFINE q == x \div b
<1> DEFINE r == y \div b
<1>1. x \in Nat /\ y \in Nat /\ x + y = n * b
  <2>1. b - l \in Nat
    OBVIOUS
  <2>2. n * (b - l) = n * b - n * l
    OBVIOUS
  <2>3. n * (b - l) \in Nat /\ n * l \in Nat /\ n * b \in Nat
    BY <2>1, Products
  <2> QED
    BY <2>2, <2>3
<1> HIDE DEF x, y
<1>2. q \in Nat /\ r \in Nat /\ b * q + b > x /\ b * r + b > y
  BY <1>1
<1> HIDE DEF q, r
<1>3. b * (q + r + 2) > b * n
  <2>1. b * (q + r + 2) = b * q + b * r + b + b /\ b * n = n * b
    BY <1>2
  <2>2. b * q \in Nat /\ b * r \in Nat /\ b * n \in Nat
    BY <1>2, Products
  <2> QED
    BY <1>1, <1>2, <2>1, <2>2
<1>4. q + r + 2 > n
  <2> SUFFICES ASSUME q + r + 2 <= n
               PROVE  FALSE
    BY <1>2
  <2>1. b * (q + r + 2) <= b * n
    BY <1>2
  <2> QED
    BY <1>2, <1>3, <2>1
<1> QED
  BY <1>2, <1>4 DEF q, r, x, y

\* A charge for a device is worth what it holds.
Covering(charge, device, bytes) ==
  /\ charge = [device |-> device, ram |-> charge.ram, vram |-> charge.vram]
  /\ charge.ram \in Nat /\ charge.ram > 0
  /\ charge.vram \in Nat
  /\ charge.ram + charge.vram >= bytes

\* A charge whose two amounts are changed is the charge of its device with the new ones.
LEMMA Recharged ==
  ASSUME NEW charge, NEW device, NEW ram, NEW vram,
         charge = [device |-> device, ram |-> charge.ram, vram |-> charge.vram]
  PROVE  [charge EXCEPT !.ram = ram, !.vram = vram]
           = [device |-> device, ram |-> ram, vram |-> vram]
<1> DEFINE changed == [charge EXCEPT !.ram = ram, !.vram = vram]
<1> DEFINE r == charge.ram
<1> DEFINE v == charge.vram
<1>1. changed = [f \in DOMAIN charge |-> IF f = "vram" THEN vram
                                         ELSE IF f = "ram" THEN ram ELSE charge[f]]
  BY Zenon
<1>2. charge = [device |-> device, ram |-> r, vram |-> v]
  OBVIOUS
<1> HIDE DEF r, v
<1> QED
  BY <1>1, <1>2

\* What is moved to the CPU is charged there at least what the device is relieved of.
LEMMA MovedCovers ==
  ASSUME NEW charge, NEW device, NEW bytes \in Nat, Covering(charge, device, bytes),
         NEW declared \in Int, NEW moved \in Nat
  PROVE  Covering(P!Moved(charge, declared, moved), device, bytes)
<1>1. CASE moved = 0
  BY <1>1 DEF P!Moved
<1>2. CASE moved # 0
  <2> DEFINE kept == charge.vram - (9 * moved) \div 10
  <2> DEFINE more == (5 * moved) \div 4 + P!Quarter
  <2> DEFINE left == P!Max({declared, 0, kept})
  <2>1. P!Moved(charge, declared, moved)
          = [device |-> device, ram |-> charge.ram + (5 * moved) \div 4 + P!Quarter,
             vram |-> left]
    <3>1. P!Moved(charge, declared, moved)
            = [charge EXCEPT !.ram = charge.ram + (5 * moved) \div 4 + P!Quarter,
                             !.vram = left]
      BY <1>2 DEF P!Moved
    <3>2. charge = [device |-> device, ram |-> charge.ram, vram |-> charge.vram]
      BY DEF Covering
    <3> HIDE DEF left
    <3> QED
      BY ZenonT(30), <3>1, <3>2, Recharged
  <2>2. charge.ram \in Nat /\ charge.vram \in Nat /\ charge.ram > 0
        /\ charge.ram + charge.vram >= bytes
    BY DEF Covering
  <2>3. /\ kept \in Int /\ more \in Nat /\ kept + more >= charge.vram
        /\ charge.ram + (5 * moved) \div 4 + P!Quarter = charge.ram + more
    BY <2>2, Quarters
  <2>4. left \in Int /\ left >= 0 /\ left >= kept
    <3> HIDE DEF kept
    <3>1. 0 \in Int
      OBVIOUS
    <3> QED
      BY <2>3, <3>1, MaxOfThree
  <2> HIDE DEF left, kept, more
  <2>5. charge.ram + more \in Nat /\ charge.ram + more > 0 /\ left \in Nat
        /\ (charge.ram + more) + left >= bytes
    BY <2>2, <2>3, <2>4
  <2> QED
    BY <2>1, <2>3, <2>5 DEF Covering
<1> QED
  BY <1>1, <1>2

\* No placement makes a model cheaper than its estimate.
LEMMA OnAcceleratorCovers ==
  ASSUME NEW p \in P!PolicyType, NEW m \in P!Models, NEW device, NEW n \in Nat
  PROVE  Covering(P!OnAccelerator(Artifacts[m], p, device, n), device, n)
<1> DEFINE a == Artifacts[m]
<1> DEFINE own == P!Half + p.cache
<1> DEFINE wram == P!Max({p.ram, own})
<1> DEFINE pv == p.vram
<1> DEFINE wvram == P!Max({pv, n})
<1> DEFINE whole == [device |-> device, ram |-> wram, vram |-> wvram]
<1> DEFINE mp == IF p.projector_on_cpu THEN P!Bytes(a, "projector") ELSE 0
<1> DEFINE projected == P!Moved(whole, p.vram, mp)
<1> DEFINE md == IF p.draft_on_cpu /\ p.speculative # "none" THEN P!Bytes(a, "drafter") ELSE 0
<1> DEFINE drafted == P!Moved(projected, p.vram, md)
<1> DEFINE least == IF p.ram >= 0 THEN p.ram ELSE P!Half
<1> DEFINE there == (n * (a.blocks - p.layers)) \div a.blocks
<1> DEFINE here == (n * p.layers) \div a.blocks
<1> DEFINE sram == there + P!Half + p.cache
<1> DEFINE svram == here + P!Half
<1> DEFINE splits == p.layers \in 1..(a.blocks - 1) /\ \A f \in a.files : f.role = "model"
<1> DEFINE split == [device |-> device,
                     ram |-> P!Max({least, sram}), vram |-> P!Max({p.vram, 0, svram})]
<1>1. P!OnAccelerator(a, p, device, n) = IF ~splits THEN drafted ELSE split
  BY DEF P!OnAccelerator
<1>2. p.ram \in Int /\ p.vram \in Int /\ p.cache \in Nat /\ p.layers \in Int
  BY DEF P!PolicyType
<1>3. a.blocks \in Nat
  BY PlanningAssumption
<1>4. Covering(whole, device, n)
  <2>1. own \in Int /\ own > 0
    BY <1>2, Quarters
  <2>2. wram \in Int /\ wram >= own
    <3> HIDE DEF own
    <3> QED
      BY <1>2, <2>1, MaxOfTwo
  <2>3. wvram \in Int /\ wvram >= n
    <3>1. pv \in Int /\ n \in Int
      BY <1>2
    <3> HIDE DEF pv
    <3> QED
      BY <3>1, MaxOfTwo
  <2> HIDE DEF own, wram, wvram
  <2>4. wram \in Nat /\ wram > 0 /\ wvram \in Nat /\ wram + wvram >= n
    BY <2>1, <2>2, <2>3
  <2> QED
    BY <2>4 DEF Covering
<1>5. mp \in Nat /\ md \in Nat
  BY BytesAreNat DEF P!Bytes
<1>6. Covering(drafted, device, n)
  <2> HIDE DEF whole, mp, md
  <2>1. Covering(projected, device, n)
    BY <1>2, <1>4, <1>5, MovedCovers
  <2> HIDE DEF projected
  <2> QED
    BY <1>2, <1>5, <2>1, MovedCovers
<1>7. ASSUME splits
      PROVE  Covering(split, device, n)
  <2>1. there \in Nat /\ here \in Nat /\ there + here + 1 >= n
    <3> DEFINE l == p.layers
    <3> DEFINE b == a.blocks
    <3>1. l \in Nat /\ b \in Nat /\ 0 < l /\ l < b
      BY <1>2, <1>3, <1>7
    <3> HIDE DEF l, b
    <3>2. /\ (n * (b - l)) \div b \in Nat /\ (n * l) \div b \in Nat
          /\ (n * (b - l)) \div b + (n * l) \div b + 1 >= n
      BY <3>1, SplitCovers
    <3> QED
      BY <3>2 DEF l, b
  <2> HIDE DEF there, here
  <2>2. sram \in Int /\ sram > 0 /\ sram >= there + 2 /\ svram \in Int /\ svram >= here
    BY <1>2, <2>1, Quarters
  <2>3. least \in Int
    BY <1>2, Quarters
  <2> DEFINE ram == P!Max({least, sram})
  <2> DEFINE vram == P!Max({pv, 0, svram})
  <2> HIDE DEF least, sram, svram
  <2>4. ram \in Int /\ ram >= sram
    BY <2>2, <2>3, MaxOfTwo
  <2>5. vram \in Int /\ vram >= 0 /\ vram >= svram
    <3>1. 0 \in Int /\ pv \in Int
      BY <1>2
    <3> HIDE DEF pv
    <3> QED
      BY <2>2, <3>1, MaxOfThree
  <2>6. /\ split.ram = ram /\ split.vram = vram
        /\ split = [device |-> device, ram |-> split.ram, vram |-> split.vram]
    OBVIOUS
  <2> HIDE DEF ram, vram, split
  <2>7. ram \in Nat /\ ram > 0 /\ vram \in Nat /\ ram + vram >= n
    BY <2>1, <2>2, <2>4, <2>5
  <2> QED
    BY <2>6, <2>7 DEF Covering
<1> HIDE DEF drafted, split, splits
<1> QED
  BY <1>1, <1>6, <1>7

\* What every placement is: it covers the estimate, charges RAM, and charges an
\* accelerator only if it is on one.
LEMMA PlacementCovers ==
  ASSUME NEW p \in P!PolicyType, NEW allowed
  PROVE  /\ Covering(P!Placement(p, allowed), P!Placed(p, allowed), P!Estimate(Artifacts[p.id], p))
         /\ P!Placement(p, allowed).device = P!Placed(p, allowed)
         /\ P!Placement(p, allowed).vram > 0 => ~P!OnSystemMemory(P!Placed(p, allowed))
<1> DEFINE a == Artifacts[p.id]
<1> DEFINE n == P!Estimate(a, p)
<1> DEFINE d == P!Placed(p, allowed)
<1> DEFINE need == n + p.cache
<1> DEFINE most == P!Max({p.ram, need})
<1>1. p.id \in P!Models /\ p.ram \in Int /\ p.cache \in Nat
  BY DEF P!PolicyType
<1>2. n \in Nat /\ n > 0
  BY <1>1, EstimateCovers, CacheIsNat
<1>3. P!Placement(p, allowed) =
        IF P!OnSystemMemory(d) THEN [device |-> d, ram |-> most, vram |-> 0]
                               ELSE P!OnAccelerator(a, p, d, n)
  BY DEF P!Placement
<1>4. Covering(P!OnAccelerator(a, p, d, n), d, n)
  BY <1>1, <1>2, OnAcceleratorCovers
<1>5. most \in Nat /\ most > 0 /\ most >= n
  <2> HIDE DEF n
  <2>1. need \in Int /\ need >= n
    BY <1>1, <1>2
  <2> HIDE DEF need
  <2>2. most \in Int /\ most >= need
    BY <1>1, <2>1, MaxOfTwo
  <2> HIDE DEF most
  <2> QED
    BY <1>2, <2>1, <2>2
<1> HIDE DEF n, d, most
<1> QED
  BY <1>2, <1>3, <1>4, <1>5 DEF Covering, n, d

\* Numbers that are zero add up to zero.
LEMMA SumZero ==
  ASSUME NEW S, IsFiniteSet(S), NEW f, \A x \in S : f[x] = 0
  PROVE  Total(f, S) = 0
<1> SUFFICES ASSUME Total(f, S) # 0
             PROVE  FALSE
  OBVIOUS
<1> DEFINE Bad == {s \in SUBSET S : Total(f, s) # 0}
<1>1. Bad \subseteq SUBSET S /\ Bad # {}
  OBVIOUS
<1>2. PICK s \in Bad : \A t \in Bad : t \subseteq s => t = s
  <2> HIDE DEF Bad
  <2> QED
    BY <1>1, SmallestSubset
<1>3. s # {}
  BY SumNothing
<1>4. Total(f, s) = f[FirstOf(s)] + Total(f, s \ {FirstOf(s)})
  BY <1>3, FS_Subset, SumFirst
<1>5. FirstOf(s) \in s /\ f[FirstOf(s)] = 0
  BY <1>3, FirstIsMember
<1>6. Total(f, s \ {FirstOf(s)}) = 0
  BY <1>2, <1>5
<1> QED
  BY <1>4, <1>5, <1>6

-----------------------------------------------------------------------------
(* Planning: what models loaded together are charged                        *)

\* Each model's charge, as the functions that are summed.
RamAt(allowed) == [p \in P!PolicyType |-> P!Placement(p, allowed).ram]
VramAt(allowed) == [p \in P!PolicyType |-> P!Placement(p, allowed).vram]
BothAt(allowed) ==
  [p \in P!PolicyType |-> P!Placement(p, allowed).ram + P!Placement(p, allowed).vram]
On(S, d, allowed) == {p \in S : P!Placed(p, allowed) = d}

LEMMA ChargesAreNat ==
  ASSUME NEW allowed
  PROVE  \A p \in P!PolicyType : /\ RamAt(allowed)[p] \in Nat /\ RamAt(allowed)[p] > 0
                                 /\ VramAt(allowed)[p] \in Nat
                                 /\ BothAt(allowed)[p] \in Nat
BY PlacementCovers DEF RamAt, VramAt, BothAt, Covering

\* The sums of the checks are Total of these functions.
LEMMA TotalsOf ==
  ASSUME NEW S, IsFiniteSet(S), S \subseteq P!PolicyType, NEW allowed
  PROVE  /\ P!RamOf(S, allowed) = Total(RamAt(allowed), S)
         /\ P!CombinedOf(S, allowed) = Total(BothAt(allowed), S)
         /\ \A d : P!VramOf(S, d, allowed) = Total(VramAt(allowed), On(S, d, allowed))
<1>1. P!RamOf(S, allowed) = Total(RamAt(allowed), S)
  <2> DEFINE f == [p \in S |-> P!Placement(p, allowed).ram]
  <2>1. P!RamOf(S, allowed) = Total(f, S)
    BY SumIsTotal DEF P!RamOf
  <2>2. \A p \in S : f[p] = RamAt(allowed)[p]
    BY DEF RamAt
  <2> HIDE DEF f
  <2> QED
    BY <2>1, <2>2, SumSame
<1>2. P!CombinedOf(S, allowed) = Total(BothAt(allowed), S)
  <2> DEFINE f == [p \in S |-> P!Placement(p, allowed).ram + P!Placement(p, allowed).vram]
  <2>1. P!CombinedOf(S, allowed) = Total(f, S)
    BY SumIsTotal DEF P!CombinedOf
  <2>2. \A p \in S : f[p] = BothAt(allowed)[p]
    BY DEF BothAt
  <2> HIDE DEF f
  <2> QED
    BY <2>1, <2>2, SumSame
<1>3. ASSUME NEW d
      PROVE  P!VramOf(S, d, allowed) = Total(VramAt(allowed), On(S, d, allowed))
  <2> DEFINE U == On(S, d, allowed)
  <2> DEFINE f == [p \in S |-> P!Placement(p, allowed).vram]
  <2>0. U \subseteq S
    BY DEF On
  <2>1. P!VramOf(S, d, allowed) = Total(f, U)
    BY SumIsTotal DEF P!VramOf, On
  <2>2. \A p \in U : f[p] = VramAt(allowed)[p]
    BY <2>0 DEF VramAt
  <2>3. IsFiniteSet(U)
    BY <2>0, FS_Subset
  <2> HIDE DEF f, U
  <2>4. Total(f, U) = Total(VramAt(allowed), U)
    BY <2>2, <2>3, SumSame
  <2> QED
    BY <2>1, <2>3, <2>4 DEF U
<1> QED
  BY <1>1, <1>2, <1>3

LEMMA SumsAreNat ==
  ASSUME NEW S, IsFiniteSet(S), S \subseteq P!PolicyType, NEW allowed
  PROVE  /\ P!RamOf(S, allowed) \in Nat
         /\ P!CombinedOf(S, allowed) \in Nat
         /\ \A d : P!VramOf(S, d, allowed) \in Nat
<1>1. \A d : On(S, d, allowed) \subseteq S /\ IsFiniteSet(On(S, d, allowed))
  BY FS_Subset DEF On
<1>2. Total(RamAt(allowed), S) \in Nat
  BY SumNat, ChargesAreNat
<1>3. Total(BothAt(allowed), S) \in Nat
  BY SumNat, ChargesAreNat
<1>4. ASSUME NEW d
      PROVE  Total(VramAt(allowed), On(S, d, allowed)) \in Nat
  BY <1>1, SumNat, ChargesAreNat
<1> QED
  BY <1>2, <1>3, <1>4, TotalsOf

\* Models cost RAM, wherever they are placed.
LEMMA SomethingIsCharged ==
  ASSUME NEW S, IsFiniteSet(S), S \subseteq P!PolicyType, NEW allowed, S # {}
  PROVE  P!RamOf(S, allowed) > 0
<1>1. PICK p \in S : TRUE
  OBVIOUS
<1> DEFINE f == RamAt(allowed)
<1>2. \A q \in S : f[q] \in Nat /\ f[q] > 0
  BY ChargesAreNat
<1> HIDE DEF f
<1>3. Total(f, S) = f[p] + Total(f, S \ {p})
  BY <1>2, SumRemove
<1>4. Total(f, S \ {p}) \in Nat
  BY <1>2, FS_Subset, SumNat
<1> QED
  BY <1>2, <1>3, <1>4, TotalsOf DEF f

\* A model beside some others of S takes no more than all of S do.
LEMMA ChargedBeside ==
  ASSUME NEW S, IsFiniteSet(S), S \subseteq P!PolicyType, NEW allowed,
         NEW U, U \subseteq S, NEW p \in S \ U
  PROVE  /\ P!RamOf(U, allowed) + P!Placement(p, allowed).ram <= P!RamOf(S, allowed)
         /\ P!CombinedOf(U \cup {p}, allowed) <= P!CombinedOf(S, allowed)
         /\ LET d == P!Placement(p, allowed).device
            IN  P!VramOf(U, d, allowed) + P!Placement(p, allowed).vram <= P!VramOf(S, d, allowed)
<1> DEFINE Y == U \cup {p}
<1>1. /\ Y \subseteq S /\ Y \ {p} = U /\ p \in Y
      /\ IsFiniteSet(Y) /\ IsFiniteSet(U)
      /\ p \in P!PolicyType /\ Y \subseteq P!PolicyType /\ U \subseteq P!PolicyType
  BY FS_Subset
<1>2. P!RamOf(U, allowed) + P!Placement(p, allowed).ram <= P!RamOf(S, allowed)
  <2> DEFINE f == RamAt(allowed)
  <2>1. \A q \in S : f[q] \in Nat
    BY ChargesAreNat
  <2>2. f[p] = P!Placement(p, allowed).ram
    BY <1>1 DEF RamAt
  <2>3. P!RamOf(U, allowed) = Total(f, U) /\ P!RamOf(S, allowed) = Total(f, S)
    BY <1>1, TotalsOf
  <2> HIDE DEF f, Y
  <2>4. Total(f, Y) = f[p] + Total(f, U)
    BY <1>1, <2>1, SumRemove
  <2>5. Total(f, Y) <= Total(f, S)
    BY <1>1, <2>1, SumMore
  <2>6. Total(f, U) \in Nat /\ Total(f, S) \in Nat /\ f[p] \in Nat
    BY <1>1, <2>1, SumNat
  <2> QED
    BY <2>2, <2>3, <2>4, <2>5, <2>6
<1>3. P!CombinedOf(Y, allowed) <= P!CombinedOf(S, allowed)
  <2> DEFINE f == BothAt(allowed)
  <2>1. \A q \in S : f[q] \in Nat
    BY ChargesAreNat
  <2>2. P!CombinedOf(Y, allowed) = Total(f, Y) /\ P!CombinedOf(S, allowed) = Total(f, S)
    BY <1>1, TotalsOf
  <2> HIDE DEF f, Y
  <2> QED
    BY <1>1, <2>1, <2>2, SumMore
<1>4. ASSUME NEW d, d = P!Placement(p, allowed).device
      PROVE  P!VramOf(U, d, allowed) + P!Placement(p, allowed).vram <= P!VramOf(S, d, allowed)
  <2> DEFINE f == VramAt(allowed)
  <2> DEFINE dS == On(S, d, allowed)
  <2> DEFINE dU == On(U, d, allowed)
  <2> DEFINE dY == On(Y, d, allowed)
  <2>1. \A q \in S : f[q] \in Nat
    BY ChargesAreNat
  <2>2. f[p] = P!Placement(p, allowed).vram
    BY <1>1 DEF VramAt
  <2>3. P!VramOf(U, d, allowed) = Total(f, dU) /\ P!VramOf(S, d, allowed) = Total(f, dS)
    BY <1>1, TotalsOf
  <2>4. dS \subseteq S /\ dY \subseteq dS /\ dU = dY \ {p} /\ p \in dY
    <3>1. P!Placed(p, allowed) = d
      BY <1>1, <1>4, PlacementCovers
    <3> QED
      BY <1>1, <3>1 DEF On
  <2>5. IsFiniteSet(dS) /\ IsFiniteSet(dY) /\ IsFiniteSet(dU)
    BY <2>4, FS_Subset
  <2> HIDE DEF f, dS, dU, dY
  <2>6. Total(f, dY) = f[p] + Total(f, dU)
    BY <2>1, <2>4, <2>5, SumRemove
  <2>7. Total(f, dY) <= Total(f, dS)
    BY <2>1, <2>4, <2>5, SumMore
  <2>8. Total(f, dU) \in Nat /\ Total(f, dS) \in Nat /\ f[p] \in Nat
    BY <2>1, <2>4, <2>5, SumNat
  <2> QED
    BY <2>2, <2>3, <2>6, <2>7, <2>8
<1> QED
  BY <1>2, <1>3, <1>4

\* What an accelerator is charged, some model placed on it is.
LEMMA ChargedForSome ==
  ASSUME NEW S, IsFiniteSet(S), S \subseteq P!PolicyType, NEW allowed, NEW d,
         P!VramOf(S, d, allowed) > 0
  PROVE  \E p \in S : P!Placed(p, allowed) = d /\ ~P!OnSystemMemory(d)
<1> SUFFICES ASSUME \A p \in S : P!Placed(p, allowed) = d => P!OnSystemMemory(d)
             PROVE  FALSE
  OBVIOUS
<1> DEFINE f == VramAt(allowed)
<1> DEFINE dS == On(S, d, allowed)
<1>1. dS \subseteq S /\ IsFiniteSet(dS) /\ \A p \in dS : P!Placed(p, allowed) = d
  BY FS_Subset DEF On
<1>2. \A p \in dS : f[p] = 0
  <2> TAKE p \in dS
  <2>1. p \in P!PolicyType /\ P!Placed(p, allowed) = d
    BY <1>1, PlacementCovers
  <2>2. ~ (f[p] > 0)
    BY <1>1, <2>1, PlacementCovers DEF VramAt
  <2> QED
    BY <2>1, <2>2, ChargesAreNat
<1>3. P!VramOf(S, d, allowed) = Total(f, dS)
  BY TotalsOf
<1> HIDE DEF f, dS
<1> QED
  BY <1>1, <1>2, <1>3, SumZero

-----------------------------------------------------------------------------
(* Planning: what setup accepts                                             *)

\* A residency strategy changes when models are loaded, not what they are.
LEMMA ResidedTyped ==
  ASSUME NEW w \in P!WorkloadType, NEW p \in P!PolicyType
  PROVE  P!Resided(p, w) \in P!PolicyType /\ P!Resided(p, w).id = p.id
<1>0. w.strategy \in {"none", "balanced", "all", "sequential"}
  BY DEF P!WorkloadType
<1> DEFINE all == [p EXCEPT !.residency = "pinned", !.startup = TRUE]
<1> DEFINE warm == [p EXCEPT !.residency = "warm"]
<1> DEFINE seq == [p EXCEPT !.residency = IF p.startup THEN "warm" ELSE "on_demand"]
<1>1. all \in P!PolicyType /\ all.id = p.id
  BY DEF P!PolicyType
<1>2. warm \in P!PolicyType /\ warm.id = p.id
  BY DEF P!PolicyType
<1>3. seq \in P!PolicyType /\ seq.id = p.id
  BY DEF P!PolicyType
<1>4. P!Resided(p, w) \in {p, all, warm, seq}
  <2>1. CASE w.strategy = "none"
    BY <2>1, Zenon DEF P!Resided
  <2>2. CASE w.strategy = "all"
    BY <2>2, Zenon DEF P!Resided
  <2>3. CASE w.strategy = "sequential"
    BY <2>3, Zenon DEF P!Resided
  <2>4. CASE w.strategy = "balanced"
    BY <2>4, Zenon DEF P!Resided
  <2> QED
    BY <1>0, <2>1, <2>2, <2>3, <2>4
<1> HIDE DEF all, warm, seq
<1> QED
  BY <1>1, <1>2, <1>3, <1>4

\* A workload with its policies, each for a model of its own.
WellPlanned(w) ==
  /\ w.models \subseteq P!PolicyType /\ IsFiniteSet(w.models)
  /\ \A p, q \in w.models : p.id = q.id => p = q
  /\ w.reserve \in Nat /\ w.memory_limit \in Nat

LEMMA AppliedTyped ==
  ASSUME NEW w \in Workloads
  PROVE  WellPlanned(P!Applied(w))
<1> DEFINE x == P!Applied(w)
<1> DEFINE treated == [p \in w.models |-> P!Resided(p, w)]
<1>1. /\ w \in P!WorkloadType /\ IsFiniteSet(w.models)
      /\ \A p, q \in w.models : p.id = q.id => p = q
  BY PlanningAssumption
<1>2. w.models \subseteq P!PolicyType /\ w.reserve \in Nat /\ w.memory_limit \in Nat
  BY <1>1 DEF P!WorkloadType
<1>3. /\ x.models = {P!Resided(p, w) : p \in w.models}
      /\ x.reserve = w.reserve /\ x.memory_limit = w.memory_limit
  BY <1>1 DEF P!Applied, P!WorkloadType
<1> HIDE DEF x
<1>4. \A p \in w.models : P!Resided(p, w) \in P!PolicyType /\ P!Resided(p, w).id = p.id
  BY <1>1, <1>2, ResidedTyped
<1>5. treated \in Surjection(w.models, x.models)
  BY <1>3 DEF Surjection
<1>6. IsFiniteSet(x.models)
  BY <1>1, <1>5, FS_Surjection
<1> QED
  BY <1>1, <1>2, <1>3, <1>4, <1>6 DEF WellPlanned, x

LEMMA AskedTyped ==
  ASSUME asked \in P!Asked
  PROVE  /\ WellPlanned(asked.workload)
         /\ asked.policy \in MachinePolicies /\ asked.budget \in Budgets
         /\ asked.single \in BOOLEAN
BY AppliedTyped DEF P!Asked

\* The machine as it was asked for, and what is allotted of it.
Asking == P!Machine(asked.policy)
Allotted == P!Allocation(asked.workload, asked.budget, Asking)

\* What is allotted is no more than the machine has.
LEMMA AllottedIsThere ==
  ASSUME asked \in P!Asked, ~P!PolicyRefused(asked.policy)
  PROVE  Allotted.ram \in Int /\ Allotted.ram <= Asking.ram /\ Asking.ram \in Int
<1>1. asked.policy.ram \in Int /\ Ram \in Nat /\ asked.budget.ram \in Int
  BY AskedTyped, PlanningAssumption
<1>2. Asking.ram = IF asked.policy.ram = P!NoAmount THEN Ram ELSE asked.policy.ram
  BY DEF Asking, P!Machine
<1>3. Allotted.ram = P!Least(asked.budget.ram, Asking.ram)
  BY DEF Allotted, P!Allocation
<1> DEFINE a == asked.budget.ram
<1> DEFINE b == Asking.ram
<1>4. a \in Int /\ b \in Int
  BY <1>1, <1>2
<1> HIDE DEF a, b
<1>5. P!Least(a, b) \in {a, b} /\ P!Least(a, b) <= b
  BY <1>4, LeastOfTwo
<1> QED
  BY <1>3, <1>4, <1>5 DEF a, b

\* The memory of accelerators that is allotted is a number: of the accelerators
\* that the budget or the machine names there is a largest.
LEMMA LargestIsThere ==
  ASSUME NEW S, IsFiniteSet(S), \A x \in S : x \in Int, S # {}
  PROVE  P!Max(S) \in Int
<1> SUFFICES ASSUME ~ \E x \in S : \A y \in S : x >= y
             PROVE  FALSE
  BY DEF P!Max
<1> DEFINE Topless(s) == s # {} /\ ~ \E x \in s : \A y \in s : x >= y
<1> DEFINE Bad == {s \in SUBSET S : Topless(s)}
<1>0. \A F : F \subseteq SUBSET S /\ F # {} =>
            \E s \in F : \A t \in F : t \subseteq s => t = s
  BY SmallestSubset
<1>1. Bad \subseteq SUBSET S /\ Bad # {}
  <2>1. Topless(S)
    OBVIOUS
  <2> HIDE DEF Topless
  <2> QED
    BY <2>1
<1>2. PICK s \in Bad : \A t \in Bad : t \subseteq s => t = s
  <2> HIDE DEF Bad, Topless
  <2> QED
    BY <1>0, <1>1
<1>3. PICK c \in s : TRUE
  OBVIOUS
<1>4. CASE s = {c}
  BY <1>4
<1>5. CASE s # {c}
  <2> DEFINE u == s \ {c}
  <2>1. u # {} /\ u \in SUBSET S /\ u \subseteq s /\ u # s
    BY <1>3, <1>5
  <2>6. u \notin Bad
    BY <1>2, <2>1
  <2>2. PICK x \in u : \A y \in u : x >= y
    BY <2>1, <2>6
  <2>3. x \in Int /\ c \in Int /\ \A y \in u : y \in Int
    OBVIOUS
  <2>4. CASE x >= c
    BY <2>2, <2>4
  <2>5. CASE c >= x
    BY <2>2, <2>3, <2>5
  <2> QED
    BY <2>3, <2>4, <2>5
<1> QED
  BY <1>4, <1>5

\* The images of the members of a finite set are finitely many.
LEMMA ImageIsFinite ==
  ASSUME NEW S, IsFiniteSet(S), NEW f, DOMAIN f = S
  PROVE  IsFiniteSet({f[x] : x \in S})
<1> DEFINE g == [x \in S |-> f[x]]
<1>1. g \in Surjection(S, {f[x] : x \in S})
  BY DEF Surjection
<1> QED
  BY <1>1, FS_Surjection

\* An accelerator's share of the machine is a part of its memory.
LEMMA SharesAreNat ==
  ASSUME asked \in P!Asked, NEW d \in DOMAIN Asking.dedicated
  PROVE  d \in P!Devices /\ Asking.dedicated[d] \in Nat
<1> DEFINE policy == asked.policy
<1>1. /\ d \in P!Dedicated
      /\ Asking.dedicated[d] = IF d \in DOMAIN policy.dedicated THEN policy.dedicated[d]
                                ELSE Accelerators[d].memory
  BY DEF Asking, P!Machine
<1>2. d \in P!Devices
  BY <1>1 DEF P!Dedicated
<1>3. Accelerators[d].memory \in Nat
  BY <1>2, PlanningAssumption
<1>4. d \in DOMAIN policy.dedicated => policy.dedicated[d] \in Nat
  BY AskedTyped, PlanningAssumption
<1> QED
  BY <1>1, <1>2, <1>3, <1>4

LEMMA AllottedVram ==
  ASSUME asked \in P!Asked, NEW d \in DOMAIN Asking.dedicated
  PROVE  Allotted.vram \in Int
<1> DEFINE b == asked.budget
<1> DEFINE w == asked.workload
<1> DEFINE accelerated == \E p \in w.models : ~P!OnSystemMemory(P!Placed(p, Asking.allowed))
<1> DEFINE vram == IF accelerated /\ b.vram = P!NoAmount THEN P!Detected ELSE P!Max({b.vram, 0})
<1> DEFINE shares == {Asking.dedicated[e] : e \in DOMAIN Asking.dedicated}
<1>1. Allotted.vram = IF Asking.dedicated = <<>> \/ vram = 0 THEN vram
                      ELSE P!Least(vram, P!Max(shares))
  BY DEF Allotted, P!Allocation
<1>2. b.vram \in Int
  BY AskedTyped, PlanningAssumption
<1>3. P!Detected \in Int
  <2> DEFINE mem == [e \in P!Dedicated |-> Accelerators[e].memory]
  <2> DEFINE amounts == {mem[e] : e \in P!Dedicated}
  <2>1. IsFiniteSet(P!Dedicated) /\ P!Dedicated \subseteq P!Devices
    BY PlanningAssumption, FS_Subset DEF P!Dedicated
  <2>2. IsFiniteSet(amounts)
    BY <2>1, ImageIsFinite
  <2>3. amounts \subseteq Int
    BY <2>1, PlanningAssumption
  <2>4. P!Detected = P!Max(amounts \cup {0})
    BY DEF P!Detected, P!Largest
  <2> HIDE DEF amounts
  <2>5. IsFiniteSet(amounts \cup {0}) /\ amounts \cup {0} \subseteq Int /\ amounts \cup {0} # {}
    BY <2>2, <2>3, FS_AddElement
  <2> QED
    BY <2>4, <2>5, LargestIsThere
<1>4. vram \in Int
  <2> DEFINE given == b.vram
  <2>1. given \in Int /\ 0 \in Int
    BY <1>2
  <2> HIDE DEF given
  <2>2. P!Max({given, 0}) \in {given, 0}
    BY <2>1, MaxOfTwo
  <2>3. P!Max({given, 0}) \in Int
    BY <2>1, <2>2
  <2> HIDE DEF accelerated
  <2> QED
    BY <1>3, <2>3 DEF given
<1>5. P!Max(shares) \in Int
  <2>1. DOMAIN Asking.dedicated \subseteq P!Devices
    BY SharesAreNat
  <2>2. IsFiniteSet(DOMAIN Asking.dedicated)
    BY <2>1, PlanningAssumption, FS_Subset
  <2>3. IsFiniteSet(shares)
    BY <2>2, ImageIsFinite
  <2>4. shares \subseteq Int /\ shares # {}
    BY SharesAreNat
  <2> HIDE DEF shares
  <2> QED
    BY <2>3, <2>4, LargestIsThere
<1> HIDE DEF vram, shares
<1>6. P!Least(vram, P!Max(shares)) \in {vram, P!Max(shares)}
  <2> DEFINE most == P!Max(shares)
  <2>1. most \in Int
    BY <1>5
  <2> HIDE DEF most
  <2>2. P!Least(vram, most) \in {vram, most}
    BY <1>4, <2>1, LeastOfTwo
  <2> QED
    BY <2>2 DEF most
<1> QED
  BY <1>1, <1>4, <1>5, <1>6

\* The limits that the server keeps are the ones setup resolved, and with them
\* the pinned models fit together, and each other model beside them.
Resolved ==
  /\ ~P!Refused
  /\ limits.ram = Allotted.ram /\ limits.vram = Allotted.vram
  /\ limits.allowed = Asking.allowed /\ limits.dedicated = Asking.dedicated

FitTogether(S) == P!FootprintFits(S, asked.workload, limits, limits)

\* The checks of the footprint, of what was resolved.
LEMMA ResolvedFits ==
  ASSUME Resolved
  PROVE  /\ FitTogether(P!Pinned(asked.workload))
         /\ ~asked.budget.partial =>
              \A p \in asked.workload.models \ P!Pinned(asked.workload) :
                FitTogether(P!Pinned(asked.workload) \cup {p})
<1>1. /\ P!FootprintFits(P!Pinned(asked.workload), asked.workload, Allotted, Asking)
      /\ ~asked.budget.partial =>
           \A p \in asked.workload.models \ P!Pinned(asked.workload) :
             P!FootprintFits(P!Pinned(asked.workload) \cup {p}, asked.workload, Allotted, Asking)
  BY DEF Resolved, P!Refused, P!FootprintRefused, Allotted, Asking
<1>2. \A S : P!FootprintFits(S, asked.workload, Allotted, Asking) => FitTogether(S)
  BY DEF Resolved, FitTogether, P!FootprintFits
<1> QED
  BY <1>1, <1>2

LEMMA VramIsUsable ==
  ASSUME asked \in P!Asked, Resolved, NEW d \in DOMAIN Asking.dedicated
  PROVE  P!Usable(limits.vram, asked.workload) \in Int
<1> DEFINE left == limits.vram - asked.workload.reserve
<1>1. left \in Int /\ 0 \in Int
  BY AskedTyped, AllottedVram DEF WellPlanned, Resolved
<1>2. P!Usable(limits.vram, asked.workload) = P!Max({0, left})
  BY DEF P!Usable
<1> HIDE DEF left
<1> QED
  BY <1>1, <1>2, MaxOfTwo

\* What fits leaves the machine the workload's reserve.
LEMMA FittingIsServed ==
  ASSUME asked \in P!Asked, Resolved,
         NEW S, S \subseteq asked.workload.models, S # {}, FitTogether(S)
  PROVE  /\ P!RamOf(S, limits.allowed) + asked.workload.reserve <= Asking.ram
         /\ \A d \in P!Devices : P!VramOf(S, d, limits.allowed) > 0 =>
              P!VramOf(S, d, limits.allowed) <= Asking.dedicated[d]
         /\ asked.workload.memory_limit > 0 =>
              P!CombinedOf(S, limits.allowed) <= asked.workload.memory_limit
<1> DEFINE w == asked.workload
<1> DEFINE ram == P!RamOf(S, limits.allowed)
<1>1. /\ IsFiniteSet(S) /\ S \subseteq P!PolicyType
      /\ w.reserve \in Nat /\ w.memory_limit \in Nat
  BY AskedTyped, FS_Subset DEF WellPlanned
<1>2. ram \in Nat /\ ram > 0
  BY <1>1, SumsAreNat, SomethingIsCharged
<1>3. ram + w.reserve <= Asking.ram
  <2>1. ~P!PolicyRefused(asked.policy)
    BY DEF Resolved, P!Refused
  <2>2. limits.ram \in Int /\ limits.ram <= Asking.ram /\ Asking.ram \in Int
    BY <2>1, AllottedIsThere DEF Resolved
  <2> DEFINE left == limits.ram - w.reserve
  <2> DEFINE usable == P!Max({0, left})
  <2>3. ram <= usable
    BY DEF FitTogether, P!FootprintFits, P!Usable
  <2>4. left \in Int /\ 0 \in Int
    BY <1>1, <2>2
  <2>5. usable \in {0, left}
    <3> HIDE DEF left
    <3> QED
      BY <2>4, MaxOfTwo
  <2> HIDE DEF usable, ram
  <2>6. ram <= left
    BY <1>2, <2>3, <2>5
  <2> QED
    BY <1>1, <1>2, <2>2, <2>6
<1>4. ASSUME NEW d \in P!Devices, P!VramOf(S, d, limits.allowed) > 0
      PROVE  P!VramOf(S, d, limits.allowed) <= Asking.dedicated[d]
  <2> DEFINE vram == P!VramOf(S, d, limits.allowed)
  <2>1. vram \in Nat
    BY <1>1, SumsAreNat
  <2>2. P!FitsDevice(0, d, vram, P!Usable(limits.vram, w), limits.dedicated)
    BY <1>4 DEF FitTogether, P!FootprintFits
  <2>3. PICK p \in S : P!Placed(p, limits.allowed) = d /\ ~P!OnSystemMemory(d)
    BY <1>1, <1>4, ChargedForSome
  <2>4. p \in w.models /\ ~P!DevicesRefused(w, Asking)
    BY DEF Resolved, P!Refused, Asking
  <2>5. d \in DOMAIN limits.dedicated
    BY <2>3, <2>4 DEF Resolved, P!DevicesRefused
  <2>6. vram <= P!Least(P!Usable(limits.vram, w), limits.dedicated[d])
    <3>1. limits.dedicated # <<>>
      BY <2>5
    <3> HIDE DEF vram
    <3> QED
      BY <1>4, <2>1, <2>2, <3>1 DEF P!FitsDevice, vram
  <2>7. d \in DOMAIN Asking.dedicated /\ limits.dedicated[d] = Asking.dedicated[d]
    BY <2>5 DEF Resolved
  <2>8. P!Usable(limits.vram, w) \in Int /\ limits.dedicated[d] \in Int
    BY <2>7, SharesAreNat, VramIsUsable
  <2> DEFINE most == P!Usable(limits.vram, w)
  <2> DEFINE own == limits.dedicated[d]
  <2>9. most \in Int /\ own \in Int
    BY <2>8
  <2>10. vram <= P!Least(most, own)
    BY <2>6
  <2> HIDE DEF most, own, vram
  <2>11. P!Least(most, own) <= own /\ P!Least(most, own) \in {most, own}
    BY <2>9, LeastOfTwo
  <2>12. vram <= own
    BY <2>1, <2>9, <2>10, <2>11
  <2> QED
    BY <2>7, <2>12 DEF own, vram
<1>5. ASSUME w.memory_limit > 0
      PROVE  P!CombinedOf(S, limits.allowed) <= w.memory_limit
  <2>1. P!CombinedOf(S, limits.allowed) <= w.memory_limit - w.reserve
    BY <1>5 DEF FitTogether, P!FootprintFits
  <2>2. P!CombinedOf(S, limits.allowed) \in Nat
    BY <1>1, SumsAreNat
  <2> QED
    BY <1>1, <2>1, <2>2
<1> QED
  BY <1>3, <1>4, <1>5

-----------------------------------------------------------------------------
(* Planning: what the server loads                                          *)

\* While only pinned models are loaded, each other pinned one fits beside them.
LEMMA PinnedFitBeside ==
  ASSUME asked \in P!Asked, Resolved,
         NEW U, U \subseteq P!Pinned(asked.workload), NEW p \in P!Pinned(asked.workload) \ U
  PROVE  /\ P!FitsBeside(U, p, asked.workload, limits, limits)
         /\ asked.workload.memory_limit > 0 =>
              P!CombinedOf(U \cup {p}, limits.allowed)
                <= asked.workload.memory_limit - asked.workload.reserve
<1> DEFINE w == asked.workload
<1> DEFINE S == P!Pinned(w)
<1> DEFINE place == P!Placement(p, limits.allowed)
<1> DEFINE d == place.device
<1>1. /\ IsFiniteSet(S) /\ S \subseteq P!PolicyType /\ S \subseteq w.models
      /\ w.reserve \in Nat /\ w.memory_limit \in Nat
  BY AskedTyped, FS_Subset DEF WellPlanned, P!Pinned
<1>2. IsFiniteSet(U) /\ U \subseteq P!PolicyType /\ p \in P!PolicyType
  BY <1>1, FS_Subset
<1>3. FitTogether(S)
  BY ResolvedFits
<1>4. /\ P!RamOf(U, limits.allowed) + place.ram <= P!RamOf(S, limits.allowed)
      /\ P!CombinedOf(U \cup {p}, limits.allowed) <= P!CombinedOf(S, limits.allowed)
      /\ P!VramOf(U, d, limits.allowed) + place.vram <= P!VramOf(S, d, limits.allowed)
  <2> HIDE DEF S
  <2> QED
    BY <1>1, ChargedBeside DEF S
<1>5. /\ P!RamOf(U, limits.allowed) \in Nat /\ P!RamOf(S, limits.allowed) \in Nat
      /\ P!CombinedOf(S, limits.allowed) \in Nat
      /\ P!VramOf(U, d, limits.allowed) \in Nat /\ P!VramOf(S, d, limits.allowed) \in Nat
  BY <1>1, <1>2, SumsAreNat
<1>6. place.ram \in Nat /\ place.vram \in Nat
  BY <1>2, PlacementCovers DEF Covering
<1>7. P!CombinedOf(U \cup {p}, limits.allowed) \in Nat
  <2>1. IsFiniteSet(U \cup {p}) /\ U \cup {p} \subseteq P!PolicyType
    BY <1>2, FS_AddElement
  <2> QED
    BY <2>1, SumsAreNat
<1>8. P!RamOf(U, limits.allowed) + place.ram <= P!Usable(limits.ram, w)
  <2> DEFINE usable == P!Usable(limits.ram, w)
  <2>1. usable \in Int
    <3> DEFINE left == limits.ram - w.reserve
    <3>1. left \in Int /\ 0 \in Int
      BY <1>1, AllottedIsThere DEF Resolved, P!Refused
    <3>2. usable = P!Max({0, left})
      BY DEF P!Usable
    <3> HIDE DEF left, usable
    <3> QED
      BY <3>1, <3>2, MaxOfTwo
  <2>2. P!RamOf(S, limits.allowed) <= usable
    BY <1>3 DEF FitTogether, P!FootprintFits
  <2> HIDE DEF usable, S, place
  <2> QED
    BY <1>4, <1>5, <1>6, <2>1, <2>2 DEF usable
<1>9. P!FitsDevice(IF place.vram = 0 THEN 0 ELSE P!VramOf(U, d, limits.allowed),
                   d, place.vram, P!Usable(limits.vram, w), limits.dedicated)
  <2>1. CASE place.vram = 0
    BY <2>1 DEF P!FitsDevice
  <2>2. CASE place.vram # 0
    <3>1. d = P!Placed(p, limits.allowed) /\ ~P!OnSystemMemory(d)
      BY <1>2, <1>6, <2>2, PlacementCovers
    <3>2. p \in w.models /\ ~P!DevicesRefused(w, Asking)
      BY <1>1 DEF Resolved, P!Refused, Asking
    <3>3. d \in DOMAIN limits.dedicated
      BY <3>1, <3>2 DEF Resolved, P!DevicesRefused
    <3>4. d \in DOMAIN Asking.dedicated /\ limits.dedicated[d] = Asking.dedicated[d]
      BY <3>3 DEF Resolved
    <3>5. d \in P!Devices /\ limits.dedicated[d] \in Int /\ limits.dedicated # <<>>
      BY <3>3, <3>4, SharesAreNat
    <3> DEFINE usable == P!Usable(limits.vram, w)
    <3> DEFINE own == limits.dedicated[d]
    <3> DEFINE most == P!Least(usable, own)
    <3>6. usable \in Int /\ own \in Int
      BY <3>4, <3>5, VramIsUsable
    <3>7. P!VramOf(S, d, limits.allowed) > 0
      <4> HIDE DEF S, place
      <4> QED
        BY <1>4, <1>5, <1>6, <2>2
    <3>8. P!FitsDevice(0, d, P!VramOf(S, d, limits.allowed), usable, limits.dedicated)
      BY <1>3, <3>5 DEF FitTogether, P!FootprintFits
    <3>9. P!VramOf(S, d, limits.allowed) <= most
      <4> DEFINE vram == P!VramOf(S, d, limits.allowed)
      <4> HIDE DEF S, vram, usable
      <4> QED
        BY <1>5, <3>5, <3>7, <3>8 DEF P!FitsDevice, vram
    <3>10. most \in Int
      <4> HIDE DEF usable, own
      <4> QED
        BY <3>6, LeastOfTwo
    <3>11. P!VramOf(U, d, limits.allowed) + place.vram <= most
      <4> HIDE DEF S, place, most
      <4> QED
        BY <1>4, <1>5, <1>6, <3>9, <3>10
    <3> QED
      BY <2>2, <3>3, <3>5, <3>11 DEF P!FitsDevice
  <2> QED
    BY <2>1, <2>2
<1>10. w.memory_limit > 0 => P!CombinedOf(U \cup {p}, limits.allowed) <= w.memory_limit - w.reserve
  <2> HAVE w.memory_limit > 0
  <2>1. P!CombinedOf(S, limits.allowed) <= w.memory_limit - w.reserve
    BY <1>3 DEF FitTogether, P!FootprintFits
  <2> HIDE DEF S
  <2> QED
    BY <1>1, <1>4, <1>5, <1>7, <2>1
<1> QED
  BY <1>8, <1>9, <1>10 DEF P!FitsBeside

\* A pinned model that startup passed over has been outranked, or will have been.
Outranked ==
  ~asked.single =>
    \A p \in P!Pinned(asked.workload) :
      /\ p.startup /\ p \notin P!ToSet(resident)
      /\ planning = "serving" \/ \E q \in P!ToSet(resident) : q.residency # "pinned"
      => \E q \in P!ToSet(resident) : q.residency # "pinned" /\ P!Before(q, p)

\* The inductive invariant of planning.
PlanKept ==
  /\ planning \in {"setup", "refused", "resolved", "installed", "serving"}
  /\ asked \in P!Asked
  /\ planning \in {"resolved", "installed", "serving"} => Resolved
  /\ planning \in {"setup", "refused", "resolved"} => resident = <<>>
  /\ resident \in Seq(asked.workload.models) /\ P!IsInjective(resident)
  /\ Outranked

\* One more model is loaded, once.
LEMMA LoadedOneMore ==
  ASSUME NEW S, NEW q \in Seq(S), NEW x \in S
  PROVE  /\ Append(q, x) \in Seq(S)
         /\ P!ToSet(Append(q, x)) = P!ToSet(q) \cup {x}
         /\ P!IsInjective(q) /\ x \notin P!ToSet(q) => P!IsInjective(Append(q, x))
<1> DEFINE r == Append(q, x)
<1>1. /\ r \in Seq(S) /\ Len(q) \in Nat
      /\ DOMAIN q = 1 .. Len(q) /\ DOMAIN r = 1 .. Len(q) + 1
      /\ r[Len(q) + 1] = x /\ \A i \in 1 .. Len(q) : r[i] = q[i]
  OBVIOUS
<1> HIDE DEF r
<1>2. P!ToSet(r) = P!ToSet(q) \cup {x}
  <2>1. \A i \in DOMAIN r : i \in DOMAIN q \/ i = Len(q) + 1
    BY <1>1
  <2>2. DOMAIN q \subseteq DOMAIN r /\ Len(q) + 1 \in DOMAIN r
    BY <1>1
  <2> QED
    BY <1>1, <2>1, <2>2 DEF P!ToSet
<1>3. ASSUME P!IsInjective(q), x \notin P!ToSet(q)
      PROVE  P!IsInjective(r)
  <2>1. \A i, j \in DOMAIN q : q[i] = q[j] => i = j
    BY <1>3 DEF P!IsInjective
  <2>2. \A i \in DOMAIN q : q[i] # x
    BY <1>3 DEF P!ToSet
  <2>3. ASSUME NEW i \in DOMAIN r, NEW j \in DOMAIN r, r[i] = r[j]
        PROVE  i = j
    <3>1. i \in DOMAIN q \/ i = Len(q) + 1
      BY <1>1
    <3>2. j \in DOMAIN q \/ j = Len(q) + 1
      BY <1>1
    <3> QED
      BY <1>1, <2>1, <2>2, <2>3, <3>1, <3>2
  <2> QED
    BY <2>3 DEF P!IsInjective
<1> QED
  BY <1>1, <1>2, <1>3 DEF r

\* A pinned model that may be loaded at startup and is not yet is pending while
\* the models in memory are pinned ones.
LEMMA PinnedIsPending ==
  ASSUME PlanKept, planning = "installed", ~asked.single,
         NEW p \in P!Pinned(asked.workload), p.startup, p \notin P!ToSet(resident),
         \A q \in P!ToSet(resident) : q.residency = "pinned"
  PROVE  p \in P!Pending
<1> DEFINE U == P!ToSet(resident)
<1>1. U \subseteq asked.workload.models
  BY DEF PlanKept, P!ToSet
<1>2. U \subseteq P!Pinned(asked.workload) /\ p \in P!Pinned(asked.workload) \ U
  BY <1>1 DEF P!Pinned
<1>3. asked \in P!Asked /\ Resolved
  BY DEF PlanKept
<1> HIDE DEF U
<1>4. /\ P!FitsBeside(U, p, asked.workload, limits, limits)
      /\ asked.workload.memory_limit > 0 =>
           P!CombinedOf(U \cup {p}, limits.allowed)
             <= asked.workload.memory_limit - asked.workload.reserve
  BY <1>2, <1>3, PinnedFitBeside
<1>5. P!FitsServer(p)
  BY <1>4 DEF P!FitsServer, U
<1> QED
  BY <1>5 DEF P!Pending, P!Pinned

\* Loading the first of the models that are pending keeps it: a pinned model that is
\* passed over then comes after one that is not pinned.
LEMMA PlanKeptLoad ==
  ASSUME PlanKept, planning = "installed", UNCHANGED <<asked, limits, startups, planning>>,
         NEW x \in P!Pending, \A q \in P!Pending \ {x} : P!Before(x, q),
         resident' = Append(resident, x)
  PROVE  PlanKept'
<1>1. /\ x \in asked.workload.models /\ x \notin P!ToSet(resident)
      /\ resident \in Seq(asked.workload.models) /\ P!IsInjective(resident)
  BY DEF P!Pending, PlanKept
<1>2. /\ resident' \in Seq(asked.workload.models)
      /\ P!ToSet(resident') = P!ToSet(resident) \cup {x}
      /\ P!IsInjective(resident')
  BY <1>1, LoadedOneMore
<1>3. Outranked'
  <2> SUFFICES ASSUME ~asked.single, NEW p \in P!Pinned(asked.workload), p.startup,
                      p \notin P!ToSet(resident) \cup {x},
                      \E q \in P!ToSet(resident) \cup {x} : q.residency # "pinned"
               PROVE  \E q \in P!ToSet(resident) \cup {x} :
                        q.residency # "pinned" /\ P!Before(q, p)
    BY <1>2 DEF Outranked, P!Before
  <2>1. CASE \E q \in P!ToSet(resident) : q.residency # "pinned"
    BY <2>1 DEF PlanKept, Outranked
  <2>2. CASE \A q \in P!ToSet(resident) : q.residency = "pinned"
    <3>1. p \in P!Pending
      BY <2>2, PinnedIsPending
    <3> QED
      BY <2>2, <3>1
  <2> QED
    BY <2>1, <2>2
<1>4. Resolved'
  BY DEF PlanKept, Resolved, Allotted, Asking, P!Refused
<1> QED
  BY <1>2, <1>3, <1>4 DEF PlanKept

\* When none is pending, nothing that fits was left out.
LEMMA PlanKeptServes ==
  ASSUME PlanKept, planning = "installed", UNCHANGED <<asked, limits, startups, resident>>,
         P!Pending = {}, planning' = "serving"
  PROVE  PlanKept'
<1>1. Outranked'
  <2> SUFFICES ASSUME ~asked.single, NEW p \in P!Pinned(asked.workload), p.startup,
                      p \notin P!ToSet(resident)
               PROVE  \E q \in P!ToSet(resident) : q.residency # "pinned" /\ P!Before(q, p)
    BY DEF Outranked, P!Before
  <2>1. CASE \E q \in P!ToSet(resident) : q.residency # "pinned"
    BY <2>1 DEF PlanKept, Outranked
  <2>2. CASE \A q \in P!ToSet(resident) : q.residency = "pinned"
    BY <2>2, PinnedIsPending
  <2> QED
    BY <2>1, <2>2
<1>2. Resolved'
  BY DEF PlanKept, Resolved, Allotted, Asking, P!Refused
<1> QED
  BY <1>1, <1>2 DEF PlanKept

LEMMA PlanKeptNext ==
  ASSUME PlanKept, [P!Next]_P!planningVars
  PROVE  PlanKept'
<1>0. P!ToSet(<<>>) = {}
  BY DEF P!ToSet
<1>1. CASE P!Refuse
  <2>1. /\ planning = "setup" /\ planning' = "refused"
        /\ asked' = asked /\ resident' = resident
    BY <1>1 DEF P!Refuse
  <2> QED
    BY <1>0, <2>1 DEF PlanKept, Outranked
<1>2. CASE P!Resolve
  <2>1. /\ planning = "setup" /\ planning' = "resolved" /\ ~P!Refused
        /\ asked' = asked /\ resident' = resident
        /\ limits' = [ram |-> Allotted.ram, vram |-> Allotted.vram,
                      dedicated |-> Asking.dedicated, allowed |-> Asking.allowed]
    BY <1>2 DEF P!Resolve, Allotted, Asking
  <2>2. Resolved'
    BY <2>1 DEF Resolved, Allotted, Asking, P!Refused
  <2> QED
    BY <1>0, <2>1, <2>2 DEF PlanKept, Outranked
<1>3. CASE P!Install
  <2>1. /\ planning = "resolved" /\ planning' \in {"refused", "installed"}
        /\ asked' = asked /\ resident' = resident /\ limits' = limits
    BY <1>3 DEF P!Install
  <2>2. Resolved'
    BY <2>1 DEF PlanKept, Resolved, Allotted, Asking, P!Refused
  <2> QED
    BY <1>0, <2>1, <2>2 DEF PlanKept, Outranked
<1>4. CASE P!Prewarm
  <2>1. planning = "installed" /\ UNCHANGED <<asked, limits, startups>>
    BY <1>4 DEF P!Prewarm
  <2>2. ASSUME NEW x \in P!Pending, \A q \in P!Pending \ {x} : P!Before(x, q),
               resident' = Append(resident, x), planning' = planning
        PROVE  PlanKept'
    BY <2>1, <2>2, PlanKeptLoad
  <2>3. CASE P!Pending = {} /\ planning' = "serving" /\ resident' = resident
    BY <2>1, <2>3, PlanKeptServes
  <2> QED
    BY <1>4, <2>2, <2>3 DEF P!Prewarm
<1>5. CASE UNCHANGED P!planningVars
  <2>1. UNCHANGED <<planning, asked, limits, resident>>
    BY <1>5 DEF P!planningVars
  <2>2. planning \in {"resolved", "installed", "serving"} => Resolved'
    BY <2>1 DEF PlanKept, Resolved, Allotted, Asking, P!Refused
  <2> QED
    BY <2>1, <2>2 DEF PlanKept, Outranked
<1> QED
  BY <1>1, <1>2, <1>3, <1>4, <1>5 DEF P!Next

LEMMA PlanKeptInit == P!Init => PlanKept
<1> SUFFICES ASSUME P!Init PROVE PlanKept
  OBVIOUS
<1>1. planning = "setup" /\ asked \in P!Asked /\ resident = <<>>
  BY DEF P!Init
<1> QED
  BY <1>1 DEF PlanKept, Outranked, P!ToSet, P!IsInjective

\* Planning is only explored by itself; otherwise nothing is asked of setup.
Planned ==
  /\ component = "planning" => PlanKept
  /\ component # "planning" => planning = "setup"

LEMMA PlanningAlone == Spec => []Planned
<1>1. Init => Planned
  BY PlanKeptInit DEF Init, Planned
<1>2. Planned /\ [Next]_vars => Planned'
  <2> SUFFICES ASSUME Planned, [Next]_vars PROVE Planned'
    OBVIOUS
  <2>1. component' = component /\ (component # "planning" => UNCHANGED planningVars)
        /\ (component = "planning" => [P!Next]_P!planningVars)
    BY DEF Next, Alone, vars, planningVars, P!planningVars
  <2>2. CASE component = "planning"
    BY <2>1, <2>2, PlanKeptNext DEF Planned
  <2>3. CASE component # "planning"
    BY <2>1, <2>3 DEF planningVars, Planned
  <2> QED
    BY <2>2, <2>3
<1> QED
  BY <1>1, <1>2, PTL DEF Spec

\* What setup accepted fits the machine policy, with the workload's reserve.
LEMMA AcceptedModelsFit == PlanKept => P!AcceptedFits
<1> SUFFICES ASSUME PlanKept, planning \in {"installed", "serving"},
                    NEW p \in IF asked.budget.partial THEN P!Pinned(asked.workload)
                              ELSE asked.workload.models
             PROVE  LET S == P!Pinned(asked.workload) \cup {p}
                    IN  /\ P!RamOf(S, limits.allowed) + asked.workload.reserve <= Asking.ram
                        /\ \A d \in P!Devices : P!VramOf(S, d, limits.allowed) > 0 =>
                             P!VramOf(S, d, limits.allowed) <= Asking.dedicated[d]
                        /\ asked.workload.memory_limit > 0 =>
                             P!CombinedOf(S, limits.allowed) <= asked.workload.memory_limit
  BY DEF P!AcceptedFits, Asking
<1> DEFINE S == P!Pinned(asked.workload) \cup {p}
<1>1. asked \in P!Asked /\ Resolved
  BY DEF PlanKept
<1>2. S \subseteq asked.workload.models /\ S # {}
  BY DEF P!Pinned
<1>3. FitTogether(S)
  <2>1. CASE p \in P!Pinned(asked.workload)
    <3>1. S = P!Pinned(asked.workload)
      BY <2>1
    <3> QED
      BY <1>1, <3>1, ResolvedFits
  <2>2. CASE p \notin P!Pinned(asked.workload)
    <3>1. ~asked.budget.partial /\ p \in asked.workload.models
      BY <2>2
    <3> QED
      BY <1>1, <2>2, <3>1, ResolvedFits
  <2> QED
    BY <2>1, <2>2
<1> HIDE DEF S
<1>4. /\ P!RamOf(S, limits.allowed) + asked.workload.reserve <= Asking.ram
      /\ \A d \in P!Devices : P!VramOf(S, d, limits.allowed) > 0 =>
           P!VramOf(S, d, limits.allowed) <= Asking.dedicated[d]
      /\ asked.workload.memory_limit > 0 =>
           P!CombinedOf(S, limits.allowed) <= asked.workload.memory_limit
  BY <1>1, <1>2, <1>3, FittingIsServed
<1> QED
  BY <1>4 DEF S

\* What a model is charged covers what it loads.
LEMMA ModelsAreCharged == PlanKept => P!ChargeCovers
<1> SUFFICES ASSUME PlanKept, NEW p \in asked.workload.models
             PROVE  LET place == P!Placement(p, limits.allowed)
                    IN  place.ram + place.vram
                          >= P!Weights(Artifacts[p.id], p) + P!CacheBytes(Artifacts[p.id], p)
  BY DEF P!ChargeCovers
<1>1. p \in P!PolicyType /\ p.id \in P!Models
  BY AskedTyped DEF PlanKept, WellPlanned, P!PolicyType
<1> DEFINE n == P!Estimate(Artifacts[p.id], p)
<1> DEFINE place == P!Placement(p, limits.allowed)
<1>2. place.ram \in Nat /\ place.vram \in Nat /\ place.ram + place.vram >= n
  BY <1>1, PlacementCovers DEF Covering
<1>3. /\ P!Weights(Artifacts[p.id], p) \in Nat /\ P!CacheBytes(Artifacts[p.id], p) \in Nat
      /\ n \in Nat /\ n > P!Weights(Artifacts[p.id], p) + P!CacheBytes(Artifacts[p.id], p)
  BY <1>1, EstimateCovers, CacheIsNat
<1> HIDE DEF n, place
<1>4. place.ram + place.vram >= P!Weights(Artifacts[p.id], p) + P!CacheBytes(Artifacts[p.id], p)
  BY <1>2, <1>3
<1> QED
  BY <1>4 DEF place

\* Planning: what setup accepts fits the machine policy together with the
\* workload's reserve, wherever its models are placed and whatever is moved to the
\* CPU or split; a model is charged at least what it loads; and startup leaves a
\* pinned model out only for one that comes before it and is not pinned
\* (src/src/setup.cpp:1076-1156, src/src/server.cpp:1202-1239).
THEOREM AcceptedIsServed == Spec => []PlannedServes
<1>1. component = "planning" /\ PlanKept => PlannedServes
  BY AcceptedModelsFit, ModelsAreCharged
     DEF PlanKept, Outranked, PlannedServes, P!PlannedServes, P!PinnedOrOutranked
<1>2. planning = "setup" => PlannedServes
  BY DEF PlannedServes, P!PlannedServes, P!AcceptedFits, P!ChargeCovers, P!PinnedOrOutranked
<1>3. Planned => PlannedServes
  BY <1>1, <1>2 DEF Planned
<1> QED
  BY <1>3, PlanningAlone, PTL

=============================================================================
