------------------------------ MODULE Preparation ------------------------------
(***************************************************************************)
(* The installation of what a workload needs: setup, which installs the    *)
(* Python environments and native engines of its backends, tries them and  *)
(* writes runtime.json; and what builds on it, the installation of a       *)
(* workload with its models and the dashboard's preparation of another     *)
(* one, which puts the default back.  A build, a package or a download may *)
(* fail, and the process may be killed between any two steps.              *)
(***************************************************************************)
EXTENDS Naturals, FiniteSets

CONSTANTS Workloads,
          Uses,      \* the backends of each workload, of {"mlx", "gguf", "vllm"}
          Families,  \* the model families that each needs of the audio engine
          MaxJobs,   \* bound: setups and preparations begun
          None

VARIABLES python,   \* bin/python of each environment exists
          packages, \* its packages are installed
          marker,   \* environments/vllm/.mica-device names this device
          cache,    \* AUDIOCPP_MODELS in the audio engine's CMakeCache.txt
          binary,   \* the families its executable was built with, or None
          runtime,  \* runtime.json
          job,      \* the setup under way
          ready,    \* the workload whose setup completed last, None when in doubt
          cut,      \* what an interrupted job left half done and looks done
          kills,    \* how many jobs were killed
          begun     \* bound: how many jobs have been begun

setupVars == <<python, packages, marker, cache, binary, runtime, job, ready, cut, kills, begun>>

Environments == {"tools", "mlx", "vllm"}
Backends == {"mlx", "gguf", "vllm"}

\* runtime.json: absent, cut off in the middle, or whole.
Runtime(state, w, bs, ds) == [state |-> state, workload |-> w, backends |-> bs, downloads |-> ds]
NoRuntime == Runtime("none", None, {}, {})
Torn == Runtime("torn", None, {}, {})

\* std::sort puts the backends in this order.
Stages(w) == {"tools"} \cup Uses[w]
Rank(s) == CASE s = "tools" -> 0 [] s = "mlx" -> 1 [] s = "gguf" -> 2 [] s = "vllm" -> 3

Init ==
  /\ python = [e \in Environments |-> FALSE]
  /\ packages = [e \in Environments |-> FALSE]
  /\ marker = FALSE
  /\ cache = {}
  /\ binary = None
  /\ runtime = NoRuntime
  /\ job = None
  /\ ready = None
  /\ cut = {}
  /\ kills = 0
  /\ begun = 0

-----------------------------------------------------------------------------
At(stage, step) == job # None /\ job.stage = stage /\ job.step = step
Step(step) == job' = [job EXCEPT !.step = step]

\* The next backend, or the validation after the last.
Onward ==
  LET left == {s \in Uses[job.workload] : Rank(s) > Rank(job.stage)}
  IN job' = [job EXCEPT !.step = "begin",
               !.stage = IF left = {} THEN "validate"
                         ELSE CHOOSE s \in left : \A t \in left : Rank(s) <= Rank(t)]

\* setup; workload install, which downloads the models too; and the dashboard's
\* jobs, which first read the runtime.json that they will put back: to prepare a
\* workload beside the default, or the default itself after it was saved.
Goals == {"setup", "install", "prepare", "save"}
Jobs == {"prepare", "save"}

Begin(w, refresh, goal) ==
  /\ job = None
  /\ begun < MaxJobs
  /\ begun' = begun + 1
  /\ goal \in Jobs => ~refresh /\ runtime # Torn
  /\ goal = "save" => w = runtime.workload
  /\ job' = [workload |-> w, refresh |-> refresh, goal |-> goal, stage |-> "tools",
             step |-> "begin", previous |-> IF goal \in Jobs THEN runtime ELSE NoRuntime,
             downloads |-> {}]
  /\ ready' = None
  /\ UNCHANGED <<python, packages, marker, cache, binary, runtime, cut, kills>>

-----------------------------------------------------------------------------
(* Environments: uv venv, then uv pip install                              *)
New(e) == job.refresh \/ ~python[e] \/ (e = "vllm" /\ ~marker)

Venv(e) ==
  /\ At(e, "begin")
  /\ e = "tools" => Uses[job.workload] # {"gguf"}
  /\ New(e)
  /\ python' = [python EXCEPT ![e] = TRUE]
  /\ packages' = [packages EXCEPT ![e] = FALSE]
  /\ marker' = (marker /\ e # "vllm")
  /\ Step("pip")
  /\ UNCHANGED <<cache, binary, runtime, ready, cut, kills, begun>>

SkipVenv(e) ==
  /\ At(e, "begin")
  /\ \/ e = "tools" /\ Uses[job.workload] = {"gguf"}
     \/ ~New(e)
  /\ IF e = "mlx" THEN Step("pip") ELSE Onward
  /\ UNCHANGED <<python, packages, marker, cache, binary, runtime, ready, cut, kills, begun>>

Pip(e) ==
  /\ At(e, "pip")
  /\ packages' = [packages EXCEPT ![e] = TRUE]
  /\ cut' = cut \ {e}
  /\ IF e = "vllm" THEN Step("mark") ELSE Onward
  /\ UNCHANGED <<python, marker, cache, binary, runtime, ready, kills, begun>>

MarkInstalled ==
  /\ At("vllm", "mark")
  /\ marker' = TRUE
  /\ Onward
  /\ UNCHANGED <<python, packages, cache, binary, runtime, ready, cut, kills, begun>>

-----------------------------------------------------------------------------
(* The native engine: cmake configures with the families, then compiles    *)

Needed == Families[job.workload]

\* An executable is there and the cache lists every family.
Reconciled == binary # None /\ Needed \subseteq cache

SkipBuild ==
  /\ At("gguf", "begin")
  /\ Reconciled
  /\ ~job.refresh
  /\ Onward
  /\ UNCHANGED <<python, packages, marker, cache, binary, runtime, ready, cut, kills, begun>>

\* Families that are installed stay among those that are built.
Configure ==
  /\ At("gguf", "begin")
  /\ ~Reconciled \/ job.refresh
  /\ cache' = cache \cup Needed
  /\ Step("compile")
  /\ UNCHANGED <<python, packages, marker, binary, runtime, ready, cut, kills, begun>>

Compile ==
  /\ At("gguf", "compile")
  /\ binary' = cache
  /\ cut' = cut \ {"gguf"}
  /\ Onward
  /\ UNCHANGED <<python, packages, marker, cache, runtime, ready, kills, begun>>

-----------------------------------------------------------------------------
(* Validation, runtime.json, download                                      *)

\* Every environment and executable is run once; its families are not asked.
Works(b) == IF b = "gguf" THEN binary # None ELSE packages[b]
Validate ==
  /\ At("validate", "begin")
  /\ \A b \in Uses[job.workload] : Works(b)
  /\ job' = [job EXCEPT !.stage = "record"]
  /\ UNCHANGED <<python, packages, marker, cache, binary, runtime, ready, cut, kills, begun>>

\* Its downloads are kept; a broken file is not overwritten.
ReadRuntime ==
  /\ At("record", "begin")
  /\ runtime # Torn
  /\ job' = [job EXCEPT !.step = "truncate", !.downloads = runtime.downloads]
  /\ UNCHANGED <<python, packages, marker, cache, binary, runtime, ready, cut, kills, begun>>

Truncate ==
  /\ At("record", "truncate")
  /\ runtime' = Torn
  /\ Step("write")
  /\ UNCHANGED <<python, packages, marker, cache, binary, ready, cut, kills, begun>>

\* Nobody looks whether the write succeeds: with a full disk it stays cut off.
WriteRuntime ==
  /\ At("record", "write")
  /\ runtime' \in {Torn, Runtime("whole", job.workload, Uses[job.workload], job.downloads)}
  /\ IF job.goal = "setup"
     THEN job' = None /\ ready' = job.workload
     ELSE job' = [job EXCEPT !.stage = "download", !.step = "begin"] /\ UNCHANGED ready
  /\ UNCHANGED <<python, packages, marker, cache, binary, cut, kills, begun>>

\* download_workload_models: every model is fetched and recorded.
Download ==
  /\ At("download", "begin")
  /\ runtime # Torn
  /\ runtime' = [runtime EXCEPT !.downloads = @ \cup {job.workload}]
  /\ Step("restore")
  /\ UNCHANGED <<python, packages, marker, cache, binary, ready, cut, kills, begun>>

\* Mutant: what the preparation added is forgotten.
RestoredAsFound == IF job.previous = NoRuntime THEN runtime ELSE job.previous

\* The previous file comes back, with the backends and downloads of the one
\* that is there now.
Restored ==
  IF job.previous = NoRuntime THEN runtime
  ELSE [job.previous EXCEPT !.backends = @ \cup runtime.backends,
                            !.downloads = @ \cup runtime.downloads]
Restore ==
  /\ At("download", "restore")
  /\ runtime' = IF job.goal = "prepare" THEN Restored ELSE runtime
  /\ job' = None
  /\ ready' = job.workload
  /\ UNCHANGED <<python, packages, marker, cache, binary, cut, kills, begun>>

-----------------------------------------------------------------------------
(* Failures                                                                *)

\* What is left half done and will be taken for done: the tools environment has
\* its bin/python, cmake's cache has the families.
LeftBehind == (IF At("tools", "pip") THEN {"tools"} ELSE {})
                \cup (IF At("gguf", "compile") THEN {"gguf"} ELSE {})

\* A step throws: no network, the compiler's memory guard, a package that does
\* not import.  A dashboard's job puts back what it found.
Fails ==
  /\ job # None
  /\ job.step # "write"
  /\ runtime' = IF job.goal \in Jobs /\ runtime # Torn THEN Restored ELSE runtime
  /\ cut' = cut \cup LeftBehind
  /\ job' = None
  /\ UNCHANGED <<python, packages, marker, cache, binary, ready, kills, begun>>

Killed ==
  /\ job # None
  /\ job' = None
  /\ cut' = cut \cup LeftBehind
  /\ kills' = kills + 1
  /\ UNCHANGED <<python, packages, marker, cache, binary, runtime, ready, begun>>

Next ==
  \/ \E w \in Workloads, refresh \in BOOLEAN, goal \in Goals : Begin(w, refresh, goal)
  \/ \E e \in Environments : Venv(e) \/ SkipVenv(e) \/ Pip(e)
  \/ MarkInstalled \/ SkipBuild \/ Configure \/ Compile
  \/ Validate \/ ReadRuntime \/ Truncate \/ WriteRuntime \/ Download \/ Restore
  \/ Fails \/ Killed

Spec == Init /\ [][Next]_setupVars

-----------------------------------------------------------------------------
(* Properties                                                              *)

RuntimeType ==
  [state : {"none", "torn", "whole"}, workload : Workloads \cup {None},
   backends : SUBSET Backends, downloads : SUBSET Workloads]

JobType ==
  [workload : Workloads, refresh : BOOLEAN, goal : Goals,
   stage : Environments \cup {"gguf", "validate", "record", "download"},
   step : {"begin", "pip", "mark", "compile", "truncate", "write", "restore"},
   previous : RuntimeType, downloads : SUBSET Workloads]

TypeOK ==
  /\ python \in [Environments -> BOOLEAN] /\ packages \in [Environments -> BOOLEAN]
  /\ marker \in BOOLEAN
  /\ cache \subseteq UNION {Families[w] : w \in Workloads}
  /\ binary = None \/ binary \subseteq cache
  /\ runtime \in RuntimeType /\ job \in JobType \cup {None}
  /\ ready \in Workloads \cup {None}
  /\ kills \in 0..begun /\ begun \in 0..MaxJobs

\* A setup that reports success has left every vLLM and MLX environment of its
\* workload with its packages, whatever earlier attempts failed or were killed
\* half-way; and the audio engine with its families and the tools environment with
\* its packages, unless one was cut half-way and is taken for done (cut).
PreparedWhole ==
  ready # None =>
    /\ \A e \in Uses[ready] \cap Environments : packages[e]
    /\ "gguf" \in Uses[ready] /\ "gguf" \notin cut => Families[ready] \subseteq binary
    /\ Uses[ready] # {"gguf"} /\ "tools" \notin cut => packages["tools"]

\* Every engine and environment that workload w asks for is installed.
Whole(w) ==
  /\ \A e \in Uses[w] \cap Environments : packages[e]
  /\ "gguf" \in Uses[w] => Families[w] \subseteq binary
  /\ Uses[w] # {"gguf"} => packages["tools"]

\* Without the exceptions, as docs/profiles.md:420-422 says: reusing a Python
\* environment reconciles its packages, and setup checks the compiled families.
\* The packages of the tools environment are installed only when its bin/python is
\* missing (src/src/setup.cpp:189-204), and the families are read where cmake
\* was asked for them, before it compiled (358-376).
ReadyIsWhole == ready # None => Whole(ready)

\* A setup with --refresh that reports success repairs whatever was cut before
\* it: there is no exception then.
RefreshRepairs ==
  [][job # None /\ job.refresh /\ job' = None /\ ready' # None => Whole(ready)']_setupVars

\* A preparation that ends, well or badly, and a failed one of a saved default
\* leave the default workload that they found, and forget no backend and no
\* download that runtime.json knew or that a preparation has added.
DefaultKept ==
  [][(/\ job # None /\ job' = None /\ kills' = kills /\ job.previous # NoRuntime
      /\ job.goal = "prepare" \/ ready' = None) =>
       \/ runtime' = Torn
       \/ /\ runtime'.workload = job.previous.workload
          /\ job.previous.backends \subseteq runtime'.backends
          /\ job.previous.downloads \subseteq runtime'.downloads
          /\ ready' # None => /\ Uses[job.workload] \subseteq runtime'.backends
                              /\ job.workload \in runtime'.downloads]_setupVars
=============================================================================
