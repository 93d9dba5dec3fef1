----------------------------- MODULE MCComponents -----------------------------
(***************************************************************************)
(* Instances of Components, for TLC.                                       *)
(***************************************************************************)
EXTENDS Components

-----------------------------------------------------------------------------
(* What a turn may be sent.                                                 *)
Turn(streams, voice, file, pages) ==
  [session |-> "s1", streams |-> streams, voice |-> voice, file |-> file, pages |-> pages]

VoiceOrDocument == {Turn(TRUE, TRUE, "none", 1), Turn(FALSE, FALSE, "doc", 2)}
TwoDocuments == {Turn(TRUE, TRUE, "doc", 1), Turn(FALSE, FALSE, "doc", 2)}

\* The second version brings a workload more than the first.
TwoVersions == <<{"w1"}, {"w1", "w2"}>>

\* One workload for each mix of engines; voice and talk build the same engine.
Engines == [talk |-> {"gguf"}, voice |-> {"gguf", "vllm"}, mac |-> {"mlx"}]
AudioFamilies == [talk |-> {"asr"}, voice |-> {"tts"}, mac |-> {}]

\* A chat model as three workloads serve it, one with a drafter, one with another
\* engine that has no quantized cache; and one of vLLM, with and without a reserve.
Chat == [model |-> "chat", launcher |-> "llama-server", input |-> 4, output |-> 4, total |-> 8,
         parallel |-> 1, kv |-> "q8", device |-> "auto", layers |-> -1, ram |-> 2, reserve |-> 0,
         batch |-> 0, speculative |-> "none", projector_on_cpu |-> FALSE, kv_k |-> "",
         kv_v |-> ""]
Seer == [Chat EXCEPT !.model = "seer", !.launcher = "vllm"]
Recipes == {Chat, [Chat EXCEPT !.speculative = "mtp"], [Chat EXCEPT !.launcher = "mlx-lm"],
            Seer, [Seer EXCEPT !.reserve = 1]}

-----------------------------------------------------------------------------
(* Three models on accelerators of 8 and 4 GiB: a large one that may keep   *)
(* its projector on the CPU, a pinned one with a drafter and one that may   *)
(* be split between the second accelerator and the CPU.  Each fits the      *)
(* first accelerator beside the pinned one, and all three do not.           *)
G == 100000
File(r, b) == [role |-> r, bytes |-> b]
Group(l, w) == [layers |-> l, width |-> 32, window |-> w]
Artifact(fs, gs, reservation, overhead) ==
  [files |-> fs, groups |-> gs, reservation |-> reservation, overhead |-> overhead, blocks |-> 4]

Policy(id) ==
  [id |-> id, device |-> "auto", tokens |-> 300, batch |-> 64, sequences |-> 1,
   key |-> "q8", value |-> "q4", speculative |-> "none", projector_on_cpu |-> FALSE,
   draft_on_cpu |-> FALSE, layers |-> -1, cache |-> 0, ram |-> -1, vram |-> -1,
   residency |-> "warm", startup |-> TRUE, priority |-> 50, quantization |-> "q4"]

Viewers == {[Policy(1) EXCEPT !.device = d, !.projector_on_cpu = d = "gpu0"] :
              d \in {"auto", "cpu", "gpu0"}}
Drafted == {[Policy(2) EXCEPT !.speculative = s, !.draft_on_cpu = TRUE,
                              !.residency = "pinned", !.priority = 40, !.quantization = q] :
              s \in {"none", "mtp"}, q \in {"q4", "q8"}}
Halved == {Policy(3)} \cup
          {[Policy(3) EXCEPT !.residency = r, !.startup = r = "pinned", !.device = "gpu1",
                             !.layers = 3] : r \in {"pinned", "on_demand"}}

Workload(models, strategy, limit) ==
  [models |-> models, strategy |-> strategy, keep |-> {2}, memory_limit |-> limit,
   reserve |-> G \div 10, maximum_workers |-> 0]

Limits(allowed, ram, dedicated) == [allowed |-> allowed, ram |-> ram, dedicated |-> dedicated]

Machine == 16 * G
Dedicated == [gpu0 |-> [memory |-> 8 * G, unified |-> FALSE],
              gpu1 |-> [memory |-> 4 * G, unified |-> FALSE]]
Three == <<Artifact({File("model", 2 * G), File("projector", G \div 2)}, {Group(2, 0)}, 0, 0),
           Artifact({File("model", G), File("drafter", G \div 2)}, {Group(1, 256)},
                    (3 * G) \div 2, G \div 2),
           Artifact({File("model", 2 * G)}, {Group(1, 0)}, (5 * G) \div 2, 0)>>
Planned == {Workload({v, d, h}, s, l) : v \in Viewers, d \in Drafted, h \in Halved,
              s \in {"none", "balanced", "all", "sequential"}, l \in {0, 9 * G}}
Owners == {Limits({}, -1, <<>>), Limits({"cpu"}, 8 * G, <<>>),
           Limits({"cpu", "gpu0"}, 10 * G, [gpu1 |-> 0]),
           Limits({"cpu", "gpu0"}, 10 * G, [gpu0 |-> 5 * G])}
Granted == {[ram |-> 10 * G, vram |-> v, partial |-> v = -1] : v \in {-1, 7 * G}}

\* The operator's first key is k1: the keys differ in nothing but their names.
MCInit == Init /\ told["inference"] = "k1"
MCSpec == MCInit /\ [][Next]_vars /\ SessionFairness /\ B!Fairness
=============================================================================
