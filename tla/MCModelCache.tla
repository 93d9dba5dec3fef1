---------------------------- MODULE MCModelCache ----------------------------
(***************************************************************************)
(* Instances of ModelCache for TLC: a directory with two bundles, q4 and   *)
(* q8, that share a projector, and a pair of the older registry.           *)
(***************************************************************************)
EXTENDS ModelCache, TLC

Variants == {"q4", "q8", "asr"}
Bundled == {"q4", "q8"}
Paths == {"q4.gguf", "q8.gguf", "mmproj.gguf", "asr.gguf", "tower.gguf"}
Manifest == [q4 |-> <<"q4.gguf", "mmproj.gguf">>,
             q8 |-> <<"q8.gguf", "mmproj.gguf">>,
             asr |-> <<"asr.gguf", "tower.gguf">>]
Default == <<"q4", "asr">>

Revisions == {"rev1", "rev2", "rev3"}
Versions == {"v1", "v2"}

\* All files of a release come from one revision; v of a file is its content.
OneSource(rev, v) ==
  [b \in Variants |-> [f \in Paths |-> [from |-> rev, content |-> v[f]]]]

Old == [f \in Paths |-> "v1"]

\* The second release replaces every file, the third only the source.
Renewed == <<OneSource("rev1", Old),
             OneSource("rev2", [f \in Paths |-> "v2"]),
             OneSource("rev3", [f \in Paths |-> "v2"])>>

\* The second release pins another revision of the projector, a component with
\* a source of its own.
NewProjector ==
  LET old == OneSource("rev1", Old)
  IN  <<old, [b \in Variants |-> [old[b] EXCEPT !["mmproj.gguf"] =
                [from |-> "rev2", content |-> "v2"]]]>>

\* A fresh directory, and one to which someone copied the projectors.
Fresh == [f \in Paths |-> Absent]
Seeded == [Fresh EXCEPT !["mmproj.gguf"] = "v1", !["tower.gguf"] = "v1"]
FreshOrSeeded == {Fresh, Seeded}
OnlyFresh == {Fresh}

\* The pins of the passing run are of the kind the theorems assume.
ASSUME RenewedPinning == Pin = Renewed => Pinning

=============================================================================
