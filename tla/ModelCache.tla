----------------------------- MODULE ModelCache -----------------------------
(***************************************************************************)
(* The cache directory of one model: WorkerManager::ensure_artifact makes  *)
(* an artifact present before a worker is started on it, and               *)
(* record_download notes it in state/runtime.json.                         *)
(*                                                                         *)
(* The variants of a model share the directory and may share files, for    *)
(* instance a vision projector.  A manifest pins each file of a variant to *)
(* a source (repository and revision) and a content (size and SHA-256),    *)
(* and an upgrade of the program brings other pins, which count from the   *)
(* next start of the server.  The completion marker of a variant holds one *)
(* source, that of its first file.  The process may stop between any two   *)
(* writes.                                                                 *)
(*                                                                         *)
(* A variant is installed in one of two ways: a bundle (artifact.files)    *)
(* stages and checks all its files, then renames them into place one by    *)
(* one; a pair of the older registry (pattern and projector) downloads     *)
(* its weights into place and its projector only when none is there.       *)
(***************************************************************************)
EXTENDS Naturals, Sequences, Functions

CONSTANTS
  Bundles,          \* variants of the model in the directory
  Files,            \* paths in the directory
  Sources,          \* repositories at revisions
  Contents,         \* what a file can hold
  Absent,           \* no file, no marker, no record, no worker
  Empty,            \* a marker that was truncated
  LastRelease,      \* releases of the program, in order: 1 .. LastRelease
  FilesOf,          \* variant -> its files, in manifest order
  Staged,           \* variants installed as bundles; the others are pairs
  Pin,              \* release -> variant -> file -> [from, content]
  Selected,         \* the variants of the default workload, in order
  Seeds             \* what the directory may hold before the first start

Releases == 1 .. LastRelease
PinType == [from : Sources, content : Contents]

ASSUME CacheAssumption ==
  /\ LastRelease \in Nat \ {0}
  /\ FilesOf \in [Bundles -> Seq(Files) \ {<<>>}]
  /\ Staged \subseteq Bundles
  /\ \A b \in Bundles \ Staged : Len(FilesOf[b]) \in {1, 2}
  /\ Pin \in [Releases -> [Bundles -> [Files -> PinType]]]
  /\ Selected \in Seq(Bundles)
  /\ Seeds \subseteq [Files -> Contents \cup {Absent}]
  /\ Absent \notin Contents /\ Absent \notin Sources /\ Empty \notin Sources

VARIABLES
  release,          \* the installed program
  disk,             \* file -> content
  marker,           \* variant -> source in .mica-complete-<quantization>
  downloads,        \* variant -> source in state/runtime.json
  serving,          \* variant -> the files its worker was started on
  step,             \* what the thread that installs is about to do
  bundle,           \* the variant it installs
  next,             \* the position of its next file
  ensured           \* how many of Selected the startup thread has ensured

cacheVars == <<release, disk, marker, downloads, serving, step, bundle, next, ensured>>

Steps == {"down", "halted", "idle", "staging", "publishing", "fetching",
          "truncating", "marking", "recording"}

CacheTypeOK ==
  /\ release \in Releases
  /\ disk \in [Files -> Contents \cup {Absent}]
  /\ marker \in [Bundles -> Sources \cup {Absent, Empty}]
  /\ downloads \in [Bundles -> Sources \cup {Absent}]
  /\ serving \in [Bundles -> [Files -> Contents \cup {Absent}] \cup {Absent}]
  /\ step \in Steps
  /\ bundle \in Bundles
  /\ next \in Nat \ {0}
  /\ ensured \in 0 .. Len(Selected)

CacheInit ==
  /\ release = 1
  /\ disk \in Seeds
  /\ marker = [b \in Bundles |-> Absent]
  /\ downloads = [b \in Bundles |-> Absent]
  /\ serving = [b \in Bundles |-> Absent]
  /\ step = "down"
  /\ bundle \in Bundles
  /\ next = 1
  /\ ensured = 0

-----------------------------------------------------------------------------
\* primary_repository and primary_revision: what the marker is compared with.
Primary(r, b) == Pin[r][b][FilesOf[b][1]].from

Wanted(r, b, f) == Pin[r][b][f].content

\* The files whose content an installation checks: an existing projector of a
\* pair is kept unread.
Checked(b) == IF b \in Staged THEN Range(FilesOf[b]) ELSE {FilesOf[b][1]}

\* Mutated form of Complete: any source in the marker will do.
CompleteOfAnySource(b) ==
  (\A f \in Checked(b) : disk[f] # Absent) /\ marker[b] \in Sources

\* The test at the top of ensure_artifact.
Complete(b) ==
  /\ \A f \in Checked(b) : disk[f] # Absent
  /\ marker[b] = Primary(release, b)

\* inspect_artifact (inventory.cpp): what the terminal interface and the
\* workload report call cached.
Cached(b) ==
  /\ \A f \in Range(FilesOf[b]) : disk[f] # Absent
  /\ marker[b] = Primary(release, b)

\* Files of b before position n hold what the installed program wants.
PublishedBefore(b, n) ==
  \A i \in DOMAIN FilesOf[b] :
    i < n /\ FilesOf[b][i] \in Checked(b) =>
      disk[FilesOf[b][i]] = Wanted(release, b, FilesOf[b][i])

Started == ensured = Len(Selected)

\* prewarm ensures the variants of the default workload; later acquire_locked
\* ensures the one it starts a worker on.
Asked(b) == IF Started THEN serving[b] = Absent ELSE b = Selected[ensured + 1]

\* Mutated form of Return: every return counts for prewarm.
ReturnCounted(b) == step' = "idle" /\ ensured' = ensured + 1 /\ UNCHANGED serving

\* ensure_artifact returns: prewarm goes on, acquire_locked starts the worker.
Return(b) ==
  /\ step' = "idle"
  /\ IF Started
       THEN serving' = [serving EXCEPT ![b] = disk] /\ UNCHANGED ensured
       ELSE ensured' = ensured + 1 /\ UNCHANGED serving

\* ensure_artifact throws: prewarm gives up for good, a request is refused.
Throw == step' = IF Started THEN "idle" ELSE "halted"

-----------------------------------------------------------------------------
Find(b) ==
  /\ step = "idle" /\ Asked(b)
  /\ Complete(b)
  /\ Return(b)
  /\ UNCHANGED <<release, disk, marker, downloads, bundle, next>>

\* Mutated form of Begin: what was cut off is left alone.
BeginUnmarked(b) ==
  /\ step = "idle" /\ Asked(b)
  /\ ~Complete(b) /\ marker[b] # Empty
  /\ step' = IF b \in Staged THEN "staging" ELSE "fetching"
  /\ bundle' = b
  /\ next' = 1
  /\ UNCHANGED <<release, disk, marker, downloads, serving, ensured>>

Begin(b) ==
  /\ step = "idle" /\ Asked(b)
  /\ ~Complete(b)
  /\ step' = IF b \in Staged THEN "staging" ELSE "fetching"
  /\ bundle' = b
  /\ next' = 1
  /\ UNCHANGED <<release, disk, marker, downloads, serving, ensured>>

\* Mutated form of Stage: what is staged is recorded.
StageRecorded ==
  /\ step = "staging"
  /\ step' = "publishing"
  /\ downloads' = [downloads EXCEPT ![bundle] = Primary(release, bundle)]
  /\ UNCHANGED <<release, disk, marker, serving, bundle, next, ensured>>

\* Every file of the bundle is linked from a cached copy with the pinned
\* checksum or downloaded, and checked, in a directory of its own, which a
\* later attempt removes first: until publication nothing can be seen of it.
Stage ==
  /\ step = "staging"
  /\ step' = "publishing"
  /\ UNCHANGED <<release, disk, marker, downloads, serving, bundle, next, ensured>>

\* One rename.
Put(f) == disk' = [disk EXCEPT ![f] = Wanted(release, bundle, f)]

\* Mutated form of Advance: off by one.
AdvanceShort ==
  IF next + 1 < Len(FilesOf[bundle])
    THEN next' = next + 1 /\ UNCHANGED step
    ELSE step' = "truncating" /\ UNCHANGED next

Advance ==
  IF next < Len(FilesOf[bundle])
    THEN next' = next + 1 /\ UNCHANGED step
    ELSE step' = "truncating" /\ UNCHANGED next

Publish ==
  /\ step = "publishing"
  /\ Put(FilesOf[bundle][next])
  /\ Advance
  /\ UNCHANGED <<release, marker, downloads, serving, bundle, ensured>>

\* Mutated form of Fetch: only the weights.
FetchWeights ==
  /\ step = "fetching"
  /\ IF next > 1 THEN UNCHANGED disk ELSE Put(FilesOf[bundle][next])
  /\ Advance
  /\ UNCHANGED <<release, marker, downloads, serving, bundle, ensured>>

\* A pair: the weights always, the projector unless one exists.
Fetch ==
  /\ step = "fetching"
  /\ LET f == FilesOf[bundle][next]
     IN  IF next > 1 /\ disk[f] # Absent THEN UNCHANGED disk ELSE Put(f)
  /\ Advance
  /\ UNCHANGED <<release, marker, downloads, serving, bundle, ensured>>

Truncate ==
  /\ step = "truncating"
  /\ marker' = [marker EXCEPT ![bundle] = Empty]
  /\ step' = "marking"
  /\ UNCHANGED <<release, disk, downloads, serving, bundle, next, ensured>>

\* The result of the write is not tested: on a full disk the marker stays empty.
Mark ==
  /\ step = "marking"
  /\ marker' = [marker EXCEPT ![bundle] = Primary(release, bundle)]
  /\ step' = "recording"
  /\ UNCHANGED <<release, disk, downloads, serving, bundle, next, ensured>>

MarkLost ==
  /\ step = "marking"
  /\ step' = "recording"
  /\ UNCHANGED <<release, disk, marker, downloads, serving, bundle, next, ensured>>

\* runtime.json is written beside itself and renamed.
Record ==
  /\ step = "recording"
  /\ downloads' = [downloads EXCEPT ![bundle] = Primary(release, bundle)]
  /\ Return(bundle)
  /\ UNCHANGED <<release, disk, marker, bundle, next>>

\* Mutated form of Fail: prewarm goes on with the next variant.
FailSkipped ==
  /\ step \in {"staging", "publishing", "fetching", "recording"}
  /\ step' = "idle"
  /\ ensured' = IF Started THEN ensured ELSE ensured + 1
  /\ UNCHANGED <<release, disk, marker, downloads, serving, bundle, next>>

\* A download, a checksum, a rename or runtime.json fails.
Fail ==
  /\ step \in {"staging", "publishing", "fetching", "recording"}
  /\ Throw
  /\ UNCHANGED <<release, disk, marker, downloads, serving, bundle, next, ensured>>

-----------------------------------------------------------------------------
Evict(b) ==
  /\ step = "idle"
  /\ serving[b] # Absent
  /\ serving' = [serving EXCEPT ![b] = Absent]
  /\ UNCHANGED <<release, disk, marker, downloads, step, bundle, next, ensured>>

\* The server stops, wherever it is.
Stop ==
  /\ step # "down"
  /\ step' = "down"
  /\ serving' = [b \in Bundles |-> Absent]
  /\ ensured' = 0
  /\ UNCHANGED <<release, disk, marker, downloads, bundle, next>>

Start ==
  /\ step = "down"
  /\ step' = "idle"
  /\ UNCHANGED <<release, disk, marker, downloads, serving, bundle, next, ensured>>

Upgrade ==
  /\ step = "down"
  /\ release < LastRelease
  /\ release' = release + 1
  /\ UNCHANGED <<disk, marker, downloads, serving, step, bundle, next, ensured>>

Install == Stage \/ Publish \/ Fetch \/ Truncate \/ Mark \/ Record
Fault == Fail \/ MarkLost \/ Stop

CacheNext ==
  \/ \E b \in Bundles : Find(b) \/ Begin(b) \/ Evict(b)
  \/ Install
  \/ Fault
  \/ Start
  \/ Upgrade

\* The startup thread and a thread inside ensure_artifact run on; a stopped
\* server is started again.  No request has to arrive.
CacheFairness ==
  /\ WF_cacheVars(Start)
  /\ WF_cacheVars(~Started /\ \E b \in Bundles : Find(b) \/ Begin(b))
  /\ WF_cacheVars(Install)

CacheSpec == CacheInit /\ [][CacheNext]_cacheVars
CacheFairSpec == CacheSpec /\ CacheFairness

-----------------------------------------------------------------------------
(* What the pins must satisfy for the completion marker to mean something.  *)

\* The source of the first file tells the contents of all.
FirstTells ==
  \A b \in Bundles : \A q, r \in Releases :
    Primary(q, b) = Primary(r, b) =>
      \A f \in Checked(b) : Wanted(q, b, f) = Wanted(r, b, f)

\* No release returns to a source that an earlier one had left.
NoReturn ==
  \A b \in Bundles : \A q, r, s \in Releases :
    q <= r /\ r <= s /\ Primary(q, b) = Primary(s, b) => Primary(r, b) = Primary(q, b)

\* Variants that share a file agree on it.
SharedAlike ==
  \A r \in Releases : \A b, c \in Bundles :
    \A f \in Checked(b) \cap Range(FilesOf[c]) : Wanted(r, b, f) = Wanted(r, c, f)

Pinning == FirstTells /\ NoReturn /\ SharedAlike

-----------------------------------------------------------------------------
AsPinned(b, files) == \A f \in Checked(b) : files[f] = Wanted(release, b, f)

\* A variant that ensure_artifact takes for complete has the contents its
\* manifest pins, wherever earlier installations, of this release or of another,
\* of this variant or of one that shares files with it, were cut off.
InstalledIsPinned == \A b \in Bundles : Complete(b) => AsPinned(b, disk)

\* A worker was started on the files that its manifest pins.
ServesPinned == \A b \in Bundles : serving[b] # Absent => AsPinned(b, serving[b])

\* Once prewarm is past ensuring the variants of the default workload they are
\* all there, though a marker may have been lost, and they stay.
ReadyIsInstalled ==
  Started => \A i \in DOMAIN Selected : AsPinned(Selected[i], disk)

\* What runtime.json says was downloaded is on the disk: record_download comes
\* last, and no later failure takes the files away.
RecordIsHonest ==
  \A b \in Bundles : downloads[b] = Primary(release, b) => AsPinned(b, disk)

\* The inventory reads the directory by a test of its own; it calls a variant
\* cached when, and only when, the server would start it without a download.
InventoryAgrees == \A b \in Bundles : Complete(b) <=> Cached(b)

\* When faults cease, prewarm gets through what they left behind, unless it was
\* one of them that made it give up: then only a restart tries again.
Converges == <>[][~Fault]_cacheVars => <>[](Started \/ step = "halted")

\* docs/models.md:275: the completion marker is written only after all files
\* pass, an invalid required projector is not an installed artifact, and each
\* file may pin a source of its own.  So a bundle that counts as complete holds
\* the pinned content of every file, also when a release moves only a later one.
CompleteIsValid ==
  \A b \in Staged : Complete(b) =>
    \A f \in Range(FilesOf[b]) : disk[f] = Wanted(release, b, f)

=============================================================================
