-------------------------- MODULE ModelCacheProofs --------------------------
(***************************************************************************)
(* Theorems about the model cache for every directory, every manifest and  *)
(* every sequence of releases whose pins satisfy Pinning.                  *)
(***************************************************************************)
EXTENDS ModelCache, TLAPS

\* What a marker or a record holds was written by this release or an earlier one.
Past(held) ==
  \A b \in Bundles : held[b] \in Sources =>
    \E q \in 1 .. release : held[b] = Primary(q, b)

\* A marker or a record of this release vouches for the variant's files.
Vouches(held) ==
  \A b \in Bundles : held[b] = Primary(release, b) => AsPinned(b, disk)

EnsuredPinned == \A i \in 1 .. ensured : AsPinned(Selected[i], disk)

\* How far the installation under way has come.
InstallingSound ==
  /\ step \in {"staging", "publishing"} => bundle \in Staged
  /\ step = "fetching" => bundle \notin Staged
  /\ step \in {"publishing", "fetching"} =>
       next <= Len(FilesOf[bundle]) /\ PublishedBefore(bundle, next)
  /\ step \in {"truncating", "marking", "recording"} => AsPinned(bundle, disk)
  /\ step \notin {"down", "halted", "idle"} => Asked(bundle)

DownClean == step = "down" => ensured = 0 /\ \A b \in Bundles : serving[b] = Absent

NextInRange == step = "staging" => next = 1

IInv ==
  /\ CacheTypeOK
  /\ Past(marker) /\ Past(downloads)
  /\ Vouches(marker) /\ Vouches(downloads)
  /\ EnsuredPinned
  /\ InstallingSound
  /\ ServesPinned
  /\ DownClean
  /\ NextInRange

LEMMA ManifestFacts ==
  ASSUME NEW b \in Bundles
  PROVE  /\ FilesOf[b] \in Seq(Files)
         /\ Len(FilesOf[b]) \in Nat \ {0}
         /\ DOMAIN FilesOf[b] = 1 .. Len(FilesOf[b])
         /\ \A i \in 1 .. Len(FilesOf[b]) : FilesOf[b][i] \in Files
         /\ Checked(b) \subseteq Range(FilesOf[b])
         /\ Checked(b) \subseteq Files
         /\ \A f \in Checked(b) : \E i \in 1 .. Len(FilesOf[b]) : f = FilesOf[b][i]
<1>1. FilesOf[b] \in Seq(Files) /\ FilesOf[b] # <<>>
  BY CacheAssumption
<1>2. Len(FilesOf[b]) \in Nat \ {0} /\ DOMAIN FilesOf[b] = 1 .. Len(FilesOf[b])
  BY <1>1
<1>3. \A i \in 1 .. Len(FilesOf[b]) : FilesOf[b][i] \in Files
  BY <1>1
<1>4. Checked(b) \subseteq Range(FilesOf[b])
  BY <1>2 DEF Checked, Range
<1> QED
  BY <1>1, <1>2, <1>3, <1>4 DEF Range

LEMMA PinFacts ==
  ASSUME NEW r \in Releases, NEW b \in Bundles
  PROVE  /\ Primary(r, b) \in Sources
         /\ \A f \in Files : Wanted(r, b, f) \in Contents
<1>1. FilesOf[b][1] \in Files
  BY ManifestFacts
<1>2. \A f \in Files : Pin[r][b][f] \in PinType
  BY CacheAssumption
<1> QED
  BY <1>1, <1>2 DEF Primary, Wanted, PinType

\* A file that some installation of this release puts in place is the one that
\* every variant which checks it wants.
LEMMA PutKeeps ==
  ASSUME Pinning, CacheTypeOK, NEW i \in 1 .. Len(FilesOf[bundle]), Put(FilesOf[bundle][i]),
         NEW b \in Bundles, AsPinned(b, disk), release' = release
  PROVE  AsPinned(b, disk)'
<1> DEFINE f == FilesOf[bundle][i]
<1>1. f \in Range(FilesOf[bundle]) /\ f \in Files
  BY ManifestFacts DEF CacheTypeOK, Range
<1> SUFFICES ASSUME NEW g \in Checked(b)
             PROVE  disk'[g] = Wanted(release, b, g)
  BY DEF AsPinned
<1>2. CASE g = f
  <2>1. disk'[g] = Wanted(release, bundle, g)
    BY <1>1, <1>2 DEF Put, CacheTypeOK
  <2> QED
    BY <2>1, <1>1, <1>2 DEF Pinning, SharedAlike, CacheTypeOK
<1>3. CASE g # f
  BY <1>3 DEF Put, CacheTypeOK, AsPinned
<1> QED
  BY <1>2, <1>3

LEMMA StepTyped == CacheTypeOK /\ [CacheNext]_cacheVars => CacheTypeOK'
<1> SUFFICES ASSUME CacheTypeOK, [CacheNext]_cacheVars
             PROVE  CacheTypeOK'
  OBVIOUS
<1> USE DEF CacheTypeOK, Steps
<1>0. Len(Selected) \in Nat
  BY CacheAssumption
<1>1. ASSUME NEW b \in Bundles, Return(b), UNCHANGED <<disk, release>>
      PROVE  /\ step' \in Steps /\ ensured' \in 0 .. Len(Selected)
             /\ serving' \in [Bundles -> [Files -> Contents \cup {Absent}] \cup {Absent}]
  BY <1>0, <1>1 DEF Return, Started
<1>2. ASSUME NEW b \in Bundles, Find(b) PROVE CacheTypeOK'
  BY <1>1, <1>2 DEF Find
<1>3. ASSUME NEW b \in Bundles, Begin(b) PROVE CacheTypeOK'
  BY <1>3 DEF Begin
<1>4. ASSUME NEW b \in Bundles, Evict(b) PROVE CacheTypeOK'
  BY <1>4 DEF Evict
<1>5. CASE Stage
  BY <1>5 DEF Stage
<1>6. ASSUME NEW i \in 1 .. Len(FilesOf[bundle]), Put(FilesOf[bundle][i])
      PROVE  disk' \in [Files -> Contents \cup {Absent}]
  BY <1>6, ManifestFacts, PinFacts DEF Put
<1>7. ASSUME Publish \/ Fetch PROVE CacheTypeOK'
  BY <1>7, ManifestFacts, PinFacts DEF Publish, Fetch, Put, Advance
<1>8. CASE Truncate
  BY <1>8 DEF Truncate
<1>9. CASE Mark \/ MarkLost
  BY <1>9, PinFacts DEF Mark, MarkLost
<1>10. CASE Record
  <2>1. downloads' \in [Bundles -> Sources \cup {Absent}]
    BY <1>10, PinFacts DEF Record
  <2> QED
    BY <2>1, <1>1, <1>10 DEF Record
<1>11. CASE Fail
  BY <1>11 DEF Fail, Throw
<1>12. CASE Stop
  BY <1>12, <1>0 DEF Stop
<1>13. CASE Start
  BY <1>13 DEF Start
<1>14. CASE Upgrade
  BY <1>14, CacheAssumption DEF Upgrade, Releases
<1>15. CASE UNCHANGED cacheVars
  BY <1>15 DEF cacheVars
<1> QED
  BY <1>2, <1>3, <1>4, <1>5, <1>7, <1>8, <1>9, <1>10, <1>11, <1>12, <1>13, <1>14,
     <1>15 DEF CacheNext, Install, Fault

\* The variables of the cache keep their types in every directory, under every
\* manifest.
THEOREM CacheTyped == CacheSpec => []CacheTypeOK
<1>1. CacheInit => CacheTypeOK
  BY CacheAssumption DEF CacheInit, CacheTypeOK, Steps, Releases
<1> QED
  BY <1>1, StepTyped, PTL DEF CacheSpec

-----------------------------------------------------------------------------
\* What is true of the cache when ensure_artifact returns for b, the variant
\* that was asked for, with its files in place.
LEMMA ReturnSound ==
  ASSUME CacheTypeOK, EnsuredPinned, ServesPinned,
         NEW b \in Bundles, Asked(b), AsPinned(b, disk), Return(b),
         UNCHANGED <<release, disk>>
  PROVE  EnsuredPinned' /\ ServesPinned'
<1>1. CASE Started
  <2>1. EnsuredPinned'
    BY <1>1 DEF Return, EnsuredPinned, AsPinned
  <2>2. serving' = [serving EXCEPT ![b] = disk]
    BY <1>1 DEF Return
  <2>3. ASSUME NEW c \in Bundles, serving'[c] # Absent
        PROVE  AsPinned(c, serving[c])'
    <3>1. CASE c = b
      BY <2>2, <3>1 DEF AsPinned, CacheTypeOK
    <3>2. CASE c # b
      BY <2>2, <2>3, <3>2 DEF AsPinned, CacheTypeOK, ServesPinned
    <3> QED
      BY <3>1, <3>2
  <2> QED
    BY <2>1, <2>3 DEF ServesPinned
<1>2. CASE ~Started
  <2>1. ensured' = ensured + 1 /\ serving' = serving /\ b = Selected[ensured + 1]
    BY <1>2 DEF Return, Asked
  <2>2. \A i \in 1 .. ensured' : i \in 1 .. ensured \/ i = ensured + 1
    BY <2>1 DEF CacheTypeOK
  <2> QED
    BY <2>1, <2>2 DEF EnsuredPinned, ServesPinned, AsPinned
<1> QED
  BY <1>1, <1>2

\* Complete is justified by the marker.
LEMMA CompleteSound ==
  ASSUME IInv, NEW b \in Bundles, Complete(b)
  PROVE  AsPinned(b, disk)
BY DEF IInv, Vouches, Complete

LEMMA FindKeeps ==
  ASSUME IInv, CacheTypeOK', NEW b \in Bundles, Find(b)
  PROVE  IInv'
<1>1. EnsuredPinned' /\ ServesPinned'
  <2>1. AsPinned(b, disk)
    BY CompleteSound DEF Find
  <2> QED
    BY <2>1, ReturnSound DEF IInv, Find
<1>2. step' = "idle"
  BY DEF Find, Return
<1>3. Past(marker)' /\ Past(downloads)' /\ Vouches(marker)' /\ Vouches(downloads)'
  BY DEF IInv, Find, Past, Vouches, AsPinned
<1> QED
  BY <1>1, <1>2, <1>3 DEF IInv, InstallingSound, DownClean, NextInRange

LEMMA BeginKeeps ==
  ASSUME IInv, CacheTypeOK', NEW b \in Bundles, Begin(b)
  PROVE  IInv'
<1>1. Past(marker)' /\ Past(downloads)' /\ Vouches(marker)' /\ Vouches(downloads)'
  BY DEF IInv, Begin, Past, Vouches, AsPinned
<1>2. EnsuredPinned' /\ ServesPinned'
  BY DEF IInv, Begin, EnsuredPinned, ServesPinned, AsPinned
<1>3. Asked(bundle)'
  BY DEF Begin, Asked, Started
<1>4. next' = 1 /\ bundle' = b /\ step' = IF b \in Staged THEN "staging" ELSE "fetching"
  BY DEF Begin
<1>5. next' <= Len(FilesOf[b]) /\ PublishedBefore(b, 1)'
  BY <1>4, ManifestFacts DEF PublishedBefore
<1> QED
  BY <1>1, <1>2, <1>3, <1>4, <1>5 DEF IInv, InstallingSound, DownClean, NextInRange

LEMMA StageKeeps ==
  ASSUME IInv, CacheTypeOK', Stage
  PROVE  IInv'
<1>1. Past(marker)' /\ Past(downloads)' /\ Vouches(marker)' /\ Vouches(downloads)'
  BY DEF IInv, Stage, Past, Vouches, AsPinned
<1>2. EnsuredPinned' /\ ServesPinned'
  BY DEF IInv, Stage, EnsuredPinned, ServesPinned, AsPinned
<1>3. step' = "publishing" /\ bundle' = bundle /\ bundle \in Staged
  BY DEF IInv, InstallingSound, Stage
<1>4. Asked(bundle)'
  BY DEF IInv, InstallingSound, Stage, Asked, Started
<1>5. next' = 1 /\ bundle \in Bundles
  BY DEF IInv, NextInRange, Stage, CacheTypeOK
<1>6. next' <= Len(FilesOf[bundle']) /\ PublishedBefore(bundle, next)'
  BY <1>3, <1>5, ManifestFacts DEF PublishedBefore
<1> QED
  BY <1>1, <1>2, <1>3, <1>4, <1>5, <1>6 DEF IInv, InstallingSound, DownClean, NextInRange

\* A file was put in place, or an unchecked one was left.
LEMMA PlacingKeeps ==
  ASSUME Pinning, IInv, CacheTypeOK', Advance,
         step \in {"publishing", "fetching"},
         UNCHANGED <<release, marker, downloads, serving, bundle, ensured>>,
         \/ Put(FilesOf[bundle][next])
         \/ /\ disk' = disk
            /\ FilesOf[bundle][next] \in Checked(bundle) =>
                 disk[FilesOf[bundle][next]] = Wanted(release, bundle, FilesOf[bundle][next])
  PROVE  IInv'
<1> DEFINE f == FilesOf[bundle][next]
<1>0. /\ bundle \in Bundles /\ next \in 1 .. Len(FilesOf[bundle]) /\ Len(FilesOf[bundle]) \in Nat
      /\ PublishedBefore(bundle, next) /\ Asked(bundle) /\ CacheTypeOK
  BY ManifestFacts DEF IInv, InstallingSound, CacheTypeOK
<1>1. ASSUME NEW b \in Bundles, AsPinned(b, disk)
      PROVE  AsPinned(b, disk)'
  BY <1>0, <1>1, PutKeeps DEF AsPinned
<1>2. Vouches(marker)' /\ Vouches(downloads)'
  BY <1>1 DEF IInv, Vouches
<1>3. EnsuredPinned'
  <2>1. \A i \in 1 .. ensured : Selected[i] \in Bundles
    BY <1>0, CacheAssumption DEF CacheTypeOK
  <2> QED
    BY <1>1, <2>1 DEF IInv, EnsuredPinned
<1>4. ServesPinned' /\ Past(marker)' /\ Past(downloads)'
  BY DEF IInv, ServesPinned, AsPinned, Past
<1>5. ASSUME NEW i \in DOMAIN FilesOf[bundle], i < next + 1,
             FilesOf[bundle][i] \in Checked(bundle)
      PROVE  disk'[FilesOf[bundle][i]] = Wanted(release, bundle, FilesOf[bundle][i])
  <2>0. i \in 1 .. Len(FilesOf[bundle]) /\ FilesOf[bundle][i] \in Files
    BY <1>0, ManifestFacts
  <2>1. CASE FilesOf[bundle][i] = f
    BY <1>0, <1>5, <2>0, <2>1 DEF Put, CacheTypeOK
  <2>2. CASE FilesOf[bundle][i] # f
    <3>1. i < next
      BY <1>0, <1>5, <2>0, <2>2
    <3>2. disk[FilesOf[bundle][i]] = Wanted(release, bundle, FilesOf[bundle][i])
      BY <1>0, <1>5, <3>1 DEF PublishedBefore
    <3> QED
      BY <1>0, <2>0, <2>2, <3>2 DEF Put, CacheTypeOK
  <2> QED
    BY <2>1, <2>2
<1>6. Asked(bundle)'
  BY <1>0 DEF Asked, Started
<1>7. CASE next < Len(FilesOf[bundle])
  <2>1. next' = next + 1 /\ step' = step /\ bundle' = bundle
    BY <1>7 DEF Advance
  <2>2. next' <= Len(FilesOf[bundle'])
    BY <1>0, <1>7, <2>1
  <2>3. PublishedBefore(bundle, next)'
    BY <1>5, <2>1 DEF PublishedBefore
  <2> QED
    BY <1>2, <1>3, <1>4, <1>6, <2>1, <2>2, <2>3
    DEF IInv, InstallingSound, DownClean, NextInRange
<1>8. CASE ~(next < Len(FilesOf[bundle]))
  <2>1. next = Len(FilesOf[bundle]) /\ step' = "truncating" /\ bundle' = bundle
    BY <1>0, <1>8 DEF Advance
  <2>2. AsPinned(bundle, disk)'
    <3>1. \A g \in Checked(bundle) :
            \E i \in DOMAIN FilesOf[bundle] : i < next + 1 /\ g = FilesOf[bundle][i]
      BY <1>0, <2>1, ManifestFacts
    <3>2. \A g \in Checked(bundle) : disk'[g] = Wanted(release, bundle, g)
      BY <1>5, <3>1
    <3> QED
      BY <2>1, <3>2 DEF AsPinned
  <2> QED
    BY <1>2, <1>3, <1>4, <1>6, <2>1, <2>2
    DEF IInv, InstallingSound, DownClean, NextInRange
<1> QED
  BY <1>7, <1>8

LEMMA FetchKeeps ==
  ASSUME Pinning, IInv, CacheTypeOK', Fetch
  PROVE  IInv'
<1> DEFINE f == FilesOf[bundle][next]
<1>0. /\ bundle \in Bundles /\ bundle \notin Staged /\ next \in 1 .. Len(FilesOf[bundle])
      /\ PublishedBefore(bundle, next)
  BY ManifestFacts DEF IInv, InstallingSound, CacheTypeOK, Fetch
<1>1. CASE next > 1 /\ disk[f] # Absent
  <2>1. disk' = disk
    BY <1>1 DEF Fetch
  <2>2. ASSUME f \in Checked(bundle)
        PROVE  disk[f] = Wanted(release, bundle, f)
    <3>1. f = FilesOf[bundle][1] /\ 1 \in DOMAIN FilesOf[bundle]
      BY <1>0, <2>2, ManifestFacts DEF Checked
    <3> QED
      BY <1>0, <1>1, <2>2, <3>1 DEF PublishedBefore
  <2> QED
    BY <2>1, <2>2, PlacingKeeps DEF Fetch
<1>2. CASE ~(next > 1 /\ disk[f] # Absent)
  <2>1. Put(f)
    BY <1>2 DEF Fetch
  <2> QED
    BY <2>1, PlacingKeeps DEF Fetch
<1> QED
  BY <1>1, <1>2

LEMMA MarkingKeeps ==
  ASSUME IInv, CacheTypeOK', Truncate \/ Mark \/ MarkLost
  PROVE  IInv'
<1>1. /\ UNCHANGED <<release, disk, downloads, serving, bundle, next, ensured>>
      /\ step \in {"truncating", "marking"} /\ step' \in {"marking", "recording"}
      /\ \/ marker' = marker
         \/ marker' = [marker EXCEPT ![bundle] = Empty]
         \/ marker' = [marker EXCEPT ![bundle] = Primary(release, bundle)]
  BY DEF Truncate, Mark, MarkLost
<1>2. AsPinned(bundle, disk) /\ Asked(bundle) /\ bundle \in Bundles /\ release \in Releases
  BY <1>1 DEF IInv, InstallingSound, CacheTypeOK
<1>3. Vouches(marker)'
  <2> SUFFICES ASSUME NEW b \in Bundles, marker'[b] = Primary(release, b)
               PROVE  AsPinned(b, disk)
    BY <1>1 DEF Vouches, AsPinned
  <2>1. CASE b = bundle
    BY <1>2, <2>1
  <2>2. CASE b # bundle
    <3>1. marker[b] = Primary(release, b)
      BY <1>1, <2>2 DEF IInv, CacheTypeOK
    <3> QED
      BY <3>1 DEF IInv, Vouches
  <2> QED
    BY <2>1, <2>2
<1>4. Past(marker)'
  <2> SUFFICES ASSUME NEW b \in Bundles, marker'[b] \in Sources
               PROVE  \E q \in 1 .. release : marker'[b] = Primary(q, b)
    BY <1>1 DEF Past
  <2>1. marker'[b] = marker[b] \/ marker'[b] = Empty \/ marker'[b] = Primary(release, b)
    BY <1>1 DEF IInv, CacheTypeOK
  <2>2. release \in 1 .. release
    BY <1>2 DEF Releases
  <2> QED
    BY <2>1, <2>2, CacheAssumption DEF IInv, Past
<1>5. Vouches(downloads)' /\ Past(downloads)' /\ EnsuredPinned' /\ ServesPinned'
  BY <1>1 DEF IInv, Vouches, Past, EnsuredPinned, ServesPinned, AsPinned
<1>6. AsPinned(bundle, disk)' /\ Asked(bundle)'
  BY <1>1, <1>2 DEF AsPinned, Asked, Started
<1> QED
  BY <1>1, <1>3, <1>4, <1>5, <1>6 DEF IInv, InstallingSound, DownClean, NextInRange

LEMMA RecordKeeps ==
  ASSUME IInv, CacheTypeOK', Record
  PROVE  IInv'
<1>1. AsPinned(bundle, disk) /\ Asked(bundle) /\ bundle \in Bundles /\ release \in Releases
  BY DEF IInv, InstallingSound, CacheTypeOK, Record
<1>2. EnsuredPinned' /\ ServesPinned'
  BY <1>1, ReturnSound DEF IInv, Record
<1>3. Vouches(downloads)'
  <2> SUFFICES ASSUME NEW b \in Bundles, downloads'[b] = Primary(release, b)
               PROVE  AsPinned(b, disk)
    BY DEF Vouches, AsPinned, Record
  <2>1. CASE b = bundle
    BY <1>1, <2>1
  <2>2. CASE b # bundle
    <3>1. downloads[b] = Primary(release, b)
      BY <2>2 DEF IInv, CacheTypeOK, Record
    <3> QED
      BY <3>1 DEF IInv, Vouches
  <2> QED
    BY <2>1, <2>2
<1>4. Past(downloads)'
  <2> SUFFICES ASSUME NEW b \in Bundles, downloads'[b] \in Sources
               PROVE  \E q \in 1 .. release : downloads'[b] = Primary(q, b)
    BY DEF Past, Record
  <2>1. downloads'[b] = downloads[b] \/ downloads'[b] = Primary(release, b)
    BY DEF IInv, CacheTypeOK, Record
  <2>2. release \in 1 .. release
    BY <1>1 DEF Releases
  <2> QED
    BY <2>1, <2>2 DEF IInv, Past
<1>5. Vouches(marker)' /\ Past(marker)'
  BY DEF IInv, Record, Vouches, Past, AsPinned
<1>6. step' = "idle"
  BY DEF Record, Return
<1> QED
  BY <1>2, <1>3, <1>4, <1>5, <1>6 DEF IInv, InstallingSound, DownClean, NextInRange

\* Steps of the server that leave the cache alone.
LEMMA RestKeeps ==
  ASSUME IInv, CacheTypeOK', Fail \/ Stop \/ Start \/ (\E b \in Bundles : Evict(b))
  PROVE  IInv'
<1>1. UNCHANGED <<release, disk, marker, downloads, bundle, next>>
  BY DEF Fail, Stop, Start, Evict
<1>2. Vouches(marker)' /\ Past(marker)' /\ Vouches(downloads)' /\ Past(downloads)'
  BY <1>1 DEF IInv, Vouches, Past, AsPinned
<1>3. EnsuredPinned'
  BY <1>1 DEF IInv, EnsuredPinned, AsPinned, Fail, Stop, Start, Evict
<1>4. ServesPinned'
  <2>1. \A b \in Bundles : serving'[b] = serving[b] \/ serving'[b] = Absent
    BY DEF IInv, CacheTypeOK, Fail, Stop, Start, Evict
  <2> QED
    BY <1>1, <2>1 DEF IInv, ServesPinned, AsPinned
<1>5. step' \in {"idle", "halted", "down"}
  BY DEF Fail, Throw, Stop, Start, Evict
<1>6. DownClean'
  BY DEF DownClean, Fail, Throw, Stop, Start, Evict
<1> QED
  BY <1>2, <1>3, <1>4, <1>5, <1>6 DEF IInv, InstallingSound, NextInRange

\* What a marker or a record of the next release vouches for is on the disk: it
\* was written by an earlier one for the same contents, and none since wanted
\* others, so nothing was put over them.
LEMMA UpgradeVouches ==
  ASSUME Pinning, CacheTypeOK, Upgrade, NEW held, Past(held), Vouches(held),
         \A b \in Bundles : held[b] \in Sources \cup {Absent, Empty},
         NEW b \in Bundles, held[b] = Primary(release + 1, b)
  PROVE  \A f \in Checked(b) : disk[f] = Wanted(release + 1, b, f)
<1>1. release \in Releases /\ release + 1 \in Releases /\ release \in Nat
  BY CacheAssumption DEF CacheTypeOK, Upgrade, Releases
<1>2. held[b] \in Sources
  BY <1>1, PinFacts
<1>3. PICK q \in 1 .. release : held[b] = Primary(q, b)
  BY <1>2 DEF Past
<1>4. q \in Releases /\ q <= release /\ release <= release + 1
  BY <1>1, CacheAssumption DEF Releases
<1>5. Primary(release, b) = held[b]
  BY <1>1, <1>3, <1>4 DEF Pinning, NoReturn
<1>6. AsPinned(b, disk)
  BY <1>5 DEF Vouches
<1> QED
  BY <1>1, <1>5, <1>6 DEF Pinning, FirstTells, AsPinned

LEMMA UpgradeKeeps ==
  ASSUME Pinning, IInv, CacheTypeOK', Upgrade
  PROVE  IInv'
<1>1. /\ UNCHANGED <<disk, marker, downloads, serving, step, bundle, next, ensured>>
      /\ release' = release + 1 /\ step = "down" /\ release \in Nat
  BY DEF Upgrade, IInv, CacheTypeOK, Releases
<1>2. ASSUME NEW b \in Bundles
      PROVE  /\ marker[b] \in Sources \cup {Absent, Empty}
             /\ downloads[b] \in Sources \cup {Absent, Empty}
  BY DEF IInv, CacheTypeOK
<1>3. Vouches(marker)'
  BY <1>1, <1>2, UpgradeVouches DEF IInv, Vouches, AsPinned
<1>4. Vouches(downloads)'
  BY <1>1, <1>2, UpgradeVouches DEF IInv, Vouches, AsPinned
<1>5. \A q \in 1 .. release : q \in 1 .. release'
  BY <1>1
<1>6. Past(marker)' /\ Past(downloads)'
  BY <1>1, <1>5 DEF IInv, Past
<1>7. EnsuredPinned' /\ ServesPinned' /\ DownClean'
  BY <1>1 DEF IInv, DownClean, EnsuredPinned, ServesPinned
<1> QED
  BY <1>1, <1>3, <1>4, <1>6, <1>7 DEF IInv, InstallingSound, NextInRange

LEMMA InductiveStep == Pinning /\ IInv /\ [CacheNext]_cacheVars => IInv'
<1> SUFFICES ASSUME Pinning, IInv, [CacheNext]_cacheVars
             PROVE  IInv'
  OBVIOUS
<1>0. CacheTypeOK'
  BY StepTyped DEF IInv
<1>1. ASSUME NEW b \in Bundles, Find(b) \/ Begin(b) \/ Evict(b) PROVE IInv'
  BY <1>0, <1>1, FindKeeps, BeginKeeps, RestKeeps
<1>2. CASE Stage
  BY <1>0, <1>2, StageKeeps
<1>3. CASE Publish
  <2>1. step = "publishing" /\ Put(FilesOf[bundle][next]) /\ Advance
    BY <1>3 DEF Publish
  <2> QED
    BY <1>0, <1>3, <2>1, PlacingKeeps DEF Publish
<1>4. CASE Fetch
  BY <1>0, <1>4, FetchKeeps
<1>5. CASE Truncate \/ Mark \/ MarkLost
  BY <1>0, <1>5, MarkingKeeps
<1>6. CASE Record
  BY <1>0, <1>6, RecordKeeps
<1>7. CASE Fail \/ Stop \/ Start
  BY <1>0, <1>7, RestKeeps
<1>8. CASE Upgrade
  BY <1>0, <1>8, UpgradeKeeps
<1>9. CASE UNCHANGED cacheVars
  BY <1>9 DEF cacheVars, IInv, CacheTypeOK, Past, Vouches, EnsuredPinned, InstallingSound,
     ServesPinned, DownClean, NextInRange, AsPinned, PublishedBefore, Asked, Started
<1> QED
  BY <1>1, <1>2, <1>3, <1>4, <1>5, <1>6, <1>7, <1>8, <1>9 DEF CacheNext, Install, Fault

LEMMA InductiveInit == CacheInit => IInv
<1> SUFFICES ASSUME CacheInit
             PROVE  IInv
  OBVIOUS
<1>1. CacheTypeOK
  BY CacheAssumption DEF CacheInit, CacheTypeOK, Steps, Releases
<1>2. \A b \in Bundles : marker[b] \notin Sources /\ downloads[b] \notin Sources
  BY CacheAssumption DEF CacheInit
<1>3. \A b \in Bundles : Primary(release, b) \in Sources
  BY <1>1, PinFacts DEF CacheTypeOK
<1>4. Past(marker) /\ Past(downloads) /\ Vouches(marker) /\ Vouches(downloads)
  BY <1>2, <1>3 DEF Past, Vouches
<1>5. EnsuredPinned /\ ServesPinned /\ DownClean /\ NextInRange /\ InstallingSound
  BY DEF CacheInit, EnsuredPinned, ServesPinned, DownClean, NextInRange, InstallingSound
<1> QED
  BY <1>1, <1>4, <1>5 DEF IInv

\* Whatever installations were cut off and whatever releases came since, what
\* counts as complete, what a worker was started on, what prewarm went past and
\* what runtime.json records all have the contents the manifests pin, provided
\* that the pins are as Pinning says.
THEOREM CacheSafe ==
  ASSUME Pinning
  PROVE  CacheSpec => [](InstalledIsPinned /\ ServesPinned /\ ReadyIsInstalled /\ RecordIsHonest)
<1>1. IInv => InstalledIsPinned /\ ServesPinned /\ ReadyIsInstalled /\ RecordIsHonest
  <2> SUFFICES ASSUME IInv
               PROVE  InstalledIsPinned /\ ServesPinned /\ ReadyIsInstalled /\ RecordIsHonest
    OBVIOUS
  <2>1. InstalledIsPinned
    BY CompleteSound DEF InstalledIsPinned
  <2>2. ReadyIsInstalled
    BY CacheAssumption DEF IInv, EnsuredPinned, ReadyIsInstalled, Started
  <2> QED
    BY <2>1, <2>2 DEF IInv, Vouches, RecordIsHonest
<1> QED
  BY <1>1, InductiveInit, InductiveStep, PTL DEF CacheSpec

\* Whatever was cut off before, a worker that was started was started on files
\* with the contents its manifest pins.
COROLLARY ServedIsPinned ==
  ASSUME Pinning
  PROVE  CacheSpec => []ServesPinned
BY CacheSafe, PTL

\* What prewarm went past is complete: ready_ is not set over an artifact that
\* is missing or cut off.
COROLLARY ReadyMeansInstalled ==
  ASSUME Pinning
  PROVE  CacheSpec => []ReadyIsInstalled
BY CacheSafe, PTL

\* What runtime.json records of a bundle is what the disk holds.
COROLLARY RecordsAreHonest ==
  ASSUME Pinning
  PROVE  CacheSpec => []RecordIsHonest
BY CacheSafe, PTL

-----------------------------------------------------------------------------
(* The inventory's test and the server's                                   *)

\* The first n files of b are on the disk.
PresentUpTo(b, n) == \A i \in 1 .. Len(FilesOf[b]) : i <= n => disk[FilesOf[b][i]] # Absent
Present(b) == PresentUpTo(b, Len(FilesOf[b]))

\* No pin has to mean anything for this: a source in a marker, and every stage of
\* an installation, says which files exist.
Marked ==
  /\ CacheTypeOK
  /\ \A b \in Bundles : marker[b] \in Sources => Present(b)
  /\ step = "staging" => next = 1
  /\ step \in {"publishing", "fetching"} =>
       next <= Len(FilesOf[bundle]) /\ PresentUpTo(bundle, next - 1)
  /\ step \in {"truncating", "marking", "recording"} => Present(bundle)

\* Nothing takes a file away.
LEMMA FilesStay ==
  ASSUME CacheTypeOK, \A f \in Files : disk[f] # Absent => disk'[f] # Absent, NEW b \in Bundles, NEW n
  PROVE  PresentUpTo(b, n) => PresentUpTo(b, n)'
BY ManifestFacts DEF PresentUpTo

LEMMA MarkedStep ==
  ASSUME Marked, [CacheNext]_cacheVars
  PROVE  Marked'
<1>0. CacheTypeOK /\ CacheTypeOK' /\ bundle \in Bundles
  BY StepTyped DEF Marked, CacheTypeOK
<1>1. CASE disk' = disk /\ marker' = marker /\ next' = next /\ bundle' = bundle
           /\ step' \in {"down", "halted", "idle"}
  BY <1>0, <1>1 DEF Marked, Present, PresentUpTo
<1>2. CASE UNCHANGED cacheVars
  BY <1>0, <1>2 DEF cacheVars, Marked, Present, PresentUpTo
<1>3. ASSUME NEW b \in Bundles, Begin(b)
      PROVE  Marked'
  BY <1>0, <1>3, ManifestFacts DEF Begin, Marked, Present, PresentUpTo
<1>4. CASE Stage
  BY <1>0, <1>4, ManifestFacts DEF Stage, Marked, Present, PresentUpTo
<1>5. CASE Publish \/ Fetch
  <2> DEFINE f == FilesOf[bundle][next]
  <2>1. /\ next \in 1 .. Len(FilesOf[bundle]) /\ Len(FilesOf[bundle]) \in Nat
        /\ PresentUpTo(bundle, next - 1) /\ f \in Files
        /\ \A g \in Files : Wanted(release, bundle, g) # Absent
    BY <1>0, <1>5, ManifestFacts, PinFacts, CacheAssumption
       DEF Publish, Fetch, Marked, CacheTypeOK
  <2>2. disk'[f] # Absent /\ \A g \in Files : disk[g] # Absent => disk'[g] # Absent
    BY <1>0, <1>5, <2>1 DEF Publish, Fetch, Put, CacheTypeOK
  <2>3. marker' = marker /\ bundle' = bundle /\ Advance
    BY <1>5 DEF Publish, Fetch
  <2>4. \A b \in Bundles : marker'[b] \in Sources => Present(b)'
    BY <1>0, <2>2, <2>3, FilesStay DEF Marked, Present
  <2>5. \A i \in 1 .. Len(FilesOf[bundle]) : i <= next => disk'[FilesOf[bundle][i]] # Absent
    BY <2>1, <2>2, ManifestFacts, <1>0 DEF PresentUpTo
  <2> QED
    BY <1>0, <1>5, <2>1, <2>3, <2>4, <2>5
       DEF Marked, Advance, Publish, Fetch, PresentUpTo, Present
<1>6. CASE Truncate
  BY <1>0, <1>6, CacheAssumption DEF Truncate, Marked, Present, PresentUpTo, CacheTypeOK
<1>7. CASE Mark \/ MarkLost
  BY <1>0, <1>7 DEF Mark, MarkLost, Marked, Present, PresentUpTo, CacheTypeOK
<1>8. ASSUME NEW b \in Bundles, Find(b) \/ Evict(b)
      PROVE  Marked'
  BY <1>1, <1>8 DEF Find, Return, Evict
<1>9. CASE Record \/ Fail \/ Stop \/ Start
  BY <1>1, <1>9 DEF Record, Return, Fail, Throw, Stop, Start
<1>10. CASE Upgrade
  BY <1>1, <1>10 DEF Upgrade
<1> QED
  BY <1>2, <1>3, <1>4, <1>5, <1>6, <1>7, <1>8, <1>9, <1>10 DEF CacheNext, Install, Fault

\* What the terminal interface and the workload report call cached is what the
\* server starts without a download, although the inventory asks for every file
\* of a pair and ensure_artifact for the weights only: whatever was cut off, a
\* marker with a source in it is written after all of them.
THEOREM InventoryIsRight == CacheSpec => []InventoryAgrees
<1>1. CacheInit => Marked
  <2>1. CacheInit => CacheTypeOK
    BY CacheAssumption DEF CacheInit, CacheTypeOK, Steps, Releases
  <2> QED
    BY <2>1, CacheAssumption DEF CacheInit, Marked
<1>2. Marked /\ [CacheNext]_cacheVars => Marked'
  BY MarkedStep
<1>3. Marked => InventoryAgrees
  <2> SUFFICES ASSUME Marked, NEW b \in Bundles
               PROVE  Complete(b) <=> Cached(b)
    BY DEF InventoryAgrees
  <2>1. Primary(release, b) \in Sources
    BY PinFacts DEF Marked, CacheTypeOK
  <2>2. marker[b] = Primary(release, b) => \A f \in Range(FilesOf[b]) : disk[f] # Absent
    BY <2>1, ManifestFacts DEF Marked, Present, PresentUpTo, Range
  <2>3. Checked(b) \subseteq Range(FilesOf[b])
    BY ManifestFacts
  <2> QED
    BY <2>2, <2>3 DEF Complete, Cached
<1> QED
  BY <1>1, <1>2, <1>3, PTL DEF CacheSpec

=============================================================================
