# Verification of cognityx-storage

TLA+ models of `cognityx-storage`, their TLC configurations, and theorems
proved with TLAPS. The code is `src/src/cognityx_storage/`; file names below
are relative to it. Line numbers of every definition are in `PROJECT.json`.

Contents: [inventory](#inventory) · [hazards](#what-is-hard) ·
[modules](#modules) · [runs](#runs) · [fairness](#fairness) ·
[proofs](#proofs) · [findings](#findings) ·
[assumptions](#assumptions) · [not modelled](#not-modelled) · [plan](#plan)

## Inventory

The library is a stack. Everything is synchronous Python; concurrency comes
from threads and processes of its callers over one filesystem.

```text
 domain service (external): holds BlobRefs
   |  runtime.for_role / runtime.blobs        |  BlobGarbageCollector
   v                                          v
 StorageRuntime, ResolvedRoleStore  <-- StorageConfig, StorageBackendFactory
   |                 |
 BlobStore        StorageClient
   |                 |
   +--> StorageBackend protocol <-- LocalStorageBackend --> filesystem
```

| component | state it keeps | operations | correct when |
|---|---|---|---|
| `StorageBackend` (`backend.py`) | the objects, by key | put, open, stat, list, delete | an object appears whole and at once and is never replaced; an answer is true of some moment of the call, the size and the time in a description each of one of their own |
| `LocalStorageBackend` (`local.py`) | a directory tree; hidden temporary names beside the destinations | `put_stream`, `put_file`, `put_directory`, `open_reader`, `stat`, `exists`, `list`, `delete` | it implements the protocol although each operation is several system calls; it cleans up |
| `BlobStore`, `PreparedBlob` (`blob.py`, `cas.py`) | per handle: snapshot directory, digest, `_active`, `_published` | `prepare_file`, `prepare_stream`, `publish`, `close`, `put_*` | a reference stands for exactly the captured bytes; one publication per handle; the snapshot goes away |
| dedup domains and CAS keys (`cas.py`) | none | `resolve_dedup_domain`, `build_cas_key` | contents are shared exactly within the configured boundary |
| `BlobGarbageCollector` (`blob_gc.py`) | a plan, a result | `plan`, `execute` | nothing referenced, nothing young and nothing that is no Blob is deleted; each candidate is accounted for |
| `StorageRuntime`, `StorageRoleResolver`, `ResolvedRoleStore` (`runtime.py`), `factory.py` | configuration, provider registry, backend cache | `load`, `resolve`, `for_role`, `for_profile`, `blobs`, `locate`, `register` | a reference resolves through its recorded profile however routing changes |
| `StorageConfig` (`config.py`) | immutable records | `load`, `from_dict`, `validate`, `describe` | what cannot run is refused |
| `StorageClient` (`client.py`) | a prefix | scoped pass-through, `put_json_idempotent` | keys stay inside the scope |
| `capabilities.py`, `models.py`, `exceptions.py` | none | membership tests, records | - |

Interactions that matter:

- `PreparedBlob.publish` calls `BlobStore._publish`, which calls `put_file` of a
  backend, and `_verify_existing` (`open_reader`) when the key is taken.
- `BlobGarbageCollector` lists and deletes through the same backends, while
  publishers store and reuse. It is given the live references by its caller,
  once for `plan` and once for `execute`.
- The domain service records a `BlobRef` some time after `publish` returned it.
  Nothing locks this against collection.
- A runtime's configuration outlives no process; references and objects do.

### What is hard

`PROJECT.json` "hazards" lists each at its line, with the properties that cover
it. By group:

- *check, then use*: every operation of the local backend looks at a path and
  uses it in a later system call;
- *two looks, one description*: `_describe` takes size and time in two `stat` calls by
  name, which may meet two objects;
- *two writers, one key*: `os.link` decides files; `rename` decides trees, and it
  replaces an empty directory;
- *names that change what they mean*: a put beneath a tree's key finds its parent by
  name in every step, while trees are published, emptied and removed there;
- *several uses of the backend in one call*: `put_json_idempotent` and `locate`;
- *handles shared by threads*: a `PreparedBlob` has no lock;
- *failing clean-up*: in `put_stream`, `put_directory` and `PreparedBlob`, also
  after the operation itself had succeeded;
- *power failure*: only the bytes of `put_stream` are synced, no directory is;
- *stale snapshots*: collection compares with references and times taken earlier;
- *reuse does not refresh*: publishing bytes that are stored already leaves their
  `last_modified` as it was;
- *reconfiguration*: roles, fallbacks, namespaces, scopes, profile names and
  providers change between a write, a read and a collection.

## Modules

Built in this order, the most important behaviour first: what is stored, what
deletes it, what references it, where it is stored, what a client sees of it.

| module | models | built on |
|---|---|---|
| `ObjectStore` | the promise of the backend protocol, one atomic step per effect | - |
| `LocalBackend` | `put_stream`, `put_file`, `open_reader`, `stat`, `exists`, `list` and `delete` of one file, per system call | implements `ObjectStore` (refinement `Implements`) |
| `TreePromise` | what those three promise of the directory under a key, one step per effect | - |
| `DirectoryPublication` | `put_directory` and recursive `delete` of one tree and puts of files beneath its key, per system call | implements `TreePromise` (refinement `ActsAtomically`) |
| `BlobGc` | `plan` and `execute` beside publishers and the domain service | store operations atomic, as in `ObjectStore` |
| `BlobPromise` | what capture and `publish` promise: one content per handle, stored or found in one step | - |
| `BlobPublication` | capture and publication of `PreparedBlob`s, several callers each | store operations atomic; implements `BlobPromise` (refinement `PublishesAtomically`) |
| `StorageRouting` | configurations, role resolution, dedup domains, durable reads and the profile selection of collection | publication, planning, execution atomic |
| `ClientPromise` | what `put_json_idempotent`, `locate` and `delete` promise: calls on one register per key | - |
| `ClientCalls` | the same calls, use of the backend by use of the backend | `INSTANCE`s `ObjectStore`, implements `ClientPromise` (refinement `ActsAtomically`) |

So each layer is connected to the next by refinement: system calls implement the store
and the directory, publication that copies, stores and verifies implements one step that
stores a content, and client calls that use the store several times implement a register.

`MC<module>` holds the constants for TLC, `<module>Proofs` the theorems. In each
module an operator `X_Y` defined just before `X` is a mistake the code could
contain. No specification uses it: it documents which error which property
notices (`PROJECT.json` "mutants").

### State and actions

**LocalBackend.** `entry` and `temp` are the names in one directory: what each key
is linked to, and which puts have a `.name.*.tmp` file. A file (inode) is
identified by the put that wrote it, `copied` counts its chunks and `flushed` those
that an fsync has put on the disk for certain. Each call is a
process with a program counter `pc`. `put_stream` is `EnsureAbsent`, `Mkstemp`,
`CopyChunk`..., `Fsync`, `Link`, `UnlinkTemporary`, `DescribeSize`, `DescribeTime`;
`Link` refused is the `FileExistsError` branch; `Fault` is any other exception in any step;
`Discard` is the `except` clause, whose `unlink` may raise too. `ExistingPath` is
shared by `OpenFound` (`open_reader`), `MeasureFound` and `DateFound` (`stat`) and
`UnlinkFound` (`delete`). `list` is `ScanDirectory` and per name `MeasureChild` and
`DateChild`. `StatSize` and `StatTime` are the two `stat` calls of `_describe` (256 and
259), made by a put, `stat` and `list` alike: `sized` is the file whose size a call took
last, `described` the pairs (size of, time of) it has made; what a reader opened is in
`held`. (`is_dir` at 247 answers no for a file and for nothing, so it decides nothing
here.) `Crash` ends the process of a put in `Mortal`; a reader or a delete that dies just
takes no further step.

**ObjectStore.** `objects`, and a `status` per call. A put is `Publish` or `Refuse`
in one step, and `Confirm` is the answer, which an error may hide. `Observe` opens one
object. A description is two steps, `Measure` and `Date` (`MeasureStored` and `DateStored`
for a put, `MeasureChild` and `DateChild` for `list`), and each takes what has the key by
then. `LocalBackend` maps `entry` to `objects` and program counters to `status`.

**DirectoryPublication.** `at` is the tree under the key, identified by the call that
made it; `entries` is what is in each tree, `source` what a put copies, `temp` the
temporary directories. `put_directory` is `EnsureAbsent`, `Mkdtemp`, `RemoveReserved`
(the code gives up the directory it just reserved), `MakeTree`, `CopyFile`...,
`FinishCopy`, `EnsureStillAbsent`, `Replace`, `Describe`. A recursive delete is
`ExistingPath`, `OpenTree`, `UnlinkEntry`..., `RemoveDirectory`: the files are unlinked
through the open directory, the directory is removed by name. A put beneath the key is
`EnsureFileAbsent`, `MakeParent` (`mkdir` makes the tree if there is none),
`MkstempInside`, `LinkInside`, `UnlinkTemporary`, `DescribeFile`: each finds whatever
directory has the name by then, so the staging file may be elsewhere or gone.
`DiscardTemporary` is its clean-up, which looks by name as well.

**TreePromise.** `present` is the directory under the key, `visible` its files, `status`
what each call has done, `found` what a delete has yet to unlink. `Publish` and `AddFile`
put something there in one step, `Unlink` takes away what `Find` saw, `Refuse` and `Miss`
are answers and must be true when they are decided. `DirectoryPublication` maps `at` to
`present`, the files of that tree without staging names to `visible` and program counters
to `status`; every private copy, check and clean-up is a stutter.

**BlobGc.** An id is a CAS identity (profile, key); `mtime` is the object's
`last_modified` or `Absent`, `sound` says whether its bytes have its digest. A
publisher is `CheckKey`, `Stage` (which fixes the time stamp), `LinkBlob`,
`DescribeBlob` or `VerifyExisting`, and `Record`, the domain service's step. A
collector is `CollectForPlan`, `StartPlan`, `WalkProfile`, `VisitObject`,
`FinishPlan`, `CollectForExecute`, `StartExecute`, and per candidate `PassOver`, or
`Approve` and `Delete`. Skips, vanished objects and errors are outcomes of
`PassOver` and `Delete`; `Die` is a crash. `promised`, `settled` and `shared` (the objects
that two collectors were both about to delete) are history variables.

**BlobPublication.** `source` is rewritten chunk by chunk (`ChangeSource`) while a
handle copies it (`CopyAndHash`); `Prepared` fixes the digest. `HandleOf` says which
handle a caller uses; a handle has a `stage`, its callers a `pc` each. `publish` is
`BeginPublish` (the look at the flags), `OpenSnapshot`, `Put`, `VerifyExisting`,
`MarkPublished` (their setting), `ReturnRef`, or `RaiseFromPublish`; `Exit` is `close`
or the end of a with statement, which another caller may reach while the first is in
`publish`. `Close` may raise with the snapshot removed in part (`CleanupLeaves`).
`wins`, `overlapped` and `stuck` are history variables.

**BlobPromise.** `captured` is the content a handle stands for, `call` the publish call a
caller is in, and `Store` or `Reuse` its one effect, before `Return` gives the reference
out. `BlobPublication` maps `content` to `captured` and `pc` with `domain` to `call`
(`CallOf`): copying, closing and cleaning up are stutters, `VerifyExisting` is `Reuse`.

**StorageRouting.** A runtime is an accepted configuration and the providers its
factory has. `Load`, `Unload`, `Register`, `Publish`, `Plan`, `Execute`, `Drop`.
`Candidates`, `Resolved`, `DomainOf` and `BlobKey` translate the resolver and
`cas.py`; `MayShare` is the reuse table of `docs/blobs.md`, stated without domains.

**ClientCalls.** The backend is an instance of `ObjectStore`, whose readers are pairs of
a call and what it wants (`<<w, "stat">>`). Where a call is follows from the answers it
has had. `put_json_idempotent` is `PutBytes`, and if the key was taken `OpenExisting` and
`StatExisting`; `locate` is `CheckExists`, `ResolveLocalPath`, `StatLocated` (once
`exists` has answered and, with native paths, `resolve_local_path` too); `Delete`.
`StatExisting` and `StatLocated` are two steps each, the two looks of `stat`.
`PutAnswer` and `LocateAnswer` are
what the caller gets, `value` what a writer wants stored, `paths` whether the backend has
native paths. `ClientPromise` has a `register` per key and for each call an `answer`.

## Runs

Distinct states are TLC's count. Every call is one-shot and the clock is
bounded, so the systems stop and deadlock is not checked.

| run (cfg) | instance | shows | states |
|---|---|---|---|
| `local` | one key, two puts, of which one may die, a reader or stat, a listing, two deletes; faults anywhere | publication is conditional (`NoOverwrite`), a refusal had a winner (`ExistsJustified`), temporary files go (`StagingCleaned`), nobody sees a partial file (`CompleteObjects`), a power failure leaves whole files (`PowerFailureLeavesWhole`), an object is claimed by one delete (`OneDeletePerObject`), a description is of one object until a delete (`DescribesOne`), every call returns (`CallsReturn`), `ObjectStore` is implemented (`Implements`) | 816 384 |
| `directory` | one key, two puts of trees of 0 or 1 file, a put beneath the key, two recursive deletes | a visible tree is whole until a delete opens it (`TreesWhole`), a tree with files is not replaced or dropped (`FilledTreeStays`, `OnlyDeletesUnpublish`), a file put in it stays with it (`InnerFilesStay`) and leaves no staging file (`NothingLeftInside`), `TreePromise` is implemented (`ActsAtomically`) | 1 317 528 |
| `gc_race` | one Blob, two publishers, one collector, grace 2, clock to 4 | fresh references survive (`FreshRefsResolve`), nothing young goes (`GraceProtects`), references never stand for foreign bytes (`RefsDenoteTheirDigest`), `execute` ends (`ExecuteEnds`) | 779 633 |
| `gc_mixed` | a Blob and an object that is none, two profiles, two collectors, grace 1, clock to 1 | references recorded between executions outlive every old plan (`SettledRefsResolve`), the grace period protects what the two were not both about to delete (`GraceProtectsUnshared`, `FreshRefsResolve`), only CAS objects go (`OnlyCasObjectsRemoved`), results add up (`EveryCandidateAccounted`) | 2 724 456 |
| `blob` | one handle with two callers, a source of two binary chunks, two publish calls, a sound, damaged or missing object | references denote the capture (`RefsDenoteCapture`), only overlapping calls publish twice (`PublishedAtMostOnce`), snapshots go (`SnapshotDiscarded`), `BlobPromise` is implemented (`PublishesAtomically`) | 262 956 |
| `route` | five configurations (a fallback and a shared namespace, a moved role with other scopes, three broken), two profiles and roots, two contexts with coinciding names | references resolve through every reconfiguration and collection (`RefsResolve`), objects are shared exactly as the documented table says (`DedupBoundary`) | 679 014 |
| `client` | one key, three idempotent puts of two values, a `locate`, two deletes | callers agree on the stored value (`Agreement`), puts can be repeated (`Repeatable`), a `locate` stays with the object it found (`LocatesOne`), each call reports one moment of a register (`ActsAtomically`) | 696 185 |
| `gc_dedup_race` | one publisher, one collector | finding 1 | violation |
| `gc_two_grace` | one publisher, two collectors | finding 2 | violation |
| `gc_unlistable` | one profile | finding 3 | violation |
| `route_rename` | two names of one root | finding 4 | violation |
| `locate_raises` | one `locate`, one delete | finding 5 | violation |

`TypeOK` of each module is checked in `local`, `directory`, `gc_race`, `blob`, `route` and
`client`.

### Bounds, and why they are enough

- *Calls.* A race in this code is between one call's check and its use and at most
  one or two other calls: a winner and a delete of what it stored. Two puts and two
  deletes allow "refused by a file that is deleted at once", both deletes to find the
  same object, and a second object in between. In `client` three writers are the one
  that is refused, the one that refused it and the one whose object has taken its place
  when the refused one compares or calls `stat`.
- *Callers* 2 in `blob`, with two calls between them: they overlap, or one comes after
  the other and after whatever the other did or failed to do.
- *`Size`* (chunks): 1 in `LocalBackend`, where only whole or not whole matters; 2 in
  `BlobPublication`, so that a rewrite can fall between two reads.
- *`Mortal`* is one of the two puts in `local`: which one makes no difference, the two
  being alike. With both mortal the run takes longer and also finds no violation
  (1 212 360 distinct states). The theorems are for every set of puts that may die.
- *One key or tree.* Calls on different keys share only the directory. `list` is the
  one operation that reads several keys; it describes them one by one, each description
  of one name, so one key with two successive files shows what two keys would.
- *Files* 1, and the staging names of the puts beneath the key: a tree can be empty,
  hold either or both, and be partly emptied. The run was also made once with two files
  (7 923 161 distinct states, no violation), too long for every day.
- *Clock and grace* (`MaxTime`, `Grace`): grace 2 and clock 4 let an object become old
  enough to be planned, be republished, and grow old again; grace 1 is the boundary.
- *`MaxPublish`* 2: a retry after every kind of failed or successful publish. The run
  was also made with three calls (1 368 428 distinct states, no violation), before it had
  the refinement to check, which multiplies its time; that a third call changes nothing
  is proved, the bound being a parameter of every theorem.
- *`MaxRuntimes`, `MaxBlobs`, `MaxInstance`* bound how many runtimes are alive, how
  many references are held and objects stored per root, and how many random instance
  tokens are drawn. An action is one runtime's, runtimes share nothing but the objects,
  and `Load` and `Unload` may happen between any two actions: one at a time acts out what
  several do. `DedupBoundary` relates two references, so two suffice; that it holds for
  every scope and set of contexts is proved.
- *Symmetry* is used in `directory` (puts, deletes), `client` (writers, deletes, values)
  and `blob` (callers), over values no definition tells apart; these runs have no
  liveness property.

## Fairness

Only two properties need it. The code uses no locks and no waiting, so:

- `LocalBackend`: weak fairness of all calls' steps together: while some call can take a
  step, some call does. Which one is left open, so this asks less than a fair scheduler
  gives. Faults and crashes get no fairness, and a crashed call owes nothing
  (`CallsReturn`).
- `BlobGc`: weak fairness of a collector's steps inside the loop of `execute`
  (`ExecuteEnds`). Publishers, the clock, the domain service and the start of a plan
  get none.

## Proofs

All theorems are of `Spec`, for every value of the constants under the named
`ASSUME`s of the module (which TLC evaluates in each run). Each follows one pattern:
`Init => Inv`, `Inv /\ [Next]_vars => Inv'`, `Inv => property`, and PTL.

| theorem | for all | rests on |
|---|---|---|
| `LocalBackendProofs` `TypeCorrect`, `ObjectsComplete`, `PowerFailuresLeaveWhole`, `StagingAlwaysCleaned`, `RefusalsJustified`, `DescriptionsOfOne`, `NeverOverwrites` | keys, calls, sizes, puts that may die | `IInv` |
| `LocalBackendProofs` `ObjectsConserved` | the same, finitely many puts and deletes (`FinitelyMany`) | itself, with `TypeOK` |
| `LocalBackendProofs` `BackendImplementsStore` (`Spec => Implements`) | the same | `IInv`, and a case per action: each step is an `ObjectStore` step or a stutter |
| `ClientCallsProofs` `TypeCorrect`, `WritersAgree`, `PutsAreRepeatable`, `LocatesAgree` | keys, values, callers | `IInv` |
| `ClientCallsProofs` `CallsAreAtomic` (`Spec => ActsAtomically`) | the same | `IInv`, and a promise lemma per action |
| `DirectoryPublicationProofs` `TypeCorrect`, `TreesAreWhole`, `DeletesUnpublish`, `FilledTreesStay`, `InnerFilesAreKept`, `InnerPutsCleanUp` | files, puts, puts beneath, deletes | `IInv` |
| `DirectoryPublicationProofs` `DirectoryCallsAreAtomic` (`Spec => ActsAtomically`) | the same | `IInv`, and a promise lemma per kind of call |
| `BlobGcProofs` `TypeCorrect`, `OtherObjectsUntouched`, `ReferencesDenoteTheirDigest`, `SettledReferencesResolve`, `CandidatesAccounted` | ids, profiles, publishers, collectors, grace, clock | `CurIsCas`, `SoundInv`, `SettledInv`, `AccountInv` |
| `BlobGcProofs` `FreshReferencesResolve`, `GraceIsKept` | the same | `GraceInv` |
| `BlobGcProofs` `GraceIsKeptByOne` | the same, with at most one collector (`OneCollectorOnly`) | `GraceInv`, and that then nothing is ever shared |
| `BlobPublicationProofs` `TypeCorrect`, `ReferencesDenoteCapture`, `AtMostOncePublished`, `SnapshotsAreDiscarded` | handles, callers, sizes, domains, planted objects | `Safe`, `RefsInv`, `OnceInv`, `DiscardInv` |
| `BlobPublicationProofs` `PublicationIsAtomic` (`Spec => PublishesAtomically`) | the same | `Safe`, and the call of one caller at a time (`CallStep`) |
| `StorageRoutingProofs` `TypeCorrect`, `ReuseWithinBoundary` | configurations, contexts, scopes, bounds | `BoundaryInv` |
| `StorageRoutingProofs` `ReferencesResolve` | the same, if no two profiles share a root (`DistinctPlaces`) | `StoredInv` |

Why the strengthenings are needed:

- *LocalBackend `IInv`.* `CompleteObjects` speaks of files with a name; that a named
  file is whole follows only if a name comes from that file's own link
  (`EntryOwned`), the link only after the fsync, and the file is whole, on the disk too,
  from the fsync on (`WrittenWhole`). `StagingOwned` ties each temporary name to a put
  that has still to unlink it; `RefusalJustified` carries the winner of a race through
  the clean-up. For descriptions, what was linked keeps its key until a delete of that
  key succeeds (`LinkedStays`), and what a call measured or described was linked under the
  key it was asked for (`SeenLinked`, `MeasuredKey`, `DescribedKey`): so a second look
  that meets another file proves a delete. `OneDeletePerObject` is inductive with the
  types: a link adds one to both sides of the balance, an unlink moves one from the key to
  the deletes.
- *ClientCalls `IInv`.* The object under a key was published there (`Owned`), and stays,
  as does what a put was refused for, until a delete (`Kept`, `RefusedFor`); a read that
  answered holds one object that was published under its key (`HeldOne`), a `stat` takes
  its size and its time from such objects (`SizedOne`, `DescribedOne`), and a refused put,
  or a `locate` past its `exists`, that finds nothing proves a delete (`MissedDeleted`).
  For the refinement a
  refused put takes effect when it opens what it was refused for, and `locate` at the
  last look that tells it something: that the object is there, or is not, is true of that
  moment. The size `locate` reports is of the look before (`LocatesOne`).
- *DirectoryPublication `IInv`.* Only trees that were renamed, or made by a put beneath
  the key, are under the key or opened by a delete (`AtPublic`, `OpenedPublic`), so deletes
  never touch a private copy; a copied tree stays whole until it is opened
  (`WholeSinceCopy`); a tree that left the key is empty (`OnlyThereFilled`), so neither a
  rename nor an `rmdir` takes a file with it, and a staging file, or what a put linked, is
  never in a tree that is gone (`TempsStaged`, `LinksOnce`, `ExtraLinked`). For the
  refinement a rename is the publication, a refusal takes effect where it is decided
  although the answer may come later or be hidden, and `LinksOnce` says at which places an
  inner put has linked its file and at which it has not, since a fault after the link
  reads "failed" but the file is there.
- *BlobGc `SettledInv`.* A settled reference is in the snapshot of everybody who
  executes, and what is about to be deleted is not in its deleter's snapshot.
- *BlobGc `AccountInv`.* While a plan is executed each of its candidates is still to do,
  without an outcome, or done, with one (`Booked`); the one being deleted is to do.
- *BlobGc `GraceInv`.* What is planned was old when it was planned (`AgesPast`); what
  passed the checks is still that same file when it is deleted (`DeletingInv`), unless a
  second collector passed the checks of the same object before the delete of the first:
  `shared` collects those objects, and `SharedInv` says that an object outside it has one
  deleter at most. So a promised reference's file cannot be the planned one unless the
  second snapshot has the reference (`PromisedInv`). Finding 2 is exactly the excepted
  case: for objects in `shared` `DeletingInv` is false.
- *BlobPublication.* `Safe`: only a prepared handle is active, and its content is what
  it copied. `RefsInv`: a key somebody stored or verified under holds the bytes its
  digest stands for, or nothing. `OnceInv`: on a handle whose calls never overlapped at
  most one is between the look at the flags and their setting (`Alone`), only while
  nothing was published, and `_published` is set before anything can raise. `DiscardInv`
  follows `close` through every exit: a handle that was left or published is discarded, or
  some caller is in a call that will close it.
- *StorageRouting.* `BoundaryInv`: each key's domain was derived from the scope and
  context of its own reference, and each write of scope `none` has its own instance.
  `StoredInv`: a reference's object lies on the root of the profile it recorded.

Model-checked only: `CallsReturn` and `ExecuteEnds` (liveness under fairness), which is
beyond TLAPS with its SMT, Zenon and LS4 backends, like `ENABLED` and induction over data.
Every other property of a passing run is proved.

## Findings

1. `gc_dedup_race` / `LiveNeverRemoved`. A publisher reuses an old orphan; its
   reference is recorded after `execute` took its snapshot; the Blob is deleted
   (`blob_gc.py:181`). Reuse leaves `last_modified` as it was, so the grace period
   does not help. `docs/concepts.md:67-69` promises revalidation of references.
   `SettledRefsResolve` and `FreshRefsResolve` say which references are safe.
2. `gc_two_grace` / `GraceProtects`. Between a collector's `stat` (`blob_gc.py:192`)
   and its `delete` (205) a second collector deletes and a publisher stores the Blob
   again: an object younger than the grace period is deleted.
3. `gc_unlistable` / `UnlistableProfileSkipped`. `_walk` is a generator, so the `try`
   at `blob_gc.py:117-121` catches nothing; one bound profile without Blobs makes
   `plan` raise instead of skipping it.
4. `route_rename` / `RefsResolve`. A second profile name for one root makes live
   objects look unreferenced (`blob_gc.py:127`), and they are deleted.

5. `locate_raises` / `LocateAnswers`. `locate` treats an object that goes before `stat` as
   missing, but `resolve_local_path` (`runtime.py:376`) stands outside the `try`: an object
   deleted between it and `exists` makes `locate` raise.

Seen while modelling and not contradicted by a document, so without a run of their
own:

- `put_directory` replaces a tree that another put published without files
  (`local.py:172`), and the loser of a race over a tree with files gets a bare
  `OSError`, not `ObjectAlreadyExistsError`.
- `open_reader`, `stat`, `delete` and `list` raise a bare `FileNotFoundError` when the object
  goes between check and use; a put whose object is deleted before `_describe` raises
  although it published.
- `_describe` calls `stat` twice (`local.py:256`, `259`): when a delete and another put
  come in between, `stat`, one child of `list` or the answer of a put has the size of one
  object and the time of the next. `DescribesOne` says that a delete is needed for it.
- A put that fails after it made its parent leaves an empty directory (`local.py:105`),
  which `exists` and `list` report and `put_directory` refuses to replace.
- `put_directory` syncs nothing (`local.py:170`), so only files put by themselves are whole
  after a power failure.
- After a delete and another put, the `stat` at the end of `put_json_idempotent`
  (`client.py:74`) describes another value than the one that was compared.
- Two publish calls that overlap on one `PreparedBlob` can both publish
  (`blob.py:184`); `docs/blobs.md:93` says "The snapshot is published at most once", and
  nothing of threads, so this is not counted as a finding.
- `validate` accepts profile names with a dot, and `_parse_storage_uri`
  (`runtime.py:488`) refuses the URIs made of them.

## Assumptions

- SHA-256 and the random tokens do not collide; a digest is the bytes it stands for.
- The filesystem is POSIX: `link` fails on an existing name, `rename` replaces an
  empty directory and fails on one with entries, `rmdir` removes only empty ones,
  an open directory stays the same directory under another name.
- In `LocalBackend` keys lie in a directory that exists and are keys of files; trees and
  files beneath them are `DirectoryPublication`'s. Names from `mkstemp` and `mkdtemp` are
  not drawn twice.
- Crashes are of processes: what a system call did stays. What a power failure could
  leave of it is said by `PowerFailureLeavesWhole`, not acted out.
- An exception between `mkstemp` and the `try` (a keyboard interrupt) is ignored.
- `BlobGc` takes a `stat` and each object of a list as one look, at the moment of the
  time stamp. The size, which is looked at just before, decides nothing else there:
  collection compares it only together with the time, and what is stored under one CAS
  key has one size, unless it is damaged, and then a different size only adds a skip.
- Two threads in `PreparedBlob.close` take turns.
- Equal JSON values have equal bytes (`sort_keys`), and different ones different bytes.
- Resource contexts are external: their ids are not names of principals
  (`ContextsAssumption`).

## Not modelled

- Key syntax and path containment (`validate_storage_key`, `_path`): sequential string
  checks that the repository tests; keys are a set.
- Media types, sizes in listings, URIs, `materialize`, `native_path`: data of answers.
- The backend cache of `StorageRuntime`: two threads may build a backend each, but
  backends have no state and behave alike.
- `capabilities.py`, `describe`, warnings, redaction: reports that change nothing.
- Discovery and precedence of configuration files: I/O before anything runs.
- `models.py`, `exceptions.py`, `__init__.py`: no behaviour.
- External packages (`cognityx_resource`) and providers other than the filesystem.

## Plan

Done: the modules above with their runs and proofs; every property of a passing run that
is not liveness is a theorem. What is left, in this order:

1. Termination variants: for the loops of `put_stream`, `put_directory` and `execute`, an
   action property that a number falls with each step, which is the part of `CallsReturn`
   and `ExecuteEnds` that can be proved.
2. `BlobGc` as an implementation of a collector whose deletion of a Blob is one step.
3. A model of the disk: directory entries that are not durable, power failures as steps,
   and a restart that finds stale names; then which of the store's promises survive.
4. Trees of trees in `DirectoryPublication`, and parents that are made and removed
   several levels up.
5. `StorageConfig` precedence as an operator against a reference definition.
