------------------------------- MODULE BlobGc -------------------------------
(***************************************************************************)
(* Blob garbage collection (blob_gc.py) running beside Blob publication    *)
(* (BlobStore._publish in blob.py) and the domain service that keeps the   *)
(* references.                                                             *)
(*                                                                         *)
(* A collector plans from one snapshot of the references, and later        *)
(* executes the plan with a second snapshot; between its stat of a         *)
(* candidate and the delete anything may happen.  A publisher stages its   *)
(* bytes, links them under their CAS key, or finds the key taken and       *)
(* verifies what is there; its caller records the returned reference some  *)
(* time later.  Storage operations are single steps here: LocalBackend     *)
(* shows that they may be taken so.                                        *)
(*                                                                         *)
(* An id is one CAS identity, a pair (profile, storage key).               *)
(***************************************************************************)
EXTENDS Integers, FiniteSets

CONSTANTS Ids,         \* identities of stored objects
          CasIds,      \* those whose key has the form _CAS_PATTERN
          Profiles,    \* storage profiles
          ProfileOf,   \* the profile of each id
          Publishers,  \* calls that publish a Blob
          Collectors,  \* users of a BlobGarbageCollector
          Grace,       \* older_than, in ticks
          MaxTime,     \* bound on the clock
          Absent       \* the mtime of an object that is not there

ASSUME IdsAssumption == CasIds \subseteq Ids /\ ProfileOf \in [Ids -> Profiles]

(* plan refuses older_than <= 0 *)
ASSUME GraceAssumption == Grace \in Nat \ {0}

ASSUME TimeAssumption == MaxTime \in Nat /\ Absent \notin Int

VARIABLES now,      \* the wall clock
          mtime,    \* last_modified of each stored object, or Absent
          sound,    \* does the object's content have its key's digest?
          prefix,   \* profiles whose blob-domains directory exists
          live,     \* references the domain service holds
          pub,      \* where each publisher is
          want,     \* the CAS identity its content maps to
          stamp,    \* when it wrote its temporary file
          fresh,    \* did it link its own file?
          gc,       \* where each collector is
          refs,     \* the snapshot of references a collector was given
          clock,    \* a collector's "now"
          bound,    \* profiles a plan has yet to walk, or execute could bind
          todo,     \* objects or candidates a collector has yet to look at
          planned,  \* the plan: mtime of each candidate, Absent for others
          cur,      \* the candidate that passed every check, or Absent
          outcome,  \* what execute reports of each candidate
          promised, \* history: references recorded soon after a fresh write
          settled,  \* history: references recorded while nobody executed
          shared    \* history: objects two collectors were both about to delete

(***************************************************************************)
(* An operator X_Y placed before an operator X is a wrong version of X, a  *)
(* mistake this code could contain; no specification uses it.  Replacing X *)
(* by it must break the property PROJECT.json names.                       *)
(***************************************************************************)

storeVars   == <<mtime, sound, prefix>>
pubVars     == <<pub, want, stamp, fresh>>
gcVars      == <<gc, refs, clock, bound, todo, planned, cur, outcome>>
historyVars == <<promised, settled, shared>>

vars == <<now, storeVars, live, pubVars, gcVars, historyVars>>

Times == 0..MaxTime

PubPlaces == {"idle", "stage", "link", "linked", "verify", "returned",
              "recorded", "failed"}

GcPlaces == {"idle", "collected", "planning", "planned", "refreshed",
             "executing", "deleting", "done", "raised", "dead"}

(* From the second reference snapshot to the end of execute. *)
Executing == {"refreshed", "executing", "deleting"}

Outcomes == {"none", "deleted", "absent", "skipped", "failed"}

TypeOK ==
    /\ now \in Times
    /\ mtime \in [Ids -> Times \cup {Absent}]
    /\ sound \in [Ids -> BOOLEAN]
    /\ prefix \subseteq Profiles
    /\ live \subseteq Ids
    /\ pub \in [Publishers -> PubPlaces]
    /\ want \in [Publishers -> CasIds]
    /\ stamp \in [Publishers -> Times]
    /\ fresh \in [Publishers -> BOOLEAN]
    /\ gc \in [Collectors -> GcPlaces]
    /\ refs \in [Collectors -> SUBSET Ids]
    /\ clock \in [Collectors -> Times]
    /\ bound \in [Collectors -> SUBSET Profiles]
    /\ todo \in [Collectors -> SUBSET Ids]
    /\ planned \in [Collectors -> [Ids -> Times \cup {Absent}]]
    /\ cur \in [Collectors -> Ids \cup {Absent}]
    /\ outcome \in [Collectors -> [Ids -> Outcomes]]
    /\ promised \subseteq Ids
    /\ settled \subseteq Ids
    /\ shared \subseteq Ids

Present(i) == mtime[i] # Absent

(* Some objects were stored at time 0: live Blobs, orphans, objects that   *)
(* are no Blobs, and Blobs whose bytes were damaged or put there by hand.  *)
Init ==
    /\ now = 0
    /\ mtime \in [Ids -> {0, Absent}]
    /\ sound \in {s \in [Ids -> BOOLEAN] : \A i \in Ids : Present(i) \/ s[i]}
    /\ prefix = {ProfileOf[i] : i \in {j \in Ids : Present(j)}}
    /\ live \in SUBSET {i \in CasIds : Present(i) /\ sound[i]}
    /\ pub = [p \in Publishers |-> "idle"]
    /\ want \in [Publishers -> CasIds]
    /\ stamp = [p \in Publishers |-> 0]
    /\ fresh = [p \in Publishers |-> FALSE]
    /\ gc = [g \in Collectors |-> "idle"]
    /\ refs = [g \in Collectors |-> {}]
    /\ clock = [g \in Collectors |-> 0]
    /\ bound = [g \in Collectors |-> {}]
    /\ todo = [g \in Collectors |-> {}]
    /\ planned = [g \in Collectors |-> [i \in Ids |-> Absent]]
    /\ cur = [g \in Collectors |-> Absent]
    /\ outcome = [g \in Collectors |-> [i \in Ids |-> "none"]]
    /\ promised = {}
    /\ settled = {}
    /\ shared = {}

Tick ==
    /\ now < MaxTime
    /\ now' = now + 1
    /\ UNCHANGED <<storeVars, live, pubVars, gcVars, historyVars>>

-----------------------------------------------------------------------------
(* Publication: BlobStore._publish through put_stream.                     *)

PubGoto(p, place) == pub' = [pub EXCEPT ![p] = place]

(* _ensure_absent; a taken key leads to _verify_existing. *)
CheckKey(p) ==
    /\ pub[p] = "idle"
    /\ PubGoto(p, IF Present(want[p]) THEN "verify" ELSE "stage")
    /\ UNCHANGED <<now, storeVars, live, want, stamp, fresh, gcVars, historyVars>>

(* mkdir of the parents, then the temporary file: the object's             *)
(* last_modified will be the time of this write.                           *)
Stage(p) ==
    /\ pub[p] = "stage"
    /\ prefix' = prefix \cup {ProfileOf[want[p]]}
    /\ stamp' = [stamp EXCEPT ![p] = now]
    /\ PubGoto(p, "link")
    /\ UNCHANGED <<now, mtime, sound, live, want, fresh, gcVars, historyVars>>

LinkBlob(p) ==
    /\ pub[p] = "link"
    /\ \/ /\ ~Present(want[p])
          /\ mtime' = [mtime EXCEPT ![want[p]] = stamp[p]]
          /\ sound' = [sound EXCEPT ![want[p]] = TRUE]
          /\ fresh' = [fresh EXCEPT ![p] = TRUE]
          /\ PubGoto(p, "linked")
       \/ /\ Present(want[p])
          /\ PubGoto(p, "verify")
          /\ UNCHANGED <<mtime, sound, fresh>>
    /\ UNCHANGED <<now, prefix, live, want, stamp, gcVars, historyVars>>

(* _describe fails if the new object is already gone. *)
DescribeBlob(p) ==
    /\ pub[p] = "linked"
    /\ PubGoto(p, IF Present(want[p]) THEN "returned" ELSE "failed")
    /\ UNCHANGED <<now, storeVars, live, want, stamp, fresh, gcVars, historyVars>>

SameContent_Trusted(i) == TRUE
SameContent(i) == sound[i]

(* _verify_existing reads the stored object; its mtime stays as it is.     *)
VerifyExisting(p) ==
    /\ pub[p] = "verify"
    /\ PubGoto(p, IF Present(want[p]) /\ SameContent(want[p])
                  THEN "returned" ELSE "failed")
    /\ UNCHANGED <<now, storeVars, live, want, stamp, fresh, gcVars, historyVars>>

(* An exception, or the death of the publishing process. *)
PublishFails(p) ==
    /\ pub[p] \in {"idle", "stage", "link", "linked", "verify", "returned"}
    /\ PubGoto(p, "failed")
    /\ UNCHANGED <<now, storeVars, live, want, stamp, fresh, gcVars, historyVars>>

Quiet == \A g \in Collectors : gc[g] \notin Executing

InGrace(t) == now - t < Grace

(* The caller persists the BlobRef that publish returned.  The history     *)
(* variables note how: within the grace period of a file of its own        *)
(* writing, or of an object that is there while no plan is executed.       *)
Record(p) ==
    /\ pub[p] = "returned"
    /\ PubGoto(p, "recorded")
    /\ live' = live \cup {want[p]}
    /\ promised' = IF fresh[p] /\ InGrace(stamp[p])
                   THEN promised \cup {want[p]} ELSE promised
    /\ settled' = IF Quiet /\ Present(want[p])
                  THEN settled \cup {want[p]} ELSE settled
    /\ UNCHANGED <<now, storeVars, want, stamp, fresh, gcVars, shared>>

(* The domain service drops its last reference to a Blob. *)
Forget(i) ==
    /\ i \in live
    /\ live' = live \ {i}
    /\ promised' = promised \ {i}
    /\ settled' = settled \ {i}
    /\ UNCHANGED <<now, storeVars, pubVars, gcVars, shared>>

-----------------------------------------------------------------------------
(* Planning: BlobGarbageCollector.plan                                     *)

GcGoto(g, place) == gc' = [gc EXCEPT ![g] = place]

CollectForPlan(g) ==
    /\ gc[g] = "idle"
    /\ refs' = [refs EXCEPT ![g] = live]
    /\ GcGoto(g, "collected")
    /\ UNCHANGED <<now, storeVars, live, pubVars, clock, bound, todo,
                   planned, cur, outcome, historyVars>>

(* _stores: whichever profiles can be bound; then now is read. *)
StartPlan(g) ==
    /\ gc[g] = "collected"
    /\ \E b \in SUBSET Profiles : bound' = [bound EXCEPT ![g] = b]
    /\ clock' = [clock EXCEPT ![g] = now]
    /\ GcGoto(g, "planning")
    /\ UNCHANGED <<now, storeVars, live, pubVars, refs, todo, planned, cur,
                   outcome, historyVars>>

(* _walk of the next profile.  It is a generator: the listing runs in the  *)
(* for statement, outside the try, so a profile without a blob-domains     *)
(* directory ends the plan with ObjectNotFoundError.                       *)
WalkProfile(g, r) ==
    /\ gc[g] = "planning"
    /\ todo[g] = {}
    /\ r \in bound[g]
    /\ bound' = [bound EXCEPT ![g] = @ \ {r}]
    /\ \/ /\ r \in prefix
          /\ todo' = [todo EXCEPT ![g] = {i \in Ids : ProfileOf[i] = r}]
          /\ UNCHANGED gc
       \/ /\ r \notin prefix
          /\ GcGoto(g, "raised")
          /\ UNCHANGED todo
    /\ UNCHANGED <<now, storeVars, live, pubVars, refs, clock, planned, cur,
                   outcome, historyVars>>

IsCas_Any(i) == TRUE
IsCas(i) == i \in CasIds

TooRecent_OffByOne(t, c) == c - t < Grace - 1
TooRecent(t, c) == c - t < Grace

IsCandidate(g, i) ==
    /\ Present(i)
    /\ IsCas(i)
    /\ i \notin refs[g]
    /\ ~TooRecent(mtime[i], clock[g])

(* One object of the walk: a candidate is remembered with its mtime. *)
VisitObject(g, i) ==
    /\ gc[g] = "planning"
    /\ i \in todo[g]
    /\ todo' = [todo EXCEPT ![g] = @ \ {i}]
    /\ planned' = IF IsCandidate(g, i)
                  THEN [planned EXCEPT ![g][i] = mtime[i]] ELSE planned
    /\ UNCHANGED <<now, storeVars, live, pubVars, gc, refs, clock, bound,
                   cur, outcome, historyVars>>

FinishPlan(g) ==
    /\ gc[g] = "planning"
    /\ bound[g] = {}
    /\ todo[g] = {}
    /\ GcGoto(g, "planned")
    /\ UNCHANGED <<now, storeVars, live, pubVars, refs, clock, bound, todo,
                   planned, cur, outcome, historyVars>>

-----------------------------------------------------------------------------
(* Deletion: BlobGarbageCollector.execute                                  *)

ExecuteRefs_OfPlan(g) == refs[g]
ExecuteRefs(g) == live

(* The caller takes the references again; a plan may be executed twice.    *)
CollectForExecute(g) ==
    /\ gc[g] \in {"planned", "done"}
    /\ refs' = [refs EXCEPT ![g] = ExecuteRefs(g)]
    /\ GcGoto(g, "refreshed")
    /\ UNCHANGED <<now, storeVars, live, pubVars, clock, bound, todo,
                   planned, cur, outcome, historyVars>>

Candidates(g) == {i \in Ids : planned[g][i] # Absent}

StartExecute(g) ==
    /\ gc[g] = "refreshed"
    /\ clock' = [clock EXCEPT ![g] = now]
    /\ todo' = [todo EXCEPT ![g] = Candidates(g)]
    /\ \E b \in SUBSET Profiles : bound' = [bound EXCEPT ![g] = b]
    /\ outcome' = [outcome EXCEPT ![g] = [i \in Ids |-> "none"]]
    /\ GcGoto(g, "executing")
    /\ UNCHANGED <<now, storeVars, live, pubVars, refs, planned, cur,
                   historyVars>>

(* What execute finds out about a candidate before it may delete it. *)
NowReferenced(g, i) == i \in refs[g]

ObjectChanged_Unchecked(g, i) == FALSE
ObjectChanged(g, i) == mtime[i] # planned[g][i]

(* now_referenced, profile_unavailable, object_changed, too_recent,        *)
(* invalid_cas_key                                                         *)
Skipped(g, i) ==
    \/ NowReferenced(g, i)
    \/ ProfileOf[i] \notin bound[g]
    \/ /\ Present(i)
       /\ \/ ObjectChanged(g, i)
          \/ TooRecent(mtime[i], clock[g])
          \/ ~IsCas(i)

Reported_NoCategory(o) == IF o = "failed" THEN "error" ELSE o

Reported_AbsentLost(o) == IF o = "absent" THEN "none" ELSE o

Reported(o) == o

Reachable(g, i) == ~NowReferenced(g, i) /\ ProfileOf[i] \in bound[g]

Remaining_KeepsFailed(g, i) ==
    IF outcome'[g][i] = "failed" THEN todo[g] ELSE todo[g] \ {i}
Remaining(g, i) == todo[g] \ {i}

(* A candidate that is not deleted.  stat may fail; and if the object      *)
(* vanishes inside stat, the bare FileNotFoundError counts as a failure,   *)
(* not as already absent.                                                  *)
PassOver(g, i) ==
    /\ gc[g] = "executing"
    /\ i \in todo[g]
    /\ \E o \in {"skipped", "absent", "failed"} :
          /\ o = "skipped" => Skipped(g, i)
          /\ o = "absent"  => Reachable(g, i) /\ ~Present(i)
          /\ o = "failed"  => Reachable(g, i)
          /\ outcome' = [outcome EXCEPT ![g][i] = Reported(o)]
    /\ todo' = [todo EXCEPT ![g] = Remaining(g, i)]
    /\ UNCHANGED <<now, storeVars, live, pubVars, gc, refs, clock, bound,
                   planned, cur, historyVars>>

(* Every check passed; the delete call is next.  The history variable      *)
(* notes whether another collector is between the same two lines, for the  *)
(* same object.                                                            *)
Approve(g, i) ==
    /\ gc[g] = "executing"
    /\ i \in todo[g]
    /\ Present(i)
    /\ ~Skipped(g, i)
    /\ cur' = [cur EXCEPT ![g] = i]
    /\ GcGoto(g, "deleting")
    /\ shared' = IF \E h \in Collectors : gc[h] = "deleting" /\ cur[h] = i
                 THEN shared \cup {i} ELSE shared
    /\ UNCHANGED <<now, storeVars, live, pubVars, refs, clock, bound, todo,
                   planned, outcome, promised, settled>>

(* store.delete: it removes whatever object has the key by now.            *)
Delete(g) ==
    /\ gc[g] = "deleting"
    /\ \E o \in {"deleted", "absent", "failed"} :
          /\ \/ /\ o = "deleted"
                /\ Present(cur[g])
                /\ mtime' = [mtime EXCEPT ![cur[g]] = Absent]
             \/ /\ o = "absent"
                /\ ~Present(cur[g])
                /\ UNCHANGED mtime
             \/ /\ o = "failed"
                /\ UNCHANGED mtime
          /\ outcome' = [outcome EXCEPT ![g][cur[g]] = Reported(o)]
    /\ todo' = [todo EXCEPT ![g] = Remaining(g, cur[g])]
    /\ cur' = [cur EXCEPT ![g] = Absent]
    /\ GcGoto(g, "executing")
    /\ UNCHANGED <<now, sound, prefix, live, pubVars, refs, clock, bound,
                   planned, historyVars>>

FinishExecute(g) ==
    /\ gc[g] = "executing"
    /\ todo[g] = {}
    /\ GcGoto(g, "done")
    /\ UNCHANGED <<now, storeVars, live, pubVars, refs, clock, bound, todo,
                   planned, cur, outcome, historyVars>>

(* The collecting process dies, or an exception leaves plan or execute. *)
Die(g) ==
    /\ gc[g] \in {"planning", "executing", "deleting"}
    /\ GcGoto(g, "dead")
    /\ UNCHANGED <<now, storeVars, live, pubVars, refs, clock, bound, todo,
                   planned, cur, outcome, historyVars>>

-----------------------------------------------------------------------------
Publish(p) ==
    \/ CheckKey(p) \/ Stage(p) \/ LinkBlob(p) \/ DescribeBlob(p)
    \/ VerifyExisting(p) \/ PublishFails(p) \/ Record(p)

Plan(g) ==
    \/ \E r \in Profiles : WalkProfile(g, r)
    \/ \E i \in Ids : VisitObject(g, i)
    \/ FinishPlan(g)

Execute(g) ==
    \/ \E i \in Ids : PassOver(g, i) \/ Approve(g, i)
    \/ Delete(g)
    \/ FinishExecute(g)

Next ==
    \/ Tick
    \/ \E p \in Publishers : Publish(p)
    \/ \E i \in Ids : Forget(i)
    \/ \E g \in Collectors :
          \/ CollectForPlan(g) \/ StartPlan(g) \/ Plan(g)
          \/ CollectForExecute(g) \/ StartExecute(g) \/ Execute(g)
          \/ Die(g)

Spec == Init /\ [][Next]_vars

(* The loop of execute keeps running once it is entered: no call in it     *)
(* blocks, and a failing one ends with an exception.                       *)
FairSpec == Spec /\ \A g \in Collectors : WF_vars(Execute(g))

-----------------------------------------------------------------------------
(* A reference that was recorded while no plan was being executed, for an  *)
(* object that was there, keeps resolving until it is dropped: whatever    *)
(* old plans are executed later, by any number of collectors, since        *)
(* execute looks at the references again.                                  *)
SettledRefsResolve == \A i \in settled : Present(i)

(* A reference recorded within the grace period of its own write keeps     *)
(* resolving, even if it is recorded in the middle of an execution, unless *)
(* two collectors were about to delete its object at one time: the second  *)
(* delete may hit the object that replaced the one it checked.             *)
FreshRefsResolve == \A i \in promised \ shared : Present(i)

Aged(i) == Present(i) /\ mtime'[i] = Absent => ~InGrace(mtime[i])

(* What a delete removes is older than the grace period at that moment,    *)
(* not only when the plan was made (concepts.md:68).                       *)
GraceProtects == [][\A i \in Ids : Aged(i)]_vars

(* With any number of collectors the grace period covers every object that *)
(* no two of them were about to delete at one time.                        *)
GraceProtectsUnshared == [][\A i \in Ids \ shared : Aged(i)]_vars

(* A live reference never stands for bytes that do not have its digest:    *)
(* publishing onto a damaged or foreign object is refused, not reused.     *)
RefsDenoteTheirDigest == \A i \in live : Present(i) => sound[i]

(* Objects whose key is not a CAS key are never removed, whatever plan.    *)
OnlyCasObjectsRemoved ==
    [][\A i \in Ids \ CasIds : mtime'[i] = mtime[i]]_vars

(* An execution that finished gave every candidate of the plan an outcome, *)
(* and nothing else: the counters of BlobGcResult add up.                  *)
EveryCandidateAccounted ==
    \A g \in Collectors : gc[g] = "done" =>
        {i \in Ids : outcome[g][i] # "none"} = Candidates(g)

(* A failing candidate does not hold up the others: once execute has begun *)
(* its loop it ends, however many stats and deletes fail.                  *)
ExecuteEnds ==
    \A g \in Collectors :
        gc[g] \in {"executing", "deleting"} ~> gc[g] \in {"done", "dead"}

(* What the documentation says, and the code does not keep.                *)

(* concepts.md:69: references are revalidated before deletion.             *)
LiveNeverRemoved ==
    [][\A i \in live : Present(i) => mtime'[i] # Absent]_vars

(* blob_gc.py:119-121: a profile that cannot be listed is skipped.         *)
UnlistableProfileSkipped == \A g \in Collectors : gc[g] # "raised"

=============================================================================
