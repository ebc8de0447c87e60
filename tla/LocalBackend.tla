---------------------------- MODULE LocalBackend ----------------------------
(***************************************************************************)
(* LocalStorageBackend (local.py), system call by system call.             *)
(*                                                                         *)
(* put_stream checks that the destination is free, writes a hidden         *)
(* temporary file beside it, fsyncs it, hard-links it to the destination   *)
(* and unlinks the temporary.  open_reader, stat, list and delete all      *)
(* check first and use the path afterwards.  Calls of any number of        *)
(* threads and processes interleave between system calls; an exception can *)
(* end any step of a put, and a process can die anywhere.                  *)
(*                                                                         *)
(* The keys are files of one directory that already exists.  A file        *)
(* (inode) is identified by the put call that wrote it.                    *)
(***************************************************************************)
EXTENDS Naturals, FiniteSets

CONSTANTS Keys, Puts, Opens, Lists, Deletes, NoFile,
          Size,     \* chunks in a source stream
          Mortal    \* puts whose process may die: Puts, or fewer as a bound

ASSUME CallsDisjoint ==
    /\ Puts \cap (Opens \cup Lists \cup Deletes) = {}
    /\ Opens \cap (Lists \cup Deletes) = {}
    /\ Lists \cap Deletes = {}

ASSUME NamesDistinct == Keys \cap Puts = {} /\ NoFile \notin Puts

ASSUME SizeIsNat == Size \in Nat

Keyed      == Puts \cup Opens \cup Deletes
Describers == Puts \cup Opens \cup Lists
Calls      == Keyed \cup Lists

(***************************************************************************)
(* An operator X_Y placed before an operator X is a wrong version of X, a  *)
(* mistake this code could contain; no specification uses it.  Replacing X *)
(* by it must break the property PROJECT.json names.                       *)
(***************************************************************************)

VARIABLES entry,    \* directory: the file each key is linked to, or NoFile
          temp,     \* directory: the puts whose temporary name is present
          copied,   \* chunks in each put's file
          flushed,  \* chunks of it that are on the disk for certain
          target,   \* the key of each call
          pc,       \* where each call is, or how it ended
          names,    \* the names a list call still has to describe
          child,    \* the name it is describing
          held,     \* the files a reader has opened
          sized,    \* the file whose size a call took last, or NoFile
          described, \* descriptions a call has made: <<size of, time of>>
          crashed   \* puts whose process died

files   == <<copied, flushed>>
listing == <<names, child>>
answers == <<held, sized, described>>

vars == <<entry, temp, files, target, pc, listing, answers, crashed>>

-----------------------------------------------------------------------------
(* Ends of a put whose clean-up raised: the temporary name is still there. *)
Littered == {"littered", "unreportedLittered"}
PutEnds  == {"created", "exists", "failed", "unreported"} \cup Littered
PutSteps == {"idle", "absent", "copying", "synced", "linked", "unlinked",
             "measured", "refused", "aborting", "faulted"}
(* Places a put can only reach after its os.link succeeded. *)
Linked   == {"linked", "faulted", "unlinked", "measured", "created",
             "unreported", "unreportedLittered"}
(* Places a put reaches with its temporary file complete. *)
Written  == Linked \cup {"synced"}
(* Places where the temporary name is still there. *)
Staging  == {"copying", "synced", "linked", "refused", "aborting", "faulted"}
              \cup Littered

OpenPlaces   == {"idle", "found", "measured", "opened", "described",
                 "missing", "vanished"}
ListPlaces   == {"idle", "scanned", "measured", "listed", "vanished"}
DeletePlaces == {"idle", "found", "deleted", "missing", "vanished"}

Ends == PutEnds \cup {"opened", "described", "listed", "deleted", "missing",
                      "vanished"}

Places == PutSteps \cup Ends \cup {"found", "scanned"}

Ended(c) == pc[c] \in Ends

TypeOK ==
    /\ entry \in [Keys -> Puts \cup {NoFile}]
    /\ temp \subseteq Puts
    /\ copied \in [Puts -> 0..Size]
    /\ flushed \in [Puts -> 0..Size]
    /\ target \in [Keyed -> Keys]
    /\ pc \in [Calls -> Places]
    /\ \A c \in Puts : pc[c] \in PutSteps \cup PutEnds
    /\ \A o \in Opens : pc[o] \in OpenPlaces
    /\ \A l \in Lists : pc[l] \in ListPlaces
    /\ \A d \in Deletes : pc[d] \in DeletePlaces
    /\ names \in [Lists -> SUBSET (Keys \cup Puts)]
    /\ child \in [Lists -> Keys \cup Puts \cup {NoFile}]
    /\ held \in [Opens -> SUBSET Puts]
    /\ sized \in [Describers -> Puts \cup {NoFile}]
    /\ \A c \in Describers : pc[c] = "measured" => sized[c] # NoFile
    /\ described \in [Describers -> SUBSET (Puts \X Puts)]
    /\ crashed \subseteq Puts

Init ==
    /\ entry = [k \in Keys |-> NoFile]
    /\ temp = {}
    /\ copied = [c \in Puts |-> 0]
    /\ flushed = [c \in Puts |-> 0]
    /\ target \in [Keyed -> Keys]
    /\ pc = [c \in Calls |-> "idle"]
    /\ names = [l \in Lists |-> {}]
    /\ child = [l \in Lists |-> NoFile]
    /\ held = [o \in Opens |-> {}]
    /\ sized = [c \in Describers |-> NoFile]
    /\ described = [c \in Describers |-> {}]
    /\ crashed = {}

-----------------------------------------------------------------------------
At(c, place) == pc[c] = place /\ c \notin crashed

Goto(c, place) == pc' = [pc EXCEPT ![c] = place]

(* path.exists(): only the destination is looked at, never a temporary. *)
Exists(k) == entry[k] # NoFile

Occupied_ByStaging(c) ==
    Exists(target[c]) \/ \E p \in temp : target[p] = target[c]
Occupied(c) == Exists(target[c])

(* _ensure_absent *)
EnsureAbsent(c) ==
    /\ At(c, "idle")
    /\ Goto(c, IF Occupied(c) THEN "exists" ELSE "absent")
    /\ UNCHANGED <<entry, temp, files, target, listing, answers, crashed>>

Mkstemp(c) ==
    /\ At(c, "absent")
    /\ temp' = temp \cup {c}
    /\ Goto(c, "copying")
    /\ UNCHANGED <<entry, files, target, listing, answers, crashed>>

MoreToCopy_OneTooMany(c) == copied[c] <= Size
MoreToCopy(c) == copied[c] < Size

CopyChunk(c) ==
    /\ At(c, "copying")
    /\ MoreToCopy(c)
    /\ copied' = [copied EXCEPT ![c] = @ + 1]
    /\ UNCHANGED <<entry, temp, flushed, target, pc, listing, answers,
                   crashed>>

SourceRead(c) == copied[c] = Size

(* What fsync leaves on the disk. *)
Synced_NeverCalled(c) == flushed[c]
Synced(c) == copied[c]

(* copyfileobj reached the end of the source; flush and fsync. *)
Fsync(c) ==
    /\ At(c, "copying")
    /\ SourceRead(c)
    /\ flushed' = [flushed EXCEPT ![c] = Synced(c)]
    /\ Goto(c, "synced")
    /\ UNCHANGED <<entry, temp, copied, target, listing, answers, crashed>>

(* os.link creates the destination only if the name is free. *)
CanLink_Replacing(c) == TRUE
CanLink(c) == ~Exists(target[c])

AfterRefusal_Retry == "synced"
AfterRefusal == "refused"

Link(c) ==
    /\ At(c, "synced")
    /\ \/ /\ CanLink(c)
          /\ entry' = [entry EXCEPT ![target[c]] = c]
          /\ Goto(c, "linked")
       \/ /\ ~CanLink(c)           \* FileExistsError
          /\ Goto(c, AfterRefusal)
          /\ UNCHANGED entry
    /\ UNCHANGED <<temp, files, target, listing, answers, crashed>>

UnlinkTemporary(c) ==
    /\ At(c, "linked")
    /\ temp' = temp \ {c}
    /\ Goto(c, "unlinked")
    /\ UNCHANGED <<entry, files, target, listing, answers, crashed>>

(* Some other exception ends the step in progress: nothing to clean up     *)
(* before mkstemp and after the unlink, the except clause in between.      *)
AfterFault(place) ==
    CASE place \in {"idle", "absent"}    -> "failed"
      [] place \in {"copying", "synced"} -> "aborting"
      [] place = "linked"                -> "faulted"
      [] place \in {"unlinked", "measured"} -> "unreported"

Fault(c) ==
    /\ c \notin crashed
    /\ pc[c] \in {"idle", "absent", "copying", "synced", "linked", "unlinked",
                  "measured"}
    /\ Goto(c, AfterFault(pc[c]))
    /\ UNCHANGED <<entry, temp, files, target, listing, answers, crashed>>

(* except BaseException: temporary.unlink(missing_ok=True); raise *)
CleanedUp_Skipped(c) == temp
CleanedUp(c) == temp \ {c}

AfterCleanup_AllExist(place) == "exists"

AfterCleanup(place) ==
    CASE place = "refused"  -> "exists"
      [] place = "aborting" -> "failed"
      [] place = "faulted"  -> "unreported"

(* That unlink can raise as well; its error replaces the one in progress. *)
AfterFailedCleanup(place) ==
    IF place = "faulted" THEN "unreportedLittered" ELSE "littered"

Discard(c) ==
    /\ c \notin crashed
    /\ pc[c] \in {"refused", "aborting", "faulted"}
    /\ \/ /\ temp' = CleanedUp(c)
          /\ Goto(c, AfterCleanup(pc[c]))
       \/ /\ Goto(c, AfterFailedCleanup(pc[c]))
          /\ UNCHANGED temp
    /\ UNCHANGED <<entry, files, target, listing, answers, crashed>>

-----------------------------------------------------------------------------
(* Names in the directory: the keys, and the temporary ones                *)
(* (".<key>.*.tmp"), which list leaves out: they start with a dot.         *)
Directory == {k \in Keys : Exists(k)} \cup temp

Hidden_Nothing(name) == FALSE
Hidden(name) == name \in Puts

(* The file a name stands for now. *)
FileOf(name) ==
    IF name \in Keys THEN entry[name]
    ELSE IF name \in temp THEN name ELSE NoFile

(* _describe makes two system calls on one name: path.stat().st_size, then *)
(* path.stat().st_mtime.  Each takes the file that has the name by then,   *)
(* or raises FileNotFoundError; the call gives up at "lost".  Its is_dir   *)
(* is FALSE whether or not the file is still there.                        *)
StatSize(c, name, lost) ==
    \/ /\ FileOf(name) # NoFile
       /\ sized' = [sized EXCEPT ![c] = FileOf(name)]
       /\ Goto(c, "measured")
    \/ /\ FileOf(name) = NoFile
       /\ Goto(c, lost)
       /\ UNCHANGED sized

StatTime(c, name, done, lost) ==
    \/ /\ FileOf(name) # NoFile
       /\ described' = [described EXCEPT
                          ![c] = @ \cup {<<sized[c], FileOf(name)>>}]
       /\ Goto(c, done)
    \/ /\ FileOf(name) = NoFile
       /\ Goto(c, lost)
       /\ UNCHANGED described

(* A put describes the destination after the publication: if a delete got  *)
(* there first, FileNotFoundError hides the success.                       *)
DescribeSize(c) ==
    /\ At(c, "unlinked")
    /\ StatSize(c, target[c], "unreported")
    /\ UNCHANGED <<entry, temp, files, target, listing, held, described,
                   crashed>>

DescribeTime(c) ==
    /\ At(c, "measured")
    /\ StatTime(c, target[c], "created", "unreported")
    /\ UNCHANGED <<entry, temp, files, target, listing, held, sized, crashed>>

-----------------------------------------------------------------------------
(* _existing_path, shared by open_reader, stat and delete *)
ExistingPath(c) ==
    /\ At(c, "idle")
    /\ Goto(c, IF Exists(target[c]) THEN "found" ELSE "missing")
    /\ UNCHANGED <<entry, temp, files, target, listing, answers, crashed>>

(* path.open("rb") in open_reader.  "vanished": the bare                   *)
(* FileNotFoundError of a file removed since the check.                    *)
OpenFound(o) ==
    /\ At(o, "found")
    /\ \/ /\ Exists(target[o])
          /\ held' = [held EXCEPT ![o] = {entry[target[o]]}]
          /\ Goto(o, "opened")
       \/ /\ ~Exists(target[o])
          /\ Goto(o, "vanished")
          /\ UNCHANGED held
    /\ UNCHANGED <<entry, temp, files, target, listing, sized, described,
                   crashed>>

(* _describe in stat, which shares the check with open_reader. *)
MeasureFound(o) ==
    /\ At(o, "found")
    /\ StatSize(o, target[o], "vanished")
    /\ UNCHANGED <<entry, temp, files, target, listing, held, described,
                   crashed>>

DateFound(o) ==
    /\ At(o, "measured")
    /\ StatTime(o, target[o], "described", "vanished")
    /\ UNCHANGED <<entry, temp, files, target, listing, held, sized, crashed>>

AfterLostUnlink_MissingOk == "deleted"
AfterLostUnlink == "vanished"

(* path.unlink() in delete *)
UnlinkFound(d) ==
    /\ At(d, "found")
    /\ \/ /\ Exists(target[d])
          /\ entry' = [entry EXCEPT ![target[d]] = NoFile]
          /\ Goto(d, "deleted")
       \/ /\ ~Exists(target[d])
          /\ Goto(d, AfterLostUnlink)
          /\ UNCHANGED entry
    /\ UNCHANGED <<temp, files, target, listing, answers, crashed>>

ScanDirectory(l) ==
    /\ At(l, "idle")
    /\ names' = [names EXCEPT ![l] = {n \in Directory : ~Hidden(n)}]
    /\ Goto(l, "scanned")
    /\ UNCHANGED <<entry, temp, files, target, child, answers, crashed>>

(* One child at a time; a child that is gone by then fails the whole list. *)
MeasureChild(l) ==
    /\ At(l, "scanned")
    /\ \E n \in names[l] :
          /\ StatSize(l, n, "vanished")
          /\ child' = [child EXCEPT ![l] = n]
          /\ names' = [names EXCEPT ![l] = @ \ {n}]
    /\ UNCHANGED <<entry, temp, files, target, held, described, crashed>>

DateChild(l) ==
    /\ At(l, "measured")
    /\ StatTime(l, child[l], "scanned", "vanished")
    /\ UNCHANGED <<entry, temp, files, target, listing, held, sized, crashed>>

ReturnList(l) ==
    /\ At(l, "scanned")
    /\ names[l] = {}
    /\ Goto(l, "listed")
    /\ UNCHANGED <<entry, temp, files, target, listing, answers, crashed>>

(* The process dies in the middle of a put: what is on disk stays and the  *)
(* call never answers.  A reader or a delete that dies leaves nothing: it  *)
(* is a call that takes no further step, which Spec allows.                *)
Crash(c) ==
    /\ ~Ended(c)
    /\ c \in Mortal \ crashed
    /\ crashed' = crashed \cup {c}
    /\ UNCHANGED <<entry, temp, files, target, pc, listing, answers>>

-----------------------------------------------------------------------------
PutStream(c) ==
    \/ EnsureAbsent(c) \/ Mkstemp(c) \/ CopyChunk(c) \/ Fsync(c) \/ Link(c)
    \/ UnlinkTemporary(c) \/ Discard(c) \/ DescribeSize(c) \/ DescribeTime(c)

(* open_reader or stat: which of the two shows after the check. *)
OpenOrStat(o) ==
    \/ ExistingPath(o) \/ OpenFound(o) \/ MeasureFound(o) \/ DateFound(o)

List(l) ==
    \/ ScanDirectory(l) \/ MeasureChild(l) \/ DateChild(l) \/ ReturnList(l)

Delete(d) == ExistingPath(d) \/ UnlinkFound(d)

(* A call takes a step of its own. *)
Step ==
    \/ \E c \in Puts : PutStream(c)
    \/ \E o \in Opens : OpenOrStat(o)
    \/ \E l \in Lists : List(l)
    \/ \E d \in Deletes : Delete(d)

Next == Step \/ \E c \in Puts : Fault(c) \/ Crash(c)

(* Some thread is scheduled and its system call returns; which one, and    *)
(* faults and crashes, are never promised.                                 *)
Fairness == WF_vars(Step)

Spec == Init /\ [][Next]_vars

FairSpec == Spec /\ Fairness

-----------------------------------------------------------------------------
Whole(f) == copied[f] = Size

(* Every file that a key names, that a reader opened or that a description *)
(* gives the size or the time of has all the bytes of its source: nobody   *)
(* sees a file that is still being written, however puts, listings and     *)
(* crashes interleave.                                                     *)
CompleteObjects ==
    /\ \A k \in Keys : Exists(k) => Whole(entry[k])
    /\ \A o \in Opens : \A f \in held[o] : Whole(f)
    /\ \A c \in Describers :
          /\ sized[c] # NoFile => Whole(sized[c])
          /\ \A d \in described[c] : Whole(d[1]) /\ Whole(d[2])

(* A key is never re-pointed from one file to another: between two objects *)
(* of the same key there is a delete.  (The comment at local.py:118-121.)  *)
NoOverwrite ==
    [][\A k \in Keys : Exists(k) => entry'[k] \in {entry[k], NoFile}]_vars

(* Whatever way a put returned, its temporary name is gone, unless         *)
(* removing it raised or the process died.                                 *)
StagingCleaned ==
    \A c \in Puts : Ended(c) /\ pc[c] \notin Littered => c \notin temp

LinkedPuts(k) == {c \in Puts : target[c] = k /\ pc[c] \in Linked}

(* A put that answers "already exists" lost to another put of that key     *)
(* that really published.                                                  *)
ExistsJustified ==
    \A c \in Puts : pc[c] = "exists" => LinkedPuts(target[c]) \ {c} # {}

(* A power failure at any moment leaves under a key one of the files that  *)
(* were ever linked to it, or none: directory entries are never synced, so *)
(* neither a publication nor a delete is certain to last.  Whichever file  *)
(* it leaves is whole on the disk, although the cache that held the rest   *)
(* is lost, and although no call after the fsync looks at it again.        *)
PowerFailureLeavesWhole ==
    \A k \in Keys : \A f \in LinkedPuts(k) : flushed[f] = Size

(* Every object that was published and is no longer there was removed by   *)
(* exactly one delete that reported success: two deletes never both claim  *)
(* the same object, and nothing disappears on its own.                     *)
OneDeletePerObject ==
    \A k \in Keys :
        Cardinality(LinkedPuts(k)) =
          Cardinality({d \in Deletes : target[d] = k /\ pc[d] = "deleted"})
            + (IF Exists(k) THEN 1 ELSE 0)

RemovedFrom(k) == \E d \in Deletes : target[d] = k /\ pc[d] = "deleted"

(* A description, made by two stat calls (local.py:256 and 259), is of one *)
(* key, and of one object unless a delete of that key succeeded; the one a *)
(* put answers with is then of the put's own object.  With a delete it can *)
(* give the size of one object and the time of the next.                   *)
DescribesOne ==
    \A c \in Describers : \A d \in described[c] :
        LET k == target[d[1]]
        IN  /\ target[d[2]] = k
            /\ d[1] = d[2] \/ RemovedFrom(k)
            /\ c \in Puts => k = target[c] /\ (d = <<c, c>> \/ RemovedFrom(k))

(* Every call returns or raises unless its process dies: no call can hold  *)
(* up another or keep itself busy, in whatever order they are scheduled.   *)
CallsReturn == <>(\A c \in Calls : Ended(c) \/ c \in crashed)

-----------------------------------------------------------------------------
(* The promise: what a caller could tell from its call's progress. *)
StillPending == {"idle", "absent", "copying", "synced", "aborting", "found",
                 "scanned"}
Answers == Ends \ Littered

StatusOf ==
    [place \in Places |->
        CASE place = "refused"                          -> "beaten"
          [] place \in {"linked", "unlinked", "faulted"} -> "published"
          [] place = "littered"                         -> "failed"
          [] place = "unreportedLittered"               -> "unreported"
          [] place \in StillPending                     -> "pending"
          [] place \in Answers \cup {"measured"}        -> place]

CallStatus ==
    [c \in Calls |->
        IF c \in Lists /\ pc[c] = "vanished" THEN "failed"
        ELSE StatusOf[pc[c]]]

Store == INSTANCE ObjectStore
           WITH objects <- entry, status <- CallStatus

(* Step by step the backend does what ObjectStore promises. *)
Implements == Store!Spec

=============================================================================
