------------------------- MODULE DirectoryPublication -------------------------
(***************************************************************************)
(* Directory trees in LocalStorageBackend (local.py): put_directory,       *)
(* delete with recursive=True, and put_stream of keys beneath the tree's,  *)
(* system call by system call.                                             *)
(*                                                                         *)
(* put_directory copies the source into a hidden directory beside the      *)
(* destination, checks a second time that the destination is free, and     *)
(* renames.  A rename replaces a directory that is empty and fails on one  *)
(* that is not.  A recursive delete opens the tree, unlinks what it found  *)
(* in it through the open directory, and then removes whatever directory   *)
(* has the name.  A put_stream beneath the key makes the directory if it   *)
(* is not there and then finds it by its name in every step, whatever it   *)
(* has become.                                                             *)
(*                                                                         *)
(* One key, in a parent that exists, and the files directly beneath it; a  *)
(* tree (its inode) is identified by the call that made it.  A process     *)
(* that dies is a call that takes no further step.                         *)
(***************************************************************************)
EXTENDS FiniteSets

CONSTANTS Files,    \* names a tree may contain
          Puts,     \* calls of put_directory
          Inner,    \* calls of put_stream beneath the tree's key
          Deletes,  \* calls of delete with recursive=True
          NoTree    \* no directory under the key

Trees == Puts \cup Inner

(* A tree has files and the temporary files of inner puts. *)
Names == Files \cup Inner

ASSUME CallsAssumption ==
    /\ Puts \cap Inner = {}
    /\ Trees \cap Deletes = {}
    /\ NoTree \notin Trees
    /\ Files \cap Inner = {}

VARIABLES at,       \* the tree under the key, or NoTree
          source,   \* the files in each put's source directory
          entries,  \* what is in each tree
          temp,     \* the puts whose temporary directory is there
          tree,     \* the tree each delete has opened, or NoTree
          left,     \* the entries each delete has yet to unlink
          file,     \* the file each inner put wants to publish
          linked,   \* the tree in which it did, or NoTree
          pc        \* where each call is, or how it ended

inner == <<file, linked>>
vars  == <<at, source, entries, temp, tree, left, file, linked, pc>>

(***************************************************************************)
(* An operator X_Y placed before an operator X is a wrong version of X, a  *)
(* mistake this code could contain; no specification uses it.  Replacing X *)
(* by it must break the property PROJECT.json names.                       *)
(***************************************************************************)

(* Where a put still owns its temporary directory, or has none. *)
Private == {"idle", "absent", "made", "bare", "copying", "copied", "checked",
            "refused", "aborting", "exists", "failed"}
(* Where its tree has been renamed to the key. *)
Placed  == {"placed", "created", "unreported"}

DeletePlaces == {"idle", "found", "emptying", "deleted", "missing", "vanished",
                 "failed"}

InnerPlaces == {"idle", "absent", "parented", "staged", "linked", "unlinked",
                "refused", "aborting", "created", "unreported", "exists",
                "failed", "stuck"}

TypeOK ==
    /\ at \in Trees \cup {NoTree}
    /\ source \in [Trees -> SUBSET Files]
    /\ entries \in [Trees -> SUBSET Names]
    /\ \A c \in Puts : pc[c] \in Private => entries[c] \subseteq source[c]
    /\ temp \subseteq Puts
    /\ tree \in [Deletes -> Trees \cup {NoTree}]
    /\ left \in [Deletes -> SUBSET Names]
    /\ file \in [Inner -> Files]
    /\ linked \in [Inner -> Trees \cup {NoTree}]
    /\ pc \in [Trees \cup Deletes ->
                 Private \cup Placed \cup InnerPlaces \cup DeletePlaces]
    /\ \A c \in Puts : pc[c] \in Private \cup Placed
    /\ \A i \in Inner : pc[i] \in InnerPlaces
    /\ \A d \in Deletes : pc[d] \in DeletePlaces

(* The tree an inner put makes has no source: it is made empty. *)
Init ==
    /\ at = NoTree
    /\ source \in [Trees -> SUBSET Files]
    /\ \A i \in Inner : source[i] = {}
    /\ entries = [t \in Trees |-> {}]
    /\ temp = {}
    /\ tree = [d \in Deletes |-> NoTree]
    /\ left = [d \in Deletes |-> {}]
    /\ file \in [Inner -> Files]
    /\ linked = [i \in Inner |-> NoTree]
    /\ pc = [c \in Trees \cup Deletes |-> "idle"]

Goto(c, place) == pc' = [pc EXCEPT ![c] = place]

-----------------------------------------------------------------------------
(* put_directory *)

Free == at = NoTree

EnsureAbsent(c) ==
    /\ pc[c] = "idle"
    /\ Goto(c, IF Free THEN "absent" ELSE "exists")
    /\ UNCHANGED <<at, source, entries, temp, tree, left, inner>>

(* mkdtemp reserves a name ... *)
Mkdtemp(c) ==
    /\ pc[c] = "absent"
    /\ temp' = temp \cup {c}
    /\ Goto(c, "made")
    /\ UNCHANGED <<at, source, entries, tree, left, inner>>

(* ... which rmtree gives up, because copytree wants to make it itself. *)
RemoveReserved(c) ==
    /\ pc[c] = "made"
    /\ temp' = temp \ {c}
    /\ Goto(c, "bare")
    /\ UNCHANGED <<at, source, entries, tree, left, inner>>

MakeTree(c) ==
    /\ pc[c] = "bare"
    /\ temp' = temp \cup {c}
    /\ Goto(c, "copying")
    /\ UNCHANGED <<at, source, entries, tree, left, inner>>

ToCopy_AnyFile(c) == Files \ entries[c]
ToCopy(c) == source[c] \ entries[c]

CopyFile(c) ==
    /\ pc[c] = "copying"
    /\ \E f \in ToCopy(c) : entries' = [entries EXCEPT ![c] = @ \cup {f}]
    /\ UNCHANGED <<at, source, temp, tree, left, pc, inner>>

(* copytree goes on after an error, but raises in the end. *)
AllCopied_ErrorsIgnored(c) == TRUE
AllCopied(c) == entries[c] = source[c]

FinishCopy(c) ==
    /\ pc[c] = "copying"
    /\ AllCopied(c)
    /\ Goto(c, "copied")
    /\ UNCHANGED <<at, source, entries, temp, tree, left, inner>>

EnsureStillAbsent(c) ==
    /\ pc[c] = "copied"
    /\ Goto(c, IF Free THEN "checked" ELSE "refused")
    /\ UNCHANGED <<at, source, entries, temp, tree, left, inner>>

(* rename(2) *)
CanReplace_Anything(c) == TRUE
CanReplace(c) == ~Free => entries[at] = {}

Replace(c) ==
    /\ pc[c] = "checked"
    /\ \/ /\ CanReplace(c)
          /\ at' = c
          /\ temp' = temp \ {c}
          /\ Goto(c, "placed")
       \/ /\ ~CanReplace(c)          \* OSError: directory not empty
          /\ Goto(c, "aborting")
          /\ UNCHANGED <<at, temp, inner>>
    /\ UNCHANGED <<source, entries, tree, left, inner>>

(* _describe walks the tree; it fails if the tree or a part of it goes. *)
Describe(c) ==
    /\ pc[c] = "placed"
    /\ \/ at # NoTree /\ Goto(c, "created")
       \/ Goto(c, "unreported")
    /\ UNCHANGED <<at, source, entries, temp, tree, left, inner>>

(* Any other exception before the rename has succeeded. *)
Fault(c) ==
    /\ pc[c] \in {"idle", "absent", "made", "bare", "copying", "copied",
                  "checked"}
    /\ Goto(c, IF pc[c] \in {"idle", "absent"} THEN "failed" ELSE "aborting")
    /\ UNCHANGED <<at, source, entries, temp, tree, left, inner>>

(* except BaseException: rmtree(temporary, ignore_errors=True); raise.     *)
(* What cannot be removed stays, without a word.                           *)
Discard(c) ==
    /\ pc[c] \in {"refused", "aborting"}
    /\ \/ /\ temp' = temp \ {c}
          /\ entries' = [entries EXCEPT ![c] = {}]
       \/ /\ c \in temp
          /\ \E rest \in SUBSET entries[c] :
                entries' = [entries EXCEPT ![c] = rest]
          /\ UNCHANGED temp
    /\ Goto(c, IF pc[c] = "refused" THEN "exists" ELSE "failed")
    /\ UNCHANGED <<at, source, tree, left, inner>>

-----------------------------------------------------------------------------
(* delete(key, recursive=True) *)

ExistingPath(d) ==
    /\ pc[d] = "idle"
    /\ Goto(d, IF Free THEN "missing" ELSE "found")
    /\ UNCHANGED <<at, source, entries, temp, tree, left, inner>>

(* is_dir, then rmtree opens the directory and reads it. *)
OpenTree(d) ==
    /\ pc[d] = "found"
    /\ \/ /\ Free
          /\ Goto(d, "vanished")
          /\ UNCHANGED <<tree, left, inner>>
       \/ /\ ~Free
          /\ tree' = [tree EXCEPT ![d] = at]
          /\ left' = [left EXCEPT ![d] = entries[at]]
          /\ Goto(d, "emptying")
    /\ UNCHANGED <<at, source, entries, temp, inner>>

(* A file another delete unlinked first ends rmtree before Python 3.13,    *)
(* and is passed over from then on.                                        *)
UnlinkEntry(d) ==
    /\ pc[d] = "emptying"
    /\ \E f \in left[d] :
          \/ /\ entries' = [entries EXCEPT ![tree[d]] = @ \ {f}]
             /\ left' = [left EXCEPT ![d] = @ \ {f}]
             /\ UNCHANGED pc
          \/ /\ f \notin entries[tree[d]]
             /\ Goto(d, "failed")
             /\ UNCHANGED <<entries, left, inner>>
    /\ UNCHANGED <<at, source, temp, tree, inner>>

(* rmdir goes by the name again, and only removes an empty directory. *)
Removable_WithContent(d) == ~Free
Removable(d) == ~Free /\ entries[at] = {}

RemoveDirectory(d) ==
    /\ pc[d] = "emptying"
    /\ left[d] = {}
    /\ \/ /\ Removable(d)
          /\ at' = NoTree
          /\ Goto(d, "deleted")
       \/ /\ ~Removable(d)
          /\ Goto(d, IF Free THEN "vanished" ELSE "failed")
          /\ UNCHANGED at
    /\ UNCHANGED <<source, entries, temp, tree, left, inner>>

(* Any other exception leaves the tree as far as it has come. *)
DeleteFault(d) ==
    /\ pc[d] \in {"idle", "found", "emptying"}
    /\ Goto(d, "failed")
    /\ UNCHANGED <<at, source, entries, temp, tree, left, inner>>

-----------------------------------------------------------------------------
(* put_stream(key + "/" + file) *)

(* What has the name in the directory that is there now. *)
Has(name) == ~Free /\ name \in entries[at]

EnsureFileAbsent(i) ==
    /\ pc[i] = "idle"
    /\ Goto(i, IF Has(file[i]) THEN "exists" ELSE "absent")
    /\ UNCHANGED <<at, source, entries, temp, tree, left, inner>>

(* destination.parent.mkdir(parents=True, exist_ok=True) *)
MakeParent(i) ==
    /\ pc[i] = "absent"
    /\ at' = IF Free THEN i ELSE at
    /\ Goto(i, "parented")
    /\ UNCHANGED <<source, entries, temp, tree, left, inner>>

(* mkstemp does not make the directory again. *)
MkstempInside(i) ==
    /\ pc[i] = "parented"
    /\ \/ /\ Free
          /\ Goto(i, "failed")
          /\ UNCHANGED entries
       \/ /\ ~Free
          /\ entries' = [entries EXCEPT ![at] = @ \cup {i}]
          /\ Goto(i, "staged")
    /\ UNCHANGED <<at, source, temp, tree, left, inner>>

(* The copy writes to the open file; link goes by both names. *)
CanLinkInside_Replacing(i) == Has(i)
CanLinkInside(i) == Has(i) /\ ~Has(file[i])

LinkInside(i) ==
    /\ pc[i] = "staged"
    /\ \/ /\ CanLinkInside(i)
          /\ entries' = [entries EXCEPT ![at] = @ \cup {file[i]}]
          /\ linked' = [linked EXCEPT ![i] = at]
          /\ Goto(i, "linked")
       \/ /\ ~CanLinkInside(i)
          /\ Goto(i, IF Has(i) THEN "refused" ELSE "aborting")
          /\ UNCHANGED <<entries, linked>>
    /\ UNCHANGED <<at, source, temp, tree, left, file>>

(* The entries without a temporary file, if it is still found by its name. *)
Without_Forgotten(i) == entries
Without(i) ==
    IF Has(i) THEN [entries EXCEPT ![at] = @ \ {i}] ELSE entries

UnlinkTemporary(i) ==
    /\ pc[i] = "linked"
    /\ entries' = Without(i)
    /\ Goto(i, IF Has(i) THEN "unlinked" ELSE "aborting")
    /\ UNCHANGED <<at, source, temp, tree, left, inner>>

DescribeFile(i) ==
    /\ pc[i] = "unlinked"
    /\ \/ Has(file[i]) /\ Goto(i, "created")
       \/ Goto(i, "unreported")
    /\ UNCHANGED <<at, source, entries, temp, tree, left, inner>>

(* Any other exception; the parent stays, empty or not. *)
FaultInside(i) ==
    /\ pc[i] \in {"idle", "absent", "parented", "staged", "linked"}
    /\ Goto(i, IF pc[i] \in {"staged", "linked"} THEN "aborting" ELSE "failed")
    /\ UNCHANGED <<at, source, entries, temp, tree, left, inner>>

(* except BaseException: temporary.unlink(missing_ok=True); raise *)
DiscardTemporary(i) ==
    /\ pc[i] \in {"refused", "aborting"}
    /\ \/ /\ entries' = Without(i)
          /\ Goto(i, IF pc[i] = "refused" THEN "exists" ELSE "failed")
       \/ /\ Goto(i, "stuck")
          /\ UNCHANGED entries
    /\ UNCHANGED <<at, source, temp, tree, left, inner>>

-----------------------------------------------------------------------------
PutDirectory(c) ==
    \/ EnsureAbsent(c) \/ Mkdtemp(c) \/ RemoveReserved(c) \/ MakeTree(c)
    \/ CopyFile(c) \/ FinishCopy(c) \/ EnsureStillAbsent(c) \/ Replace(c)
    \/ Describe(c) \/ Fault(c) \/ Discard(c)

DeleteTree(d) ==
    \/ ExistingPath(d) \/ OpenTree(d) \/ UnlinkEntry(d) \/ RemoveDirectory(d)
    \/ DeleteFault(d)

PutInside(i) ==
    \/ EnsureFileAbsent(i) \/ MakeParent(i) \/ MkstempInside(i)
    \/ LinkInside(i) \/ UnlinkTemporary(i) \/ DescribeFile(i)
    \/ FaultInside(i) \/ DiscardTemporary(i)

Next ==
    \/ \E c \in Puts : PutDirectory(c)
    \/ \E i \in Inner : PutInside(i)
    \/ \E d \in Deletes : DeleteTree(d)

Spec == Init /\ [][Next]_vars

-----------------------------------------------------------------------------
Opened(c) == \E d \in Deletes : tree[d] = c

(* The tree under the key has the whole source of the put that placed it,  *)
(* unless a delete has opened that very tree, and beside it only what      *)
(* inner puts linked there and their temporary files: nobody sees a tree   *)
(* that is still being copied, or what a failed copy left, and no delete   *)
(* takes files from a tree other than the one it found.                    *)
TreesWhole ==
    ~Free => /\ ~Opened(at) => source[at] \subseteq entries[at]
             /\ \A name \in entries[at] \ source[at] :
                   name \in Inner \/ \E i \in Inner : linked[i] = at /\ file[i] = name

(* A tree with files in it is never replaced and never removed in one      *)
(* step: neither by the rename of a put that passed both checks before the *)
(* tree was there, nor by the rmdir of a delete that emptied another one.  *)
FilledTreeStays == [][~Free /\ entries[at] # {} => at' = at]_vars

(* A published tree with files leaves the key only through a delete that   *)
(* opened it; so of two puts that both return an object without a delete   *)
(* between them, one had nothing to publish.                               *)
OnlyDeletesUnpublish ==
    \A c \in Puts :
        pc[c] \in Placed /\ source[c] # {} => at = c \/ Opened(c)

(* An inner put never overwrites a file of the tree it meets, and what it  *)
(* linked stays under the key until a delete opens the tree it is in: no   *)
(* rename, and no rmdir of another delete, takes away the directory that   *)
(* the put made or found, from its link on.                                *)
InnerFilesStay ==
    \A i \in Inner : linked[i] # NoTree /\ ~Opened(linked[i]) =>
        /\ at = linked[i]
        /\ file[i] \in entries[at] \ source[at]

(* An inner put that has ended leaves no temporary file behind in any      *)
(* tree, whatever became of its directory, unless removing it raised.      *)
NothingLeftInside ==
    \A i \in Inner, t \in Trees :
        pc[i] \in {"unlinked", "created", "unreported", "exists", "failed"} =>
          i \notin entries[t]

(* What a call has done or answered so far, as its caller could know: at   *)
(* each place, and of an inner put from its link on.                       *)
Answers == {"created", "unreported", "exists", "deleted", "missing", "vanished",
            "failed"}

AllPlaces == Private \cup Placed \cup InnerPlaces \cup DeletePlaces

StatusAt ==
    [p \in AllPlaces |->
        CASE p = "placed"   -> "published"
          [] p = "refused"  -> "beaten"
          [] p = "emptying" -> "opened"
          [] p = "stuck"    -> "failed"
          [] p \in Answers  -> p
          [] OTHER          -> "pending"]

LinkedStatusAt ==
    [p \in AllPlaces |->
        CASE p = "created"                          -> "created"
          [] p \in {"unreported", "failed", "stuck"} -> "unreported"
          [] OTHER                                  -> "published"]

CallStatus(c) ==
    IF c \in Inner /\ linked[c] # NoTree THEN LinkedStatusAt[pc[c]]
    ELSE StatusAt[pc[c]]

FilesIn(names) == names \cap Files

Visible  == IF Free THEN {} ELSE FilesIn(entries[at])
Statuses == [c \in Trees \cup Deletes |-> CallStatus(c)]
Found    == [d \in Deletes |-> FilesIn(left[d])]

Promise == INSTANCE TreePromise
             WITH present <- at, visible <- Visible, status <- Statuses,
                  reached <- tree, found <- Found

(* Step by step the directory changes as TreePromise says: copying a tree, *)
(* checking twice and renaming is one publication, an inner put adds its   *)
(* file in one step, deletes only take what they found, and every answer   *)
(* was true of a moment of the call.                                       *)
ActsAtomically == Promise!Spec

=============================================================================
