----------------------------- MODULE TreePromise -----------------------------
(***************************************************************************)
(* What put_directory, a recursive delete and put_stream beneath the       *)
(* tree's key promise of the one directory they share: a tree appears      *)
(* under the key at once and whole, in the place of nothing or of an empty *)
(* directory; a put beneath adds its file at once and replaces none; only  *)
(* a delete takes files away, those it found, from the tree it found; and  *)
(* a directory goes only when it is empty.  An answer is true of the       *)
(* moment it is decided.                                                   *)
(*                                                                         *)
(* The temporary names, the copies in progress and the trees that have     *)
(* left the key are not part of it.                                        *)
(***************************************************************************)
CONSTANTS Files,    \* names a tree may contain
          Puts,     \* calls of put_directory
          Inner,    \* calls of put_stream beneath the tree's key
          Deletes,  \* calls of delete with recursive=True
          NoTree    \* no directory under the key

Trees == Puts \cup Inner
Calls == Trees \cup Deletes

VARIABLES present,  \* the call that made the directory under the key
          visible,  \* the files in it
          source,   \* the files each put wants to publish
          file,     \* the file each inner put wants to publish
          status,   \* what each call has done or answered so far
          reached,  \* the directory each delete found
          found     \* the files each delete found and has yet to unlink

vars == <<present, visible, source, file, status, reached, found>>

Init ==
    /\ present = NoTree
    /\ visible = {}
    /\ source \in [Trees -> SUBSET Files]
    /\ file \in [Inner -> Files]
    /\ status = [c \in Calls |-> "pending"]
    /\ reached = [d \in Deletes |-> NoTree]
    /\ found = [d \in Deletes |-> {}]

Exists == present # NoTree

(* The call goes on from one status to one of several. *)
Step(c, from, to) ==
    /\ status[c] = from /\ status'[c] \in to
    /\ status' = [status EXCEPT ![c] = status'[c]]
    /\ UNCHANGED <<source, file>>

directory == <<present, visible>>
deletion  == <<reached, found>>

(* put_directory: the whole tree, where there was none or an empty one. *)
Publish(c) ==
    /\ Step(c, "pending", {"published"})
    /\ visible = {}
    /\ present' = c
    /\ visible' = source[c]
    /\ UNCHANGED deletion

(* A put or an inner put is beaten by what is there at that moment. *)
Refuse(c, taken) ==
    /\ Step(c, "pending", {"beaten", "exists"})
    /\ taken
    /\ UNCHANGED <<directory, deletion>>

(* It learns of its publication or defeat, or an error hides it. *)
Reports(there) == IF there THEN {"created", "unreported"} ELSE {"unreported"}

Confirm(c, there) ==
    /\ \/ Step(c, "published", Reports(there))
       \/ Step(c, "beaten", {"exists", "failed"})
    /\ UNCHANGED <<directory, deletion>>

Abandon(c) ==
    /\ Step(c, "pending", {"failed"}) \/ Step(c, "opened", {"failed"})
    /\ UNCHANGED <<directory, deletion>>

(* put_stream beneath the key makes the directory first ... *)
MakeDirectory(i) ==
    /\ ~Exists
    /\ present' = i
    /\ Step(i, "pending", {"pending"})
    /\ UNCHANGED <<visible, deletion>>

(* ... and adds its file to the one that is there then. *)
AddFile(i) ==
    /\ Step(i, "pending", {"published"})
    /\ Exists
    /\ file[i] \notin visible
    /\ visible' = visible \cup {file[i]}
    /\ UNCHANGED <<present, deletion>>

Find(d) ==
    /\ Step(d, "pending", {"opened"})
    /\ Exists
    /\ reached' = [reached EXCEPT ![d] = present]
    /\ found' = [found EXCEPT ![d] = visible]
    /\ UNCHANGED directory

(* What is not found any more counts as unlinked, too. *)
Unlink(d) ==
    /\ \E f \in found[d] :
          /\ found' = [found EXCEPT ![d] = @ \ {f}]
          /\ visible' = IF reached[d] = present THEN visible \ {f} ELSE visible
    /\ Step(d, "opened", {"opened"})
    /\ UNCHANGED <<present, reached>>

RemoveDirectory(d) ==
    /\ Step(d, "opened", {"deleted"})
    /\ Exists /\ visible = {} /\ found[d] = {}
    /\ present' = NoTree
    /\ UNCHANGED <<visible, deletion>>

(* "Not there" may only be said while there is no directory. *)
Miss(d) ==
    /\ \/ Step(d, "pending", {"missing", "vanished"})
       \/ Step(d, "opened", {"vanished"})
    /\ ~Exists
    /\ UNCHANGED <<directory, deletion>>

PutStep(c) ==
    Publish(c) \/ Refuse(c, Exists) \/ Confirm(c, Exists) \/ Abandon(c)

InnerStep(i) ==
    \/ MakeDirectory(i) \/ AddFile(i) \/ Abandon(i)
    \/ Refuse(i, file[i] \in visible) \/ Confirm(i, file[i] \in visible)

DeleteStep(d) ==
    Find(d) \/ Unlink(d) \/ RemoveDirectory(d) \/ Miss(d) \/ Abandon(d)

Next ==
    \/ \E c \in Puts : PutStep(c)
    \/ \E i \in Inner : InnerStep(i)
    \/ \E d \in Deletes : DeleteStep(d)

Spec == Init /\ [][Next]_vars

=============================================================================
