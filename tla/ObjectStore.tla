----------------------------- MODULE ObjectStore -----------------------------
(***************************************************************************)
(* What a storage backend promises the code above it (the StorageBackend   *)
(* protocol): objects appear whole and at once, an object is never         *)
(* replaced, a caller that is told "already exists" was really beaten, and *)
(* an opened reader has one published object.  A description (the answer   *)
(* of stat, of list for each object, and of a put) is less: its size and   *)
(* its time are two looks, which may meet two objects.  Every effect is    *)
(* one step here; LocalBackend shows how the local filesystem backend gets *)
(* there with several system calls per operation.                          *)
(*                                                                         *)
(* An object is identified by the put call that wrote it: two puts of the  *)
(* same bytes are still two objects.                                       *)
(***************************************************************************)
EXTENDS FiniteSets

CONSTANTS Keys,     \* storage keys
          Puts,     \* calls of put_stream / put_file
          Opens,    \* calls of open_reader / stat
          Lists,    \* calls of list
          Deletes,  \* calls of delete
          NoFile    \* "no object here"

Keyed      == Puts \cup Opens \cup Deletes
Describers == Puts \cup Opens \cup Lists
Calls      == Keyed \cup Lists

VARIABLES objects,   \* the object each key names, or NoFile
          status,    \* what each call has done or answered so far
          target,    \* the key each call was given
          held,      \* the objects a reader has opened
          sized,     \* the object whose size a call took last, or NoFile
          described  \* descriptions a call has made: <<size of, time of>>

vars == <<objects, status, target, held, sized, described>>

answers == <<held, sized, described>>

Init ==
    /\ objects = [k \in Keys |-> NoFile]
    /\ status = [c \in Calls |-> "pending"]
    /\ target \in [Keyed -> Keys]
    /\ held = [o \in Opens |-> {}]
    /\ sized = [c \in Describers |-> NoFile]
    /\ described = [c \in Describers |-> {}]

Present(k) == objects[k] # NoFile

Pending(c)  == status[c] = "pending"
Measured(c) == status[c] = "measured"

Answer(c, a) == status' = [status EXCEPT ![c] = a]

(* Publication is conditional on the key being free, in the same step. *)
Publish(c) ==
    /\ Pending(c)
    /\ ~Present(target[c])
    /\ objects' = [objects EXCEPT ![target[c]] = c]
    /\ Answer(c, "published")
    /\ UNCHANGED <<target, answers>>

(* A put may only be beaten while some object has its key. *)
Refuse(c) ==
    /\ Pending(c)
    /\ Present(target[c])
    /\ Answer(c, "beaten") \/ Answer(c, "exists")
    /\ UNCHANGED <<objects, target, answers>>

(* The caller learns of the defeat, or an error hides it or the success. *)
Confirm(c) ==
    /\ \/ /\ status[c] \in {"published", "measured"}
          /\ Answer(c, "unreported")
       \/ /\ status[c] = "beaten"
          /\ Answer(c, "exists") \/ Answer(c, "failed")
    /\ UNCHANGED <<objects, target, answers>>

(* A put may fail without having had any effect. *)
Abandon(c) ==
    /\ Pending(c)
    /\ Answer(c, "failed")
    /\ UNCHANGED <<objects, target, answers>>

(* The two looks of a description at what key k names by then. *)
TakeSize(c, k) ==
    /\ Present(k)
    /\ sized' = [sized EXCEPT ![c] = objects[k]]
    /\ Answer(c, "measured")
    /\ UNCHANGED <<objects, target, held, described>>

TakeTime(c, k, a) ==
    /\ Measured(c)
    /\ Present(k)
    /\ described' = [described EXCEPT ![c] = @ \cup {<<sized[c], objects[k]>>}]
    /\ Answer(c, a)
    /\ UNCHANGED <<objects, target, held, sized>>

(* A put that published describes what has its key, then or later. *)
MeasureStored(c) == status[c] = "published" /\ TakeSize(c, target[c])
DateStored(c)    == TakeTime(c, target[c], "created")

(* stat *)
Measure(o) == Pending(o) /\ TakeSize(o, target[o])
Date(o)    == TakeTime(o, target[o], "described")

(* list: one object after the other, both looks at the same key. *)
MeasureChild(l) == Pending(l) /\ \E k \in Keys : TakeSize(l, k)
DateChild(l)    == TakeTime(l, target[sized[l]], "pending")

(* A child that is gone by either look fails the whole list. *)
LoseChild(l) ==
    /\ Pending(l) \/ Measured(l)
    /\ \E k \in Keys : ~Present(k)
    /\ Answer(l, "failed")
    /\ UNCHANGED <<objects, target, answers>>

(* open_reader *)
Observe(o) ==
    /\ Pending(o)
    /\ Present(target[o])
    /\ held' = [held EXCEPT ![o] = {objects[target[o]]}]
    /\ Answer(o, "opened")
    /\ UNCHANGED <<objects, target, sized, described>>

Listed(l) ==
    /\ Pending(l)
    /\ Answer(l, "listed")
    /\ UNCHANGED <<objects, target, answers>>

Remove(d) ==
    /\ Pending(d)
    /\ Present(target[d])
    /\ objects' = [objects EXCEPT ![target[d]] = NoFile]
    /\ Answer(d, "deleted")
    /\ UNCHANGED <<target, answers>>

(* "Not there" may only be said of a key that has no object: as            *)
(* ObjectNotFoundError, or ("vanished") as some other FileNotFoundError.   *)
Miss(c) ==
    /\ Pending(c) \/ Measured(c)
    /\ ~Present(target[c])
    /\ Answer(c, "missing") \/ Answer(c, "vanished")
    /\ UNCHANGED <<objects, target, answers>>

PutStep(c) ==
    \/ Publish(c) \/ Refuse(c) \/ Confirm(c) \/ Abandon(c)
    \/ MeasureStored(c) \/ DateStored(c)

Next ==
    \/ \E c \in Puts : PutStep(c)
    \/ \E o \in Opens : Observe(o) \/ Measure(o) \/ Date(o) \/ Miss(o)
    \/ \E l \in Lists :
          MeasureChild(l) \/ DateChild(l) \/ LoseChild(l) \/ Listed(l)
    \/ \E d \in Deletes : Remove(d) \/ Miss(d)

Spec == Init /\ [][Next]_vars

=============================================================================
