----------------------------- MODULE BlobPromise -----------------------------
(***************************************************************************)
(* What prepare_file, prepare_stream and PreparedBlob.publish promise: a   *)
(* handle stands for one content, fixed at a single moment; publish stores *)
(* that content under the key its digest gives, in one step and only where *)
(* nothing is, or finds that very content there; and a reference is given  *)
(* out only after one of the two.  A call may give up at any time.         *)
(***************************************************************************)
CONSTANTS Handles,   \* PreparedBlob objects
          Callers,   \* threads that use a handle
          HandleOf,  \* the handle each caller uses
          Contents,  \* what can be captured
          Domains,   \* dedup domains
          None       \* nothing captured, no call, no object

Keys == Domains \X Contents

VARIABLES captured,  \* the content each handle stands for, or None
          call,      \* the publish call each caller is in, or None
          objects,   \* what the object store has under each key, or None
          refs       \* the keys of the references each caller was given

vars == <<captured, call, objects, refs>>

Init ==
    /\ captured = [h \in Handles |-> None]
    /\ call = [c \in Callers |-> None]
    /\ objects \in [Keys -> Contents \cup {None}]
    /\ refs = [c \in Callers |-> {}]

Capture(h) ==
    /\ captured[h] = None
    /\ \E s \in Contents : captured' = [captured EXCEPT ![h] = s]
    /\ UNCHANGED <<call, objects, refs>>

Content(c) == captured[HandleOf[c]]

KeyOf(c) == <<call[c].domain, Content(c)>>

InCall(c, done) == call[c] # None /\ call[c].stored = done

Enter(c, d, done) ==
    call' = [call EXCEPT ![c] = [domain |-> d, stored |-> done]]

Leave(c) == call' = [call EXCEPT ![c] = None]

Begin(c) ==
    /\ call[c] = None
    /\ Content(c) # None
    /\ \E d \in Domains : Enter(c, d, FALSE)
    /\ UNCHANGED <<captured, objects, refs>>

(* The object appears; an error may keep that from the caller. *)
Store(c) ==
    /\ InCall(c, FALSE)
    /\ objects[KeyOf(c)] = None
    /\ objects' = [objects EXCEPT ![KeyOf(c)] = Content(c)]
    /\ Enter(c, call[c].domain, TRUE) \/ Leave(c)
    /\ UNCHANGED <<captured, refs>>

(* The object is there already, with the same bytes. *)
Reuse(c) ==
    /\ InCall(c, FALSE)
    /\ objects[KeyOf(c)] = Content(c)
    /\ Enter(c, call[c].domain, TRUE)
    /\ UNCHANGED <<captured, objects, refs>>

Return(c) ==
    /\ InCall(c, TRUE)
    /\ refs' = [refs EXCEPT ![c] = @ \cup {KeyOf(c)}]
    /\ Leave(c)
    /\ UNCHANGED <<captured, objects>>

GiveUp(c) ==
    /\ call[c] # None
    /\ Leave(c)
    /\ UNCHANGED <<captured, objects, refs>>

(* Anybody may delete an object. *)
Remove(k) ==
    /\ objects[k] # None
    /\ objects' = [objects EXCEPT ![k] = None]
    /\ UNCHANGED <<captured, call, refs>>

Next ==
    \/ \E h \in Handles : Capture(h)
    \/ \E c \in Callers :
          Begin(c) \/ Store(c) \/ Reuse(c) \/ Return(c) \/ GiveUp(c)
    \/ \E k \in Keys : Remove(k)

Spec == Init /\ [][Next]_vars

=============================================================================
