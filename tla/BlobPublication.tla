--------------------------- MODULE BlobPublication ---------------------------
(***************************************************************************)
(* Capture and publication of Blobs (blob.py): prepare_file and            *)
(* prepare_stream copy a source into a private snapshot while hashing it,  *)
(* PreparedBlob.publish stores that snapshot under the key its digest      *)
(* gives, and close discards it.                                           *)
(*                                                                         *)
(* Several handles share one source, which others rewrite at any time, and *)
(* one object store, whose objects others delete and where damaged or      *)
(* foreign objects may lie under a CAS key.  Several callers, threads that *)
(* got hold of the same PreparedBlob, may publish and close it at a time:  *)
(* its flags are read and set without a lock.  The store's put is one      *)
(* step, as ObjectStore allows.                                            *)
(*                                                                         *)
(* SHA-256 is taken to be injective, so a digest is the bytes it stands    *)
(* for, and a key is a pair (dedup domain, digest).                        *)
(***************************************************************************)
EXTENDS Naturals, Sequences

CONSTANTS Handles,    \* PreparedBlob objects
          Callers,    \* threads that use a handle
          HandleOf,   \* the handle each caller uses
          Bytes,      \* what a chunk can be
          Size,       \* chunks in the source
          Tenants,    \* dedup domains that several writes share
          Planted,    \* keys that may hold an object from the start
          MaxPublish, \* publish calls made on one handle
          None        \* no object under the key

ASSUME SizeIsNat == Size \in Nat

ASSUME HandleOfAssumption == HandleOf \in [Callers -> Handles]

Contents == [1..Size -> Bytes]

(* With dedup_scope "none" a publish call has a domain of its own.         *)
Domains == Tenants \cup (Handles \X (1..MaxPublish))

Keys == Domains \X Contents

(* A publish call, as its promise sees it: see CallOf. *)
PublishCalls == [domain : Domains, stored : BOOLEAN]

ASSUME NoneAssumption ==
    /\ None \notin Contents \cup Domains \cup PublishCalls
    /\ Planted \subseteq Keys
    /\ MaxPublish \in Nat

VARIABLES source,    \* the bytes the caller's file has now
          spool,     \* bytes copied into each handle's temporary file
          temporary, \* the temporary directory: "full", "hollow" or "gone"
          content,   \* the ContentDigest of each handle
          active,    \* PreparedBlob._active
          published, \* PreparedBlob._published
          stage,     \* where each handle is: captured, ready, closed
          pc,        \* where each caller is in publish
          domain,    \* the domain of the publish call in progress
          stored,    \* the object store: what each key holds, or None
          refs,      \* the keys of the BlobRefs each caller was given
          calls,     \* publish calls made on each handle
          wins,      \* history: publications that went through
          overlapped,\* history: handles with two publish calls at a time
          stuck      \* history: handles whose cleanup raised

captureVars  == <<spool, content>>
snapshotVars == <<temporary, active, stuck>>   \* what close may change
publishVars  == <<published, calls, wins, overlapped>>
handleVars   == <<stage, snapshotVars, publishVars>>
callVars     == <<pc, domain, refs>>

vars == <<source, captureVars, handleVars, callVars, stored>>

(***************************************************************************)
(* An operator X_Y placed before an operator X is a wrong version of X, a  *)
(* mistake this code could contain; no specification uses it.  Replacing X *)
(* by it must break the property PROJECT.json names.                       *)
(***************************************************************************)

Stages == {"capturing", "discarding", "discarded", "ready", "left"}

(* Between publish's look at the flags and its setting them. *)
InFlight == {"opening", "putting", "verifying", "stored"}

Places == InFlight \cup {"idle", "closing", "failing"}

TypeOK ==
    /\ source \in Contents
    /\ spool \in [Handles -> Seq(Bytes)]
    /\ \A h \in Handles : Len(spool[h]) <= Size
    /\ temporary \in [Handles -> {"full", "hollow", "gone"}]
    /\ content \in [Handles -> Contents \cup {None}]
    /\ active \in [Handles -> BOOLEAN]
    /\ published \in [Handles -> BOOLEAN]
    /\ stage \in [Handles -> Stages]
    /\ pc \in [Callers -> Places]
    /\ domain \in [Callers -> Domains \cup {None}]
    /\ calls \in [Handles -> 0..MaxPublish]
    /\ stored \in [Keys -> Contents \cup {None}]
    /\ refs \in [Callers -> SUBSET Keys]
    /\ wins \in [Handles -> Nat]
    /\ overlapped \subseteq Handles
    /\ stuck \subseteq Handles

Init ==
    /\ source \in Contents
    /\ spool = [h \in Handles |-> <<>>]
    /\ temporary = [h \in Handles |-> "full"]
    /\ content = [h \in Handles |-> None]
    /\ active = [h \in Handles |-> FALSE]
    /\ published = [h \in Handles |-> FALSE]
    /\ stage = [h \in Handles |-> "capturing"]
    /\ pc = [c \in Callers |-> "idle"]
    /\ domain = [c \in Callers |-> None]
    /\ calls = [h \in Handles |-> 0]
    /\ \E f \in [Planted -> Contents \cup {None}] :
          stored = [k \in Keys |-> IF k \in Planted THEN f[k] ELSE None]
    /\ refs = [c \in Callers |-> {}]
    /\ wins = [h \in Handles |-> 0]
    /\ overlapped = {}
    /\ stuck = {}

Goto(c, place) == pc' = [pc EXCEPT ![c] = place]

Enter(h, st) == stage' = [stage EXCEPT ![h] = st]

-----------------------------------------------------------------------------
(* The owner of the file rewrites a part of it. *)
ChangeSource ==
    /\ \E n \in 1..Size, b \in Bytes : source' = [source EXCEPT ![n] = b]
    /\ UNCHANGED <<captureVars, handleVars, callVars, stored>>

(* Garbage collection, or anybody else who deletes the object. *)
RemoveObject(k) ==
    /\ stored[k] # None
    /\ stored' = [stored EXCEPT ![k] = None]
    /\ UNCHANGED <<source, captureVars, handleVars, callVars>>

(* copy_and_hash_stream: read a chunk, write it, add it to the digest. *)
CopyAndHash(h) ==
    /\ stage[h] = "capturing"
    /\ Len(spool[h]) < Size
    /\ spool' = [spool EXCEPT ![h] = Append(@, source[Len(@) + 1])]
    /\ UNCHANGED <<source, content, handleVars, callVars, stored>>

(* The digest is that of the chunks copied, not of the source file. *)
Hashed_SourceAgain(h) == source
Hashed(h) == spool[h]

(* The end of the source: an empty read, never a short one. *)
SourceRead_ShortRead(h) == Len(spool[h]) > 0
SourceRead(h) == Len(spool[h]) = Size

Prepared(h) ==
    /\ stage[h] = "capturing"
    /\ SourceRead(h)
    /\ content' = [content EXCEPT ![h] = Hashed(h)]
    /\ active' = [active EXCEPT ![h] = TRUE]
    /\ Enter(h, "ready")
    /\ UNCHANGED <<source, spool, temporary, stuck, publishVars, callVars,
                   stored>>

(* The source or the disk fails while _prepare_stream copies. *)
CaptureFails(h) ==
    /\ stage[h] = "capturing"
    /\ Enter(h, "discarding")
    /\ UNCHANGED <<source, captureVars, snapshotVars, publishVars, callVars,
                   stored>>

(* temporary.cleanup() removes the directory, or raises with the content   *)
(* file removed already or not.                                            *)
CleanupLeaves(h) ==
    {"gone"} \cup {t \in {"full", "hollow"} : temporary[h] \in {"full", t}}

(* No PreparedBlob comes of it. *)
DiscardCapture(h) ==
    /\ stage[h] = "discarding"
    /\ \E t \in CleanupLeaves(h) :
          /\ temporary' = [temporary EXCEPT ![h] = t]
          /\ stuck' = IF t = "gone" THEN stuck ELSE stuck \cup {h}
    /\ Enter(h, "discarded")
    /\ UNCHANGED <<source, captureVars, active, publishVars, callVars, stored>>

-----------------------------------------------------------------------------
(* PreparedBlob.publish *)

Users(h) == {c \in Callers : HandleOf[c] = h}

MayPublish(h) == ~published[h] /\ active[h]

(* _publish derives the domain from the role's dedup_scope and the context. *)
BeginPublish(c) ==
    LET h == HandleOf[c] IN
    /\ stage[h] \in {"ready", "left"}
    /\ pc[c] = "idle"
    /\ calls[h] < MaxPublish
    /\ calls' = [calls EXCEPT ![h] = @ + 1]
    /\ \/ /\ ~MayPublish(h)                       \* RuntimeError
          /\ UNCHANGED <<pc, domain, overlapped>>
       \/ /\ MayPublish(h)
          /\ Goto(c, "opening")
          /\ \E d \in Tenants \cup {<<h, calls'[h]>>} :
                domain' = [domain EXCEPT ![c] = d]
          /\ overlapped' = IF \E d \in Users(h) : pc[d] \in InFlight
                           THEN overlapped \cup {h} ELSE overlapped
    /\ UNCHANGED <<source, captureVars, stage, snapshotVars, published, wins,
                   refs, stored>>

KeyOf(c) == <<domain[c], content[HandleOf[c]]>>

(* put_file: the snapshot must still be a file.  From here on it is open,  *)
(* and another caller may remove its name.                                 *)
OpenSnapshot(c) ==
    /\ pc[c] = "opening"
    /\ Goto(c, IF temporary[HandleOf[c]] = "full" THEN "putting" ELSE "failing")
    /\ UNCHANGED <<source, captureVars, handleVars, domain, refs, stored>>

Staged(c) == spool[HandleOf[c]]

(* The put succeeds, finds the key taken, or fails; an error after the     *)
(* object appeared reads like a failure.                                   *)
Put(c) ==
    /\ pc[c] = "putting"
    /\ \/ /\ stored[KeyOf(c)] = None
          /\ stored' = [stored EXCEPT ![KeyOf(c)] = Staged(c)]
          /\ Goto(c, "stored") \/ Goto(c, "failing")
       \/ /\ stored[KeyOf(c)] # None
          /\ Goto(c, "verifying")
          /\ UNCHANGED stored
       \/ /\ Goto(c, "failing")
          /\ UNCHANGED stored
    /\ UNCHANGED <<source, captureVars, handleVars, domain, refs>>

SameContent_Trusted(c) == TRUE
SameContent(c) == stored[KeyOf(c)] = content[HandleOf[c]]

(* _verify_existing: reading may fail; the object may be gone or differ. *)
VerifyExisting(c) ==
    /\ pc[c] = "verifying"
    /\ \/ /\ SameContent(c)
          /\ Goto(c, "stored")
       \/ Goto(c, "failing")
    /\ UNCHANGED <<source, captureVars, handleVars, domain, refs, stored>>

MarkedPublished_Never(c) == published[HandleOf[c]]
MarkedPublished(c) == TRUE

(* The else branch sets _published before it closes. *)
MarkPublished(c) ==
    /\ pc[c] = "stored"
    /\ published' = [published EXCEPT ![HandleOf[c]] = MarkedPublished(c)]
    /\ wins' = [wins EXCEPT ![HandleOf[c]] = @ + 1]
    /\ Goto(c, "closing")
    /\ UNCHANGED <<source, captureVars, stage, snapshotVars, calls, overlapped,
                   domain, refs, stored>>

(* close(): nothing unless active; otherwise clean up, and only then let   *)
(* go of the handle.  A cleanup that raises keeps it active.  Two threads  *)
(* in close take turns here: the second cleanup finds the first one's      *)
(* result, whichever line of close each of them has reached.               *)
Close(h) ==
    \/ /\ ~active[h]
       /\ UNCHANGED snapshotVars
    \/ /\ active[h]
       /\ \E t \in CleanupLeaves(h) :
             /\ temporary' = [temporary EXCEPT ![h] = t]
             /\ active' = [active EXCEPT ![h] = t # "gone"]
             /\ stuck' = IF t = "gone" THEN stuck \ {h} ELSE stuck \cup {h}

(* The reference reaches the caller only if the closing does not raise. *)
ReturnRef(c) ==
    /\ pc[c] = "closing"
    /\ Close(HandleOf[c])
    /\ refs' = IF active'[HandleOf[c]] THEN refs
               ELSE [refs EXCEPT ![c] = @ \cup {KeyOf(c)}]
    /\ Goto(c, "idle")
    /\ UNCHANGED <<source, captureVars, stage, publishVars, domain, stored>>

CloseAfterFailure_Forgotten(h) == UNCHANGED snapshotVars
CloseAfterFailure(h) == Close(h)

(* except BaseException: self.close(); raise *)
RaiseFromPublish(c) ==
    /\ pc[c] = "failing"
    /\ CloseAfterFailure(HandleOf[c])
    /\ Goto(c, "idle")
    /\ UNCHANGED <<source, captureVars, stage, publishVars, domain, refs,
                   stored>>

(* A caller closes the handle, or its with statement ends, normally or by  *)
(* an exception; another caller may be in the middle of publish.           *)
Exit(c) ==
    /\ stage[HandleOf[c]] \in {"ready", "left"}
    /\ pc[c] = "idle"
    /\ Close(HandleOf[c])
    /\ Enter(HandleOf[c], "left")
    /\ UNCHANGED <<source, captureVars, publishVars, callVars, stored>>

-----------------------------------------------------------------------------
Capture(h) ==
    CopyAndHash(h) \/ Prepared(h) \/ CaptureFails(h) \/ DiscardCapture(h)

Publish(c) ==
    \/ BeginPublish(c) \/ OpenSnapshot(c) \/ Put(c) \/ VerifyExisting(c)
    \/ MarkPublished(c) \/ ReturnRef(c) \/ RaiseFromPublish(c)

Next ==
    \/ ChangeSource
    \/ \E k \in Keys : RemoveObject(k)
    \/ \E h \in Handles : Capture(h)
    \/ \E c \in Callers : Publish(c) \/ Exit(c)

Spec == Init /\ [][Next]_vars

-----------------------------------------------------------------------------
(* A reference stands for exactly the bytes its handle captured: as long   *)
(* as there is an object under its key, it has that content, whatever      *)
(* happened to the source since, whatever was stored there before, however *)
(* often the object was deleted and stored again, and although another     *)
(* caller may have closed the handle while the snapshot was being stored.  *)
RefsDenoteCapture ==
    \A c \in Callers : \A k \in refs[c] :
        /\ k[2] = spool[HandleOf[c]]
        /\ stored[k] \in {spool[HandleOf[c]], None}

(* A handle publishes at most once: also when the clean-up after a         *)
(* publication raised and the caller tries again, and however many callers *)
(* take turns (docs/blobs.md:93).  Only publish calls that overlap between *)
(* the look at the flags and their setting can publish it twice.           *)
PublishedAtMostOnce == \A h \in Handles \ overlapped : wins[h] <= 1

(* Success and failure of a publication, a refused one, and leaving the    *)
(* with statement all end with the snapshot discarded, unless the clean-up *)
(* itself raised (docs/blobs.md:94-95); with several callers, as soon as   *)
(* none of them is in the middle of a call.                                *)
SnapshotDiscarded ==
    \A h \in Handles :
        /\ \A c \in Users(h) : pc[c] = "idle"
        /\ \/ stage[h] \in {"discarded", "left"}
           \/ calls[h] > 0
        => temporary[h] = "gone" \/ h \in stuck

(* The publish call a caller is in, as its promise sees it. *)
CallOf(c) ==
    IF pc[c] \in {"idle", "failing"} THEN None
    ELSE [domain |-> domain[c], stored |-> pc[c] \in {"stored", "closing"}]

Promise == INSTANCE BlobPromise
             WITH captured <- content, objects <- stored,
                  call <- [c \in Callers |-> CallOf(c)]

(* However many steps a capture and a publication take, and whoever        *)
(* rewrites the source, deletes the object or closes the handle in the     *)
(* middle, each acts as if in one step: the content of a handle is fixed   *)
(* once, that very content appears whole under its key and never over      *)
(* another object, and no reference is given out before.                   *)
PublishesAtomically == Promise!Spec

=============================================================================
