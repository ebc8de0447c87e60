----------------------------- MODULE ClientCalls -----------------------------
(***************************************************************************)
(* The calls of StorageClient and StorageRuntime that use a backend more   *)
(* than once: put_json_idempotent (client.py) publishes, and when the key  *)
(* is taken opens what is there, compares, and describes it with stat;     *)
(* locate (runtime.py) asks exists, then resolve_local_path, then stat.    *)
(* Other writers and deletes come in between.                              *)
(*                                                                         *)
(* The backend is the one ObjectStore specifies, so every use of it is one *)
(* step, and a stat, which looks twice, two.  A call is where the answers  *)
(* it has had so far put it: there is no other program counter.            *)
(***************************************************************************)
EXTENDS FiniteSets

CONSTANTS Keys, Writers, Locates, Deletes, NoFile,
          Values,   \* JSON values
          NoValue   \* no value: for a key without object

(* The uses of the backend that only read, by the call that makes them. *)
Reads == Writers \X {"open", "stat"} \cup Locates \X {"exists", "resolve", "stat"}

ASSUME CallsDistinct ==
    /\ Writers \cap (Reads \cup Deletes) = {}
    /\ Reads \cap Deletes = {}
    /\ Locates \cap (Writers \cup Deletes) = {}

ASSUME NothingDistinct == NoFile \notin Writers /\ NoValue \notin Values

VARIABLES objects, status, target, held, sized, described, \* of ObjectStore
          value,  \* what each writer wants stored
          paths   \* whether the backend has native paths

Store == INSTANCE ObjectStore
           WITH Puts <- Writers, Opens <- Reads, Lists <- {}

store == <<objects, status, target, held, sized, described>>
vars  == <<store, value, paths>>

(***************************************************************************)
(* An operator X_Y placed before an operator X is a wrong version of X, a  *)
(* mistake this code could contain; no specification uses it.  Replacing X *)
(* by it must break the property PROJECT.json names.                       *)
(***************************************************************************)

-----------------------------------------------------------------------------
PutAnswers  == {"pending", "published", "measured", "beaten", "created",
                "exists", "unreported", "failed"}

Missed == {"missing", "vanished"}

(* A stat is described in the end, any other read opened. *)
Done(r) == IF r[2] = "stat" THEN {"measured", "described"} ELSE {"opened"}

Opened(r)    == status[r] = "opened"
Described(r) == status[r] = "described"
Used(r)      == status[r] # "pending"

(* The backend is used in the order the code uses it. *)
TypeOK ==
    /\ objects \in [Keys -> Writers \cup {NoFile}]
    /\ DOMAIN status = Store!Calls
    /\ \A w \in Writers : status[w] \in PutAnswers
    /\ \A r \in Reads : status[r] \in {"pending"} \cup Missed \cup Done(r)
    /\ \A d \in Deletes : status[d] \in Missed \cup {"pending", "deleted"}
    /\ target \in [Store!Keyed -> Keys]
    /\ held \in [Reads -> SUBSET Writers]
    /\ sized \in [Writers \cup Reads -> Writers \cup {NoFile}]
    /\ described \in [Writers \cup Reads -> SUBSET (Writers \X Writers)]
    /\ \A c \in Writers \cup Reads : status[c] = "measured" => sized[c] # NoFile
    /\ value \in [Writers -> Values]
    /\ paths \in BOOLEAN
    /\ \A w \in Writers :
          /\ Used(<<w, "open">>) => status[w] = "exists"
          /\ Used(<<w, "stat">>) => Opened(<<w, "open">>)
    /\ \A l \in Locates :
          /\ Used(<<l, "resolve">>) => paths /\ Opened(<<l, "exists">>)
          /\ Used(<<l, "stat">>) =>
                IF paths THEN Opened(<<l, "resolve">>) ELSE Opened(<<l, "exists">>)

(* The key a call was given is the key of all its uses of the backend. *)
Init ==
    /\ Store!Init
    /\ \A w \in Writers : \A use \in {"open", "stat"} :
          target[<<w, use>>] = target[w]
    /\ \A l \in Locates : \A use \in {"resolve", "stat"} :
          target[<<l, use>>] = target[<<l, "exists">>]
    /\ value \in [Writers -> Values]
    /\ paths \in BOOLEAN

-----------------------------------------------------------------------------
Look(r) == Store!Observe(r) \/ Store!Miss(r)
Stat(r) == Store!Measure(r) \/ Store!Date(r) \/ Store!Miss(r)

(* json.dumps with sort_keys: equal values have equal bytes. *)
Content_Unsorted(w) == <<value[w], w>>
Content(w) == value[w]

(* The object an opened reader goes on reading, deleted or not. *)
Conflicts_Ignored(w) == FALSE
Conflicts(w) == \E f \in held[<<w, "open">>] : Content(f) # Content(w)

(* return self.put_bytes(...) *)
PutBytes(w) == Store!PutStep(w)

(* except ObjectAlreadyExistsError: with self.open(key) as existing *)
OpenExisting(w) ==
    /\ status[w] = "exists"
    /\ Look(<<w, "open">>)

(* return self.stat(key), unless the comparison raised. *)
StatExisting(w) ==
    /\ Opened(<<w, "open">>)
    /\ ~Conflicts(w)
    /\ Stat(<<w, "stat">>)

PutJsonIdempotent(w) == PutBytes(w) \/ OpenExisting(w) \/ StatExisting(w)

CheckExists(l) == Look(<<l, "exists">>)

(* client.resolve_local_path: None without asking if the backend has no    *)
(* native paths.                                                           *)
ResolveLocalPath(l) ==
    /\ paths
    /\ Opened(<<l, "exists">>)
    /\ Look(<<l, "resolve">>)

SizeWanted_Unchecked(l) == TRUE
SizeWanted(l) ==
    IF paths THEN Opened(<<l, "resolve">>) ELSE Opened(<<l, "exists">>)

StatLocated(l) ==
    /\ SizeWanted(l)
    /\ Stat(<<l, "stat">>)

Locate(l) == CheckExists(l) \/ ResolveLocalPath(l) \/ StatLocated(l)

Delete(d) == Store!Remove(d) \/ Store!Miss(d)

Next ==
    /\ \/ \E w \in Writers : PutJsonIdempotent(w)
       \/ \E l \in Locates : Locate(l)
       \/ \E d \in Deletes : Delete(d)
    /\ UNCHANGED <<value, paths>>

Spec == Init /\ [][Next]_vars

-----------------------------------------------------------------------------
Clients == Writers \cup Locates \cup Deletes

(* What a call of put_json_idempotent has come to. *)
PutAnswer(w) ==
    LET open == status[<<w, "open">>]
        stat == status[<<w, "stat">>]
    IN CASE status[w] \in {"pending", "beaten"}           -> "pending"
         [] status[w] \in {"published", "measured"}        -> "installed"
         [] status[w] \in {"created", "unreported", "failed"} -> status[w]
         [] status[w] = "exists" ->
              CASE open = "pending"   -> "pending"
                [] open \in Missed    -> "gone"
                [] open = "opened" ->
                     IF Conflicts(w)        THEN "conflict"
                     ELSE IF stat = "described" THEN "accepted"
                     ELSE IF stat \in Missed THEN "gone" ELSE "agreed"

(* except ObjectNotFoundError: exists = False; local_path = None *)
AfterLostStat_PathKept == "located"
AfterLostStat == "absent"

(* What a call of locate has come to: only stat's ObjectNotFoundError is   *)
(* caught.                                                                 *)
LocateAnswer(l) ==
    LET stat == status[<<l, "stat">>]
    IN IF status[<<l, "exists">>] \in Missed       THEN "absent"
       ELSE IF status[<<l, "resolve">>] \in Missed THEN "raised"
       ELSE CASE stat \in {"pending", "measured"} -> "pending"
              [] stat = "described" -> "located"
              [] stat = "missing"   -> AfterLostStat
              [] stat = "vanished"  -> "raised"

Deleted(k) == \E d \in Deletes : target[d] = k /\ status[d] = "deleted"

(* While nobody has deleted a key, every put of it that succeeded, by      *)
(* publishing or by finding its value there, wanted the value it has now:  *)
(* two callers are never both told that different values are stored.  What *)
(* stat then describes to an accepted put is the object it compared.       *)
Agreement ==
    \A w \in Writers :
      PutAnswer(w) \in {"created", "accepted"} /\ ~Deleted(target[w]) =>
        \E f \in Writers :
          /\ objects[target[w]] = f
          /\ value[f] = value[w]
          /\ PutAnswer(w) = "accepted" =>
               held[<<w, "open">>] = {f} /\ described[<<w, "stat">>] = {<<f, f>>}

(* A put can be repeated: unless a delete intervened it neither loses the  *)
(* object it was refused for nor conflicts with its own value, also when   *)
(* it is the repetition of a put whose success an error had hidden.        *)
Repeatable ==
    \A w \in Writers : ~Deleted(target[w]) =>
        /\ PutAnswer(w) # "gone"
        /\ PutAnswer(w) = "conflict" =>
             \E f \in Writers : objects[target[w]] = f /\ value[f] # value[w]

(* A locate that found an object goes on finding that one until a delete:  *)
(* it neither raises nor says that nothing is there, and the path and the  *)
(* size it reports belong to the same object.                              *)
LocatesOne ==
    \A l \in Locates :
      LET k == target[<<l, "exists">>]
      IN Opened(<<l, "exists">>) /\ ~Deleted(k) =>
           /\ LocateAnswer(l) \notin {"absent", "raised"}
           /\ \A use \in {"exists", "resolve"} :
                 Opened(<<l, use>>) => held[<<l, use>>] = {objects[k]}
           /\ status[<<l, "stat">>] \in {"measured", "described"} =>
                 sized[<<l, "stat">>] = objects[k]

-----------------------------------------------------------------------------
(* A register per key. *)
Register ==
    [k \in Keys |-> IF objects[k] = NoFile THEN NoValue ELSE value[objects[k]]]

ClientAnswer ==
    [c \in Clients |->
        IF c \in Writers THEN PutAnswer(c)
        ELSE IF c \in Locates THEN LocateAnswer(c) ELSE status[c]]

KeyOf ==
    [c \in Clients |->
        IF c \in Locates THEN target[<<c, "exists">>] ELSE target[c]]

Promise == INSTANCE ClientPromise
             WITH register <- Register, answer <- ClientAnswer,
                  request <- value, key <- KeyOf

(* Each call behaves as if it had met the register in one step: a put      *)
(* installs, agrees or disagrees at one moment, and locate, for all its    *)
(* three looks at the backend, reports one moment.                         *)
ActsAtomically == Promise!Spec

(* locate answers for an object that is not there (the test                *)
(* test_runtime_locate_handles_missing_artifact_without_errors) and treats *)
(* one that goes before stat as missing: whichever of its three looks ends *)
(* in ObjectNotFoundError, locate does not raise it.                       *)
LocateAnswers ==
    \A l \in Locates : \A use \in {"exists", "resolve", "stat"} :
      status[<<l, use>>] = "missing" => LocateAnswer(l) # "raised"

=============================================================================
