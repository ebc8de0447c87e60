------------------------ MODULE BlobPublicationProofs ------------------------
(***************************************************************************)
(* Theorems about BlobPublication, for any number of handles, any number   *)
(* of callers of each, any source and any objects that lay in the store    *)
(* before.                                                                 *)
(***************************************************************************)
EXTENDS BlobPublication, TLAPS

InPublish == InFlight \cup {"closing"}

(* What is being published is a whole snapshot with a domain. *)
PublishReady ==
    \A c \in Callers : pc[c] \in InPublish =>
        content[HandleOf[c]] \in Contents /\ domain[c] \in Domains

LEMMA KeyInKeys ==
  ASSUME TypeOK, PublishReady, NEW c \in Callers, pc[c] \in InPublish
  PROVE  KeyOf(c) \in Keys
BY DEF PublishReady, KeyOf, Keys

(* A snapshot of which all chunks were copied is a content. *)
LEMMA SnapshotIsContent ==
  ASSUME NEW s \in Seq(Bytes), Len(s) = Size
  PROVE  s \in Contents
BY SizeIsNat DEF Contents

(* close() keeps the types, makes no handle active, and leaves the others. *)
LEMMA CloseEffect ==
  ASSUME TypeOK, NEW h \in Handles, Close(h)
  PROVE  /\ temporary' \in [Handles -> {"full", "hollow", "gone"}]
         /\ active' \in [Handles -> BOOLEAN]
         /\ stuck' \subseteq Handles
         /\ \A g \in Handles : active'[g] => active[g]
         /\ \A g \in Handles \ {h} :
               /\ active'[g] = active[g]
               /\ temporary'[g] = temporary[g]
               /\ g \in stuck' <=> g \in stuck
         /\ active'[h] => h \in stuck'
         /\ active[h] /\ ~active'[h] => temporary'[h] = "gone"
         /\ ~active[h] => temporary'[h] = temporary[h] /\ stuck' = stuck
<1>1. CASE ~active[h]
  BY <1>1 DEF Close, TypeOK, snapshotVars
<1>2. CASE active[h]
  <2>1. PICK t \in {"full", "hollow", "gone"} :
           /\ temporary' = [temporary EXCEPT ![h] = t]
           /\ active' = [active EXCEPT ![h] = t # "gone"]
           /\ stuck' = IF t = "gone" THEN stuck \ {h} ELSE stuck \cup {h}
    BY <1>2 DEF Close, CleanupLeaves
  <2>2. QED
    BY <1>2, <2>1 DEF TypeOK
<1>3. QED
  BY <1>1, <1>2

-----------------------------------------------------------------------------
(* Types, and what a handle has once it was prepared: its content is what  *)
(* it copied, and only a prepared handle is active.                        *)

ContentIsSpool ==
    \A h \in Handles : content[h] # None =>
        content[h] = spool[h] /\ stage[h] # "capturing"

ActiveHasContent == \A h \in Handles : active[h] => content[h] # None

Safe == TypeOK /\ ContentIsSpool /\ ActiveHasContent /\ PublishReady

LEMMA SafeInit == Init => Safe
<1> SUFFICES ASSUME Init PROVE Safe
  OBVIOUS
<1> USE NoneAssumption, SizeIsNat
<1>1. stored \in [Keys -> Contents \cup {None}]
  <2>1. PICK f \in [Planted -> Contents \cup {None}] :
           stored = [k \in Keys |-> IF k \in Planted THEN f[k] ELSE None]
    BY DEF Init
  <2>2. QED
    BY <2>1
<1>2. /\ spool \in [Handles -> Seq(Bytes)]
      /\ \A h \in Handles : Len(spool[h]) <= Size
  <2>1. <<>> \in Seq(Bytes) /\ Len(<<>>) = 0
    OBVIOUS
  <2>2. QED
    BY <2>1 DEF Init
<1>3. TypeOK
  BY <1>1, <1>2 DEF Init, TypeOK, Places, Stages
<1>4. QED
  BY <1>3 DEF Init, Safe, ContentIsSpool, ActiveHasContent, PublishReady,
     InPublish, InFlight

LEMMA SafeStep == Safe /\ [Next]_vars => Safe'
<1> SUFFICES ASSUME Safe, [Next]_vars PROVE Safe'
  OBVIOUS
<1> USE NoneAssumption, SizeIsNat, HandleOfAssumption
    DEF Safe, TypeOK, ContentIsSpool, ActiveHasContent, PublishReady,
        captureVars, snapshotVars, publishVars, handleVars, callVars
<1>1. CASE ChangeSource
  <2>1. source' \in Contents
    BY <1>1 DEF ChangeSource, Contents
  <2>2. QED
    BY <1>1, <2>1 DEF ChangeSource
<1>2. ASSUME NEW k \in Keys, RemoveObject(k) PROVE Safe'
  BY <1>2 DEF RemoveObject
<1>3. ASSUME NEW h \in Handles, CopyAndHash(h) PROVE Safe'
  <2>1. source[Len(spool[h]) + 1] \in Bytes
    BY <1>3 DEF CopyAndHash, Contents
  <2>2. spool' = [spool EXCEPT ![h] = Append(spool[h], source[Len(spool[h]) + 1])]
    BY <1>3 DEF CopyAndHash
  <2>3. /\ spool' \in [Handles -> Seq(Bytes)]
        /\ \A g \in Handles : Len(spool'[g]) <= Size
    BY <1>3, <2>1, <2>2 DEF CopyAndHash
  <2>4. \A g \in Handles : stage[g] # "capturing" => spool'[g] = spool[g]
    BY <1>3, <2>2 DEF CopyAndHash
  <2>5. QED
    BY <1>3, <2>3, <2>4 DEF CopyAndHash
<1>4. ASSUME NEW h \in Handles, Prepared(h) PROVE Safe'
  <2>1. spool[h] \in Contents
    BY <1>4, SnapshotIsContent DEF Prepared, SourceRead
  <2>2. /\ content' = [content EXCEPT ![h] = spool[h]]
        /\ active' = [active EXCEPT ![h] = TRUE]
        /\ stage' = [stage EXCEPT ![h] = "ready"]
    BY <1>4 DEF Prepared, Hashed, Enter
  <2>3. TypeOK'
    BY <1>4, <2>1, <2>2 DEF Prepared, Stages
  <2>4. PublishReady'
    BY <1>4, <2>1, <2>2 DEF Prepared
  <2>5. ContentIsSpool'
    BY <1>4, <2>2 DEF Prepared
  <2>6. ActiveHasContent'
    <3>1. content'[h] # None
      BY <2>1, <2>2
    <3>2. QED
      BY <2>2, <3>1
  <2>7. QED
    BY <2>3, <2>4, <2>5, <2>6
<1>5. ASSUME NEW h \in Handles, CaptureFails(h) PROVE Safe'
  BY <1>5 DEF CaptureFails, Enter, Stages
<1>6. ASSUME NEW h \in Handles, DiscardCapture(h) PROVE Safe'
  BY <1>6 DEF DiscardCapture, CleanupLeaves, Enter, Stages
<1>7. ASSUME NEW c \in Callers, BeginPublish(c) PROVE Safe'
  <2> DEFINE h == HandleOf[c]
  <2>1. /\ h \in Handles
        /\ calls' = [calls EXCEPT ![h] = calls[h] + 1]
        /\ calls[h] < MaxPublish
        /\ UNCHANGED <<source, captureVars, stage, snapshotVars, published,
                       wins, refs, stored>>
    BY <1>7 DEF BeginPublish
  <2>2. calls' \in [Handles -> 0..MaxPublish] /\ calls'[h] \in 1..MaxPublish
    BY <2>1
  <2>3. CASE UNCHANGED <<pc, domain, overlapped>>
    BY <2>1, <2>2, <2>3
  <2>4. CASE MayPublish(h) /\ ~UNCHANGED <<pc, domain, overlapped>>
    <3>1. PICK d \in Tenants \cup {<<h, calls'[h]>>} :
             domain' = [domain EXCEPT ![c] = d]
      BY <1>7, <2>4 DEF BeginPublish
    <3>2. /\ pc' = [pc EXCEPT ![c] = "opening"]
          /\ overlapped' \in {overlapped, overlapped \cup {h}}
      BY <1>7, <2>4 DEF BeginPublish, Goto
    <3>3. d \in Domains
      BY <2>1, <2>2, <3>1 DEF Domains
    <3>4. content[h] \in Contents
      BY <2>1, <2>4 DEF MayPublish
    <3>5. domain' \in [Callers -> Domains \cup {None}]
      BY <3>1, <3>3
    <3>6. PublishReady'
      BY <2>1, <3>1, <3>2, <3>3, <3>4
    <3>7. QED
      BY <2>1, <2>2, <3>2, <3>5, <3>6 DEF Places, InFlight
  <2>5. QED
    BY <1>7, <2>3, <2>4 DEF BeginPublish
<1>8. ASSUME NEW c \in Callers, OpenSnapshot(c) PROVE Safe'
  BY <1>8 DEF OpenSnapshot, Goto, Places, InPublish, InFlight
<1>9. ASSUME NEW c \in Callers, Put(c) PROVE Safe'
  <2>1. KeyOf(c) \in Keys /\ Staged(c) \in Contents
    BY <1>9, KeyInKeys DEF Put, InPublish, InFlight, Staged
  <2>2. stored' \in [Keys -> Contents \cup {None}]
    BY <1>9, <2>1 DEF Put
  <2>3. \E place \in {"stored", "verifying", "failing"} :
           pc' = [pc EXCEPT ![c] = place]
    BY <1>9 DEF Put, Goto
  <2>4. QED
    BY <1>9, <2>2, <2>3 DEF Put, Places, InPublish, InFlight
<1>10. ASSUME NEW c \in Callers, VerifyExisting(c) PROVE Safe'
  BY <1>10 DEF VerifyExisting, Goto, Places, InPublish, InFlight
<1>11. ASSUME NEW c \in Callers, MarkPublished(c) PROVE Safe'
  BY <1>11 DEF MarkPublished, MarkedPublished, Goto, Places, InPublish,
     InFlight
<1>12. ASSUME NEW c \in Callers, ReturnRef(c) PROVE Safe'
  <2>1. refs' \in [Callers -> SUBSET Keys]
    <3>1. KeyOf(c) \in Keys
      BY <1>12, KeyInKeys DEF ReturnRef, InPublish
    <3>2. QED
      BY <1>12, <3>1 DEF ReturnRef
  <2>2. pc' = [pc EXCEPT ![c] = "idle"]
    BY <1>12 DEF ReturnRef, Goto
  <2>3. Close(HandleOf[c]) /\ UNCHANGED <<source, captureVars, stage,
                                publishVars, domain, stored>>
    BY <1>12 DEF ReturnRef
  <2>4. QED
    BY CloseEffect, <2>1, <2>2, <2>3 DEF Places, InPublish, InFlight
<1>13. ASSUME NEW c \in Callers, RaiseFromPublish(c) \/ Exit(c) PROVE Safe'
  <2>1. /\ \A d \in Callers : pc'[d] = pc[d] \/ pc'[d] = "idle"
        /\ pc' \in [Callers -> Places]
    BY <1>13 DEF RaiseFromPublish, Exit, Goto, Places
  <2>2. /\ \A h \in Handles : stage'[h] = "capturing" => stage[h] = "capturing"
        /\ stage' \in [Handles -> Stages]
    BY <1>13 DEF RaiseFromPublish, Exit, Enter, Stages
  <2>3. Close(HandleOf[c]) /\ UNCHANGED <<source, captureVars, publishVars,
                                domain, refs, stored>>
    BY <1>13 DEF RaiseFromPublish, CloseAfterFailure, Exit
  <2>4. TypeOK'
    BY CloseEffect, <2>1, <2>2, <2>3
  <2>5. PublishReady'
    BY <2>1, <2>3 DEF InPublish, InFlight
  <2>6. ContentIsSpool' /\ ActiveHasContent'
    BY CloseEffect, <2>2, <2>3
  <2>7. QED
    BY <2>4, <2>5, <2>6
<1>14. CASE UNCHANGED vars
  BY <1>14 DEF vars
<1>15. QED
  BY <1>1, <1>2, <1>3, <1>4, <1>5, <1>6, <1>7, <1>8, <1>9, <1>10, <1>11,
     <1>12, <1>13, <1>14 DEF Next, Capture, Publish

(* Every variable keeps its type. *)
THEOREM TypeCorrect == Spec => []TypeOK
<1>1. Init => Safe
  BY SafeInit
<1>2. Safe /\ [Next]_vars => Safe'
  BY SafeStep
<1>3. Safe => TypeOK
  BY DEF Safe
<1>4. QED
  BY <1>1, <1>2, <1>3, PTL DEF Spec

-----------------------------------------------------------------------------
(* References.  A key under which a caller stored or verified something    *)
(* holds its handle's snapshot or nothing: whoever stores there again      *)
(* stores the bytes whose digest the key has.                              *)

Denotes(h, k) == k[2] = spool[h] /\ stored[k] \in {spool[h], None}

StoredIsContent ==
    \A c \in Callers : pc[c] \in {"stored", "closing"} =>
        Denotes(HandleOf[c], KeyOf(c))

RefsHaveContent ==
    \A c \in Callers : refs[c] # {} => content[HandleOf[c]] # None

RefsInv == Safe /\ StoredIsContent /\ RefsHaveContent /\ RefsDenoteCapture

LEMMA KeyHasDigest ==
  ASSUME Safe, NEW c \in Callers, pc[c] \in InPublish
  PROVE  /\ KeyOf(c) \in Keys
         /\ KeyOf(c)[2] = spool[HandleOf[c]]
         /\ content[HandleOf[c]] = spool[HandleOf[c]]
         /\ content[HandleOf[c]] # None
<1>1. KeyOf(c) \in Keys
  BY KeyInKeys DEF Safe
<1>2. /\ content[HandleOf[c]] = spool[HandleOf[c]]
      /\ content[HandleOf[c]] # None
  BY NoneAssumption, HandleOfAssumption
  DEF Safe, PublishReady, ContentIsSpool
<1>3. QED
  BY <1>1, <1>2 DEF KeyOf

(* What a step does to an object: nothing, its deletion, or storing the    *)
(* bytes its key stands for.                                               *)
LEMMA StoredStep ==
  ASSUME Safe, [Next]_vars, NEW k \in Keys
  PROVE  stored'[k] \in {stored[k], None, k[2]}
<1>1. ASSUME NEW j \in Keys, RemoveObject(j) PROVE stored'[k] \in {stored[k], None}
  BY <1>1 DEF RemoveObject, Safe, TypeOK
<1>2. ASSUME NEW c \in Callers, Put(c) PROVE stored'[k] \in {stored[k], k[2]}
  <2>1. KeyOf(c) \in Keys /\ KeyOf(c)[2] = Staged(c)
    BY <1>2, KeyHasDigest DEF Put, InPublish, InFlight, Staged
  <2>2. stored' = stored \/ stored' = [stored EXCEPT ![KeyOf(c)] = Staged(c)]
    BY <1>2 DEF Put
  <2>3. stored \in [Keys -> Contents \cup {None}]
    BY DEF Safe, TypeOK
  <2>4. QED
    BY <2>1, <2>2, <2>3
<1>3. CASE UNCHANGED stored
  BY <1>3
<1>4. QED
  BY <1>1, <1>2, <1>3 DEF Next, ChangeSource, Capture, CopyAndHash, Prepared,
     CaptureFails, DiscardCapture, Publish, BeginPublish, OpenSnapshot,
     VerifyExisting, MarkPublished, ReturnRef, RaiseFromPublish, Exit, vars

(* A prepared handle keeps its snapshot and its digest. *)
LEMMA SnapshotKept ==
  ASSUME Safe, [Next]_vars, NEW h \in Handles, content[h] # None
  PROVE  spool'[h] = spool[h] /\ content'[h] = content[h]
<1> USE DEF Safe, TypeOK, ContentIsSpool
<1>1. ASSUME NEW g \in Handles, CopyAndHash(g)
      PROVE  spool'[h] = spool[h] /\ content' = content
  BY <1>1 DEF CopyAndHash
<1>2. ASSUME NEW g \in Handles, Prepared(g)
      PROVE  spool' = spool /\ content'[h] = content[h]
  BY <1>2 DEF Prepared
<1>3. CASE UNCHANGED <<spool, content>>
  BY <1>3
<1>4. QED
  BY <1>1, <1>2, <1>3 DEF Next, ChangeSource, RemoveObject, Capture,
     CaptureFails, DiscardCapture, Publish, BeginPublish, OpenSnapshot, Put,
     VerifyExisting, MarkPublished, ReturnRef, RaiseFromPublish, Exit, vars,
     captureVars

LEMMA DenotesKept ==
  ASSUME Safe, [Next]_vars, NEW h \in Handles, NEW k \in Keys,
         content[h] # None, Denotes(h, k)
  PROVE  Denotes(h, k)'
BY StoredStep, SnapshotKept DEF Denotes

(* Only putting and verifying lead a caller to "stored", with the domain   *)
(* it began with.                                                          *)
LEMMA ReachesStored ==
  ASSUME Safe, [Next]_vars, NEW c \in Callers, pc'[c] \in {"stored", "closing"},
         ~Put(c), ~VerifyExisting(c)
  PROVE  pc[c] \in {"stored", "closing"} /\ domain'[c] = domain[c]
<1> USE DEF Safe, TypeOK, Goto, callVars
<1>1. CASE UNCHANGED <<pc, domain>>
  BY <1>1
<1>2. ASSUME NEW d \in Callers, BeginPublish(d)
      PROVE  pc[c] \in {"stored", "closing"} /\ domain'[c] = domain[c]
  <2>1. \/ UNCHANGED <<pc, domain>>
        \/ /\ pc' = [pc EXCEPT ![d] = "opening"]
           /\ \E e : domain' = [domain EXCEPT ![d] = e]
    BY <1>2 DEF BeginPublish
  <2>2. QED
    BY <2>1
<1>3. ASSUME NEW d \in Callers, Put(d) \/ VerifyExisting(d)
      PROVE  pc[c] \in {"stored", "closing"} /\ domain'[c] = domain[c]
  <2>1. d # c
    BY <1>3
  <2>2. QED
    BY <1>3, <2>1 DEF Put, VerifyExisting
<1>4. ASSUME NEW d \in Callers, MarkPublished(d)
      PROVE  pc[c] \in {"stored", "closing"} /\ domain'[c] = domain[c]
  BY <1>4 DEF MarkPublished
<1>5. ASSUME NEW d \in Callers,
             OpenSnapshot(d) \/ ReturnRef(d) \/ RaiseFromPublish(d)
      PROVE  pc[c] \in {"stored", "closing"} /\ domain'[c] = domain[c]
  <2>1. /\ \E place \in {"idle", "putting", "failing"} :
              pc' = [pc EXCEPT ![d] = place]
        /\ UNCHANGED domain
    BY <1>5 DEF OpenSnapshot, ReturnRef, RaiseFromPublish
  <2>2. QED
    BY <2>1
<1>6. QED
  BY <1>1, <1>2, <1>3, <1>4, <1>5 DEF Next, ChangeSource, RemoveObject,
     Capture, CopyAndHash, Prepared, CaptureFails, DiscardCapture, Publish,
     Exit, vars

LEMMA RefsStep == RefsInv /\ [Next]_vars => RefsInv'
<1> SUFFICES ASSUME RefsInv, [Next]_vars PROVE RefsInv'
  OBVIOUS
<1> USE HandleOfAssumption
<1>1. Safe /\ Safe'
  BY SafeStep DEF RefsInv
<1>2. \A c \in Callers : \A k \in refs[c] :
         /\ k \in Keys /\ content[HandleOf[c]] # None
         /\ Denotes(HandleOf[c], k)
  BY <1>1 DEF RefsInv, Safe, TypeOK, RefsHaveContent, RefsDenoteCapture, Denotes
<1>3. ASSUME NEW c \in Callers, pc'[c] \in {"stored", "closing"}
      PROVE  Denotes(HandleOf[c], KeyOf(c))'
  <2> DEFINE h == HandleOf[c]
  <2>0. h \in Handles
    OBVIOUS
  <2>1. CASE Put(c)
    <3>1. pc[c] = "putting"
      BY <2>1 DEF Put
    <3>2. /\ UNCHANGED <<spool, domain, content>>
          /\ stored' = [stored EXCEPT ![KeyOf(c)] = Staged(c)]
      BY <1>1, <1>3, <2>1 DEF Put, Goto, captureVars, Safe, TypeOK
    <3>3. KeyOf(c) \in Keys /\ KeyOf(c)[2] = spool[h]
      BY <1>1, <3>1, KeyHasDigest DEF InPublish, InFlight
    <3>4. QED
      BY <1>1, <3>2, <3>3 DEF Denotes, KeyOf, Staged, Safe, TypeOK
  <2>2. CASE VerifyExisting(c)
    <3>1. /\ pc[c] = "verifying"
          /\ UNCHANGED <<spool, domain, content, stored>>
          /\ stored[KeyOf(c)] = content[h]
      BY <1>1, <1>3, <2>2 DEF VerifyExisting, SameContent, Goto, captureVars,
         Safe, TypeOK
    <3>2. KeyOf(c)[2] = spool[h] /\ content[h] = spool[h]
      BY <1>1, <3>1, KeyHasDigest DEF InPublish, InFlight
    <3>3. QED
      BY <3>1, <3>2 DEF Denotes, KeyOf
  <2>3. CASE ~Put(c) /\ ~VerifyExisting(c)
    <3>1. pc[c] \in {"stored", "closing"} /\ domain'[c] = domain[c]
      BY <1>1, <1>3, <2>3, ReachesStored
    <3>2. content[h] # None /\ KeyOf(c) \in Keys
      BY <1>1, <3>1, KeyHasDigest DEF InPublish, InFlight
    <3>3. Denotes(h, KeyOf(c))
      BY <3>1 DEF RefsInv, StoredIsContent
    <3>4. KeyOf(c)' = KeyOf(c)
      BY <1>1, <2>0, <3>1, <3>2, SnapshotKept DEF KeyOf
    <3>5. QED
      BY <1>1, <2>0, <3>2, <3>3, <3>4, DenotesKept DEF Denotes
  <2>4. QED
    BY <2>1, <2>2, <2>3
<1>4. ASSUME NEW c \in Callers, NEW k \in refs'[c]
      PROVE  content'[HandleOf[c]] # None /\ Denotes(HandleOf[c], k)'
  <2>1. CASE k \in refs[c]
    <3>1. /\ k \in Keys /\ content[HandleOf[c]] # None
          /\ Denotes(HandleOf[c], k)
      BY <1>2, <2>1
    <3>2. QED
      BY <1>1, <3>1, DenotesKept, SnapshotKept
  <2>2. CASE k \notin refs[c]
    <3>1. ReturnRef(c) /\ k = KeyOf(c)
      <4>1. PICK d \in Callers : ReturnRef(d)
        <5>1. refs' # refs
          BY <1>4, <2>2
        <5>2. QED
          BY <5>1 DEF Next, ChangeSource, RemoveObject, Capture, CopyAndHash,
             Prepared, CaptureFails, DiscardCapture, Publish, BeginPublish,
             OpenSnapshot, Put, VerifyExisting, MarkPublished,
             RaiseFromPublish, Exit, vars, callVars
      <4>2. \/ refs' = refs
            \/ refs' = [refs EXCEPT ![d] = refs[d] \cup {KeyOf(d)}]
        BY <4>1 DEF ReturnRef
      <4>3. refs \in [Callers -> SUBSET Keys]
        BY <1>1 DEF Safe, TypeOK
      <4>4. d = c /\ k = KeyOf(d)
        BY <1>4, <2>2, <4>2, <4>3
      <4>5. QED
        BY <4>1, <4>4
    <3>2. pc[c] = "closing"
      BY <3>1 DEF ReturnRef
    <3>3. content[HandleOf[c]] # None /\ KeyOf(c) \in Keys
      BY <1>1, <3>2, KeyHasDigest DEF InPublish
    <3>4. Denotes(HandleOf[c], k)
      BY <3>1, <3>2 DEF RefsInv, StoredIsContent
    <3>5. QED
      BY <1>1, <3>1, <3>3, <3>4, DenotesKept, SnapshotKept
  <2>3. QED
    BY <2>1, <2>2
<1>5. StoredIsContent'
  BY <1>3 DEF StoredIsContent
<1>6. RefsHaveContent' /\ RefsDenoteCapture'
  BY <1>4 DEF RefsHaveContent, RefsDenoteCapture, Denotes
<1>7. QED
  BY <1>1, <1>5, <1>6 DEF RefsInv

(* A BlobRef stands for the bytes its handle captured, for ever, however   *)
(* many callers publish and close that handle.                             *)
THEOREM ReferencesDenoteCapture == Spec => []RefsDenoteCapture
<1>1. Init => RefsInv
  BY SafeInit DEF Init, RefsInv, StoredIsContent, RefsHaveContent,
     RefsDenoteCapture
<1>2. RefsInv /\ [Next]_vars => RefsInv'
  BY RefsStep
<1>3. RefsInv => RefsDenoteCapture
  BY DEF RefsInv
<1>4. QED
  BY <1>1, <1>2, <1>3, PTL DEF Spec

-----------------------------------------------------------------------------
(* At most one publication per handle.  Unless two calls overlapped, at    *)
(* most one is in flight, only while nothing was published; _published is  *)
(* set before close can raise, and publish looks at it first.              *)

Alone(h) ==
    \A c, d \in Users(h) :
        pc[c] \in InFlight /\ pc[d] \in InFlight => c = d

OnceAt(h) ==
    /\ Alone(h)
    /\ \/ published[h] /\ wins[h] = 1
       \/ ~published[h] /\ wins[h] = 0
    /\ \A c \in Users(h) : pc[c] \in InFlight => ~published[h]

OnceInv == \A h \in Handles \ overlapped : OnceAt(h)

(* Callers of other handles do not matter, nor who leaves the flight. *)
LEMMA OnceKept ==
  ASSUME NEW h \in Handles, OnceAt(h),
         \A c \in Users(h) : pc'[c] \in InFlight => pc[c] \in InFlight,
         published'[h] = published[h], wins'[h] = wins[h]
  PROVE  OnceAt(h)'
BY DEF OnceAt, Alone, Users

LEMMA OnceStep == Safe /\ OnceInv /\ [Next]_vars => OnceInv'
<1> SUFFICES ASSUME Safe, OnceInv, [Next]_vars,
                    NEW h \in Handles \ overlapped'
             PROVE  OnceAt(h)'
  BY DEF OnceInv
<1> USE HandleOfAssumption DEF Safe, TypeOK, Goto
<1>1. h \notin overlapped
  BY DEF Next, ChangeSource, RemoveObject, Capture, CopyAndHash, Prepared,
     CaptureFails, DiscardCapture, Publish, BeginPublish, OpenSnapshot, Put,
     VerifyExisting, MarkPublished, ReturnRef, RaiseFromPublish, Exit, vars,
     handleVars, publishVars
<1>2. OnceAt(h)
  BY <1>1 DEF OnceInv
<1>3. ASSUME NEW c \in Callers, BeginPublish(c) PROVE OnceAt(h)'
  <2>1. UNCHANGED <<published, wins>>
    BY <1>3 DEF BeginPublish
  <2>2. CASE HandleOf[c] = h /\ pc' # pc
    <3>1. /\ pc' = [pc EXCEPT ![c] = "opening"]
          /\ ~published[h]
      BY <1>3, <2>2 DEF BeginPublish, MayPublish
    <3>2. overlapped' = IF \E d \in Users(h) : pc[d] \in InFlight
                        THEN overlapped \cup {h} ELSE overlapped
      BY <1>3, <2>2 DEF BeginPublish
    <3>3. \A d \in Users(h) : pc[d] \notin InFlight
      BY <3>2
    <3>4. \A d \in Users(h) : pc'[d] \in InFlight => d = c
      BY <3>1, <3>3 DEF Users
    <3>5. QED
      BY <1>2, <2>1, <3>1, <3>4 DEF OnceAt, Alone, Users
  <2>3. CASE HandleOf[c] # h \/ pc' = pc
    <3>1. \A d \in Users(h) : pc'[d] = pc[d]
      BY <1>3, <2>3 DEF BeginPublish, Users
    <3>2. QED
      BY <1>2, <2>1, <3>1, OnceKept
  <2>4. QED
    BY <2>2, <2>3
<1>4. ASSUME NEW c \in Callers, MarkPublished(c) PROVE OnceAt(h)'
  <2>1. /\ pc[c] = "stored"
        /\ pc' = [pc EXCEPT ![c] = "closing"]
        /\ published' = [published EXCEPT ![HandleOf[c]] = TRUE]
        /\ wins' = [wins EXCEPT ![HandleOf[c]] = wins[HandleOf[c]] + 1]
    BY <1>4 DEF MarkPublished, MarkedPublished
  <2>2. CASE HandleOf[c] = h
    <3>1. c \in Users(h) /\ pc[c] \in InFlight
      BY <2>1, <2>2 DEF Users, InFlight
    <3>2. ~published[h] /\ wins[h] = 0
      BY <1>2, <3>1 DEF OnceAt
    <3>3. \A d \in Users(h) : pc'[d] \notin InFlight
      BY <1>2, <2>1, <3>1 DEF OnceAt, Alone, Users, InFlight
    <3>4. published'[h] /\ wins'[h] = 1
      BY <2>1, <2>2, <3>2
    <3>5. QED
      BY <3>3, <3>4 DEF OnceAt, Alone, Users
  <2>3. CASE HandleOf[c] # h
    <3>1. \A d \in Users(h) : pc'[d] = pc[d]
      BY <2>1, <2>3 DEF Users
    <3>2. published'[h] = published[h] /\ wins'[h] = wins[h]
      BY <2>1, <2>3
    <3>3. QED
      BY <1>2, <3>1, <3>2, OnceKept
  <2>4. QED
    BY <2>2, <2>3
<1>5. ASSUME NEW c \in Callers,
             \/ OpenSnapshot(c) \/ Put(c) \/ VerifyExisting(c)
             \/ ReturnRef(c) \/ RaiseFromPublish(c)
      PROVE  OnceAt(h)'
  <2>1. UNCHANGED <<published, wins>>
    BY <1>5 DEF OpenSnapshot, Put, VerifyExisting, ReturnRef,
       RaiseFromPublish, handleVars, publishVars
  <2>2. /\ \A d \in Callers : d # c => pc'[d] = pc[d]
        /\ pc'[c] \in InFlight => pc[c] \in InFlight
    BY <1>5 DEF OpenSnapshot, Put, VerifyExisting, ReturnRef,
       RaiseFromPublish, InFlight
  <2>3. QED
    BY <1>2, <2>1, <2>2, OnceKept DEF Users
<1>6. CASE UNCHANGED <<published, wins, pc>>
  BY <1>2, <1>6, OnceKept
<1>7. QED
  BY <1>3, <1>4, <1>5, <1>6 DEF Next, ChangeSource, RemoveObject, Capture,
     CopyAndHash, Prepared, CaptureFails, DiscardCapture, Publish, Exit, vars,
     handleVars, publishVars, callVars

(* No handle is published twice by calls that take turns, whatever fails   *)
(* in between and whoever makes them: a second publication needs a second  *)
(* call that looks at the flags before the first one sets them.            *)
THEOREM AtMostOncePublished == Spec => []PublishedAtMostOnce
<1>1. Init => Safe /\ OnceInv
  BY SafeInit DEF Init, OnceInv, OnceAt, Alone, Users, InFlight
<1>2. Safe /\ OnceInv /\ [Next]_vars => (Safe /\ OnceInv)'
  BY SafeStep, OnceStep
<1>3. Safe /\ OnceInv => PublishedAtMostOnce
  <2>1. ASSUME OnceInv, NEW h \in Handles \ overlapped PROVE wins[h] <= 1
    <3>1. wins[h] = 1 \/ wins[h] = 0
      BY <2>1 DEF OnceInv, OnceAt
    <3>2. QED
      BY <3>1
  <2>2. QED
    BY <2>1 DEF PublishedAtMostOnce
<1>4. QED
  BY <1>1, <1>2, <1>3, PTL DEF Spec

-----------------------------------------------------------------------------
(* The snapshot is gone once the handle is closed; a handle that was       *)
(* published or left and is still active is one whose clean-up raised, or  *)
(* one that a caller is about to close.                                    *)

Discarded(h) == temporary[h] = "gone" \/ h \in stuck

Busy(h) == \E c \in Users(h) : pc[c] # "idle"

DiscardedAt(h) ==
    /\ stage[h] = "discarded" => Discarded(h)
    /\ stage[h] \in {"ready", "left"} /\ ~active[h] => Discarded(h)
    /\ stage[h] \in {"ready", "left"} /\ (stage[h] = "left" \/ calls[h] > 0)
         => Discarded(h) \/ Busy(h)
    /\ published[h] \/ Busy(h) => stage[h] \in {"ready", "left"} /\ calls[h] > 0
    /\ stage[h] \in {"capturing", "discarding"} => calls[h] = 0

DiscardInv == \A h \in Handles : DiscardedAt(h)

(* close() ends with the snapshot discarded, if that held of a closed one. *)
LEMMA CloseDiscards ==
  ASSUME TypeOK, NEW h \in Handles, Close(h), ~active[h] => Discarded(h)
  PROVE  Discarded(h)'
BY CloseEffect DEF Discarded

LEMMA DiscardStep == Safe /\ DiscardInv /\ [Next]_vars => DiscardInv'
<1> SUFFICES ASSUME Safe, DiscardInv, [Next]_vars, NEW h \in Handles
             PROVE  DiscardedAt(h)'
  BY DEF DiscardInv
<1> USE HandleOfAssumption
    DEF captureVars, snapshotVars, publishVars, handleVars, callVars
<1>1. TypeOK /\ DiscardedAt(h) /\ calls[h] \in Nat
  BY DEF Safe, DiscardInv, TypeOK
<1>2. ASSUME \A c \in Users(h) : pc'[c] = pc[c],
             active'[h] = active[h], calls'[h] = calls[h],
             temporary'[h] = temporary[h], published'[h] = published[h],
             stage'[h] = stage[h], h \in stuck' <=> h \in stuck
      PROVE  DiscardedAt(h)'
  BY <1>1, <1>2 DEF DiscardedAt, Discarded, Busy, Users
<1>3. ASSUME NEW g \in Handles, Prepared(g) PROVE DiscardedAt(h)'
  <2>1. CASE g = h
    <3>1. /\ stage[h] = "capturing" /\ stage'[h] = "ready"
          /\ UNCHANGED <<temporary, published, calls, stuck, pc>>
      BY <1>1, <1>3, <2>1 DEF Prepared, Enter, TypeOK
    <3>2. active'[h]
      BY <1>1, <1>3, <2>1 DEF Prepared, TypeOK
    <3>3. QED
      BY <1>1, <3>1, <3>2 DEF DiscardedAt, Busy, Users
  <2>2. CASE g # h
    BY <1>1, <1>2, <1>3, <2>2 DEF Prepared, Enter, TypeOK
  <2>3. QED
    BY <2>1, <2>2
<1>4. ASSUME NEW g \in Handles, CaptureFails(g) \/ DiscardCapture(g)
      PROVE  DiscardedAt(h)'
  <2>1. CASE g = h
    <3>1. /\ stage[h] \in {"capturing", "discarding"}
          /\ stage'[h] \in {"discarding", "discarded"}
          /\ stage'[h] = "discarded" => Discarded(h)'
          /\ UNCHANGED <<active, published, calls, pc>>
      BY <1>1, <1>4, <2>1 DEF CaptureFails, DiscardCapture, Enter, TypeOK,
         Discarded
    <3>2. QED
      BY <1>1, <3>1 DEF DiscardedAt, Busy, Users
  <2>2. CASE g # h
    BY <1>1, <1>2, <1>4, <2>2 DEF CaptureFails, DiscardCapture, Enter, TypeOK
  <2>3. QED
    BY <2>1, <2>2
<1>5. ASSUME NEW c \in Callers, BeginPublish(c) PROVE DiscardedAt(h)'
  <2>0. /\ calls' = [calls EXCEPT ![HandleOf[c]] = calls[HandleOf[c]] + 1]
        /\ pc[c] = "idle" /\ stage[HandleOf[c]] \in {"ready", "left"}
        /\ UNCHANGED <<temporary, active, published, stuck, stage>>
        /\ \/ pc' = pc /\ ~MayPublish(HandleOf[c])
           \/ pc' = [pc EXCEPT ![c] = "opening"]
    BY <1>5 DEF BeginPublish, Goto
  <2>1. CASE HandleOf[c] = h
    <3>1. calls'[h] > 0
      BY <1>1, <2>0, <2>1 DEF TypeOK
    <3>2. CASE pc' = [pc EXCEPT ![c] = "opening"]
      <4>1. Busy(h)'
        BY <1>1, <2>1, <3>2 DEF Busy, Users, TypeOK
      <4>2. QED
        BY <1>1, <2>0, <2>1, <3>1, <4>1 DEF DiscardedAt, Discarded
    <3>3. CASE pc' = pc /\ ~MayPublish(h)
      <4>1. Busy(h)' <=> Busy(h)
        BY <3>3 DEF Busy, Users
      <4>2. Discarded(h)' <=> Discarded(h)
        BY <2>0 DEF Discarded
      <4>3. published[h] \/ ~active[h]
        BY <3>3 DEF MayPublish
      <4>4. Discarded(h) \/ Busy(h)
        BY <1>1, <2>0, <2>1, <4>3 DEF DiscardedAt
      <4>5. QED
        BY <1>1, <2>0, <2>1, <3>1, <4>1, <4>2, <4>4 DEF DiscardedAt
    <3>4. QED
      BY <2>0, <2>1, <3>2, <3>3
  <2>2. CASE HandleOf[c] # h
    <3>1. \A d \in Users(h) : pc'[d] = pc[d]
      BY <1>1, <2>0, <2>2 DEF Users, TypeOK
    <3>2. calls'[h] = calls[h]
      BY <1>1, <2>0, <2>2 DEF TypeOK
    <3>3. QED
      BY <1>2, <2>0, <3>1, <3>2
  <2>3. QED
    BY <2>1, <2>2
<1>6. ASSUME NEW c \in Callers,
             OpenSnapshot(c) \/ Put(c) \/ VerifyExisting(c) \/ MarkPublished(c)
      PROVE  DiscardedAt(h)'
  <2>1. /\ UNCHANGED <<temporary, active, calls, stuck, stage>>
        /\ pc[c] # "idle" /\ pc'[c] # "idle"
        /\ \A d \in Callers : d # c => pc'[d] = pc[d]
        /\ h # HandleOf[c] => published'[h] = published[h]
    BY <1>1, <1>6 DEF OpenSnapshot, Put, VerifyExisting, MarkPublished, Goto,
       TypeOK
  <2>2. Busy(h)' <=> Busy(h)
    BY <2>1 DEF Busy, Users
  <2>3. Discarded(h)' <=> Discarded(h)
    BY <2>1 DEF Discarded
  <2>4. h = HandleOf[c] => Busy(h)
    BY <2>1 DEF Busy, Users
  <2>5. QED
    BY <1>1, <2>1, <2>2, <2>3, <2>4 DEF DiscardedAt
<1>7. ASSUME NEW c \in Callers, ReturnRef(c) \/ RaiseFromPublish(c) \/ Exit(c)
      PROVE  DiscardedAt(h)'
  <2>1. /\ Close(HandleOf[c])
        /\ UNCHANGED <<published, calls>>
        /\ \A d \in Callers : d # c => pc'[d] = pc[d]
        /\ pc'[c] = "idle"
        /\ \A g \in Handles : \/ stage'[g] = stage[g]
                              \/ /\ stage[g] \in {"ready", "left"}
                                 /\ stage'[g] = "left"
                                 /\ g = HandleOf[c]
        /\ pc[c] # "idle" \/ stage[HandleOf[c]] \in {"ready", "left"}
    BY <1>1, <1>7 DEF ReturnRef, RaiseFromPublish, CloseAfterFailure, Exit,
       Goto, Enter, TypeOK
  <2>2. CASE HandleOf[c] = h
    <3>1. stage[h] \in {"ready", "left"}
      BY <1>1, <2>1, <2>2 DEF DiscardedAt, Busy, Users
    <3>2. Discarded(h)'
      BY <1>1, <2>1, <2>2, <3>1, CloseDiscards DEF DiscardedAt
    <3>3. Busy(h)' => Busy(h)
      BY <2>1 DEF Busy, Users
    <3>4. stage'[h] \in {"ready", "left"}
      BY <2>1, <3>1
    <3>5. QED
      BY <1>1, <2>1, <3>2, <3>3, <3>4 DEF DiscardedAt
  <2>3. CASE HandleOf[c] # h
    <3>1. /\ active'[h] = active[h] /\ temporary'[h] = temporary[h]
          /\ h \in stuck' <=> h \in stuck
      BY <1>1, <2>1, <2>3, CloseEffect
    <3>2. \A d \in Users(h) : pc'[d] = pc[d]
      BY <2>1, <2>3 DEF Users
    <3>3. QED
      BY <1>2, <2>1, <2>3, <3>1, <3>2
  <2>4. QED
    BY <2>2, <2>3
<1>8. CASE UNCHANGED <<pc, stage, active, temporary, published, calls, stuck>>
  BY <1>2, <1>8
<1>9. QED
  BY <1>3, <1>4, <1>5, <1>6, <1>7, <1>8 DEF Next, ChangeSource,
     RemoveObject, Capture, CopyAndHash, Publish, vars

(* However a publication or a with statement ended, the snapshot is gone   *)
(* once no caller is in the middle of a call, unless the clean-up itself   *)
(* raised.                                                                 *)
THEOREM SnapshotsAreDiscarded == Spec => []SnapshotDiscarded
<1>1. Init => Safe /\ DiscardInv
  BY SafeInit DEF Init, DiscardInv, DiscardedAt, Discarded, Busy, Users
<1>2. Safe /\ DiscardInv /\ [Next]_vars => (Safe /\ DiscardInv)'
  BY SafeStep, DiscardStep
<1>3. Safe /\ DiscardInv => SnapshotDiscarded
  <2> SUFFICES ASSUME Safe, DiscardInv, NEW h \in Handles,
                      ~Busy(h),
                      stage[h] \in {"discarded", "left"} \/ calls[h] > 0
               PROVE  Discarded(h)
    BY DEF SnapshotDiscarded, Busy, Discarded
  <2>1. stage[h] \in Stages /\ DiscardedAt(h)
    BY DEF Safe, TypeOK, DiscardInv
  <2>2. QED
    BY <2>1 DEF DiscardedAt, Stages
<1>4. QED
  BY <1>1, <1>2, <1>3, PTL DEF Spec

-----------------------------------------------------------------------------
(* Publication implements BlobPromise.  Each step of a caller changes its  *)
(* own call only, and which step of the promise it is depends on nothing   *)
(* but the places before and after it.                                     *)

PromisedCalls == [c \in Callers |-> CallOf(c)]

(* The places of a caller whose call the promise does not see. *)
Apart == {"idle", "failing"}

LEMMA CallInFlight ==
  ASSUME Safe, NEW c \in Callers, pc[c] \notin Apart
  PROVE  /\ CallOf(c) # None
         /\ CallOf(c).domain = domain[c]
         /\ Promise!KeyOf(c) = KeyOf(c)
         /\ KeyOf(c) \in Keys
<1>1. pc[c] \in InPublish
  BY DEF Safe, TypeOK, Places, InPublish, Apart
<1>2. CallOf(c) = [domain |-> domain[c], stored |-> pc[c] \in {"stored", "closing"}]
  BY DEF CallOf, Apart
<1>3. domain[c] \in Domains
  BY <1>1 DEF Safe, PublishReady
<1>4. CallOf(c) \in PublishCalls
  BY <1>2, <1>3 DEF PublishCalls
<1>5. CallOf(c) # None
  BY <1>4, NoneAssumption
<1>6. Promise!KeyOf(c) = KeyOf(c)
  BY <1>2 DEF Promise!KeyOf, Promise!Content, KeyOf
<1>7. KeyOf(c) \in Keys
  BY <1>1, KeyInKeys DEF Safe
<1>8. QED
  BY <1>2, <1>5, <1>6, <1>7

CallAt(place, d) ==
    IF place \in Apart THEN None
    ELSE [domain |-> d, stored |-> place \in {"stored", "closing"}]

LEMMA CallTable ==
  ASSUME NEW place, NEW d
  PROVE  /\ place \in Apart => CallAt(place, d) = None
         /\ place \in {"opening", "putting", "verifying"} =>
               CallAt(place, d) = [domain |-> d, stored |-> FALSE]
         /\ place \in {"stored", "closing"} =>
               CallAt(place, d) = [domain |-> d, stored |-> TRUE]
<1>1. place \in {"opening", "putting", "verifying"} =>
         place \notin Apart /\ (place \in {"stored", "closing"}) = FALSE
  BY DEF Apart
<1>2. place \in {"stored", "closing"} =>
         place \notin Apart /\ (place \in {"stored", "closing"}) = TRUE
  BY DEF Apart
<1>3. QED
  BY <1>1, <1>2, Zenon DEF CallAt

(* A step of c, seen as a change of c's call. *)
LEMMA OneCallChanges ==
  ASSUME NEW c \in Callers, NEW new, CallOf(c)' = new,
         \A d \in Callers \ {c} : pc'[d] = pc[d] /\ domain'[d] = domain[d]
  PROVE  PromisedCalls' = [PromisedCalls EXCEPT ![c] = new]
<1>1. \A d \in Callers \ {c} : CallOf(d)' = CallOf(d)
  BY DEF CallOf
<1>2. PromisedCalls' = [d \in Callers |-> IF d = c THEN new ELSE CallOf(d)]
  BY <1>1 DEF PromisedCalls
<1>3. QED
  BY <1>2 DEF PromisedCalls

LEMMA NoCallChanges ==
  ASSUME \A d \in Callers : CallOf(d)' = CallOf(d)
  PROVE  PromisedCalls' = PromisedCalls
BY DEF PromisedCalls

LEMMA CallStep ==
  ASSUME Safe, NEW c \in Callers,
         Publish(c) \/ Exit(c)
  PROVE  [Promise!Next]_Promise!vars
<1> DEFINE h == HandleOf[c]
           d == domain[c]
<1> USE HandleOfAssumption
    DEF Goto, captureVars, handleVars, callVars, snapshotVars, publishVars
<1>0. /\ pc \in [Callers -> Places]
      /\ domain \in [Callers -> Domains \cup {None}]
      /\ stored \in [Keys -> Contents \cup {None}]
      /\ refs \in [Callers -> SUBSET Keys]
      /\ calls \in [Handles -> 0..MaxPublish]
  BY DEF Safe, TypeOK
<1> DEFINE Unstored(e) == [domain |-> e, stored |-> FALSE]
           Stored(e) == [domain |-> e, stored |-> TRUE]
<1>a. /\ CallOf(c) = CallAt(pc[c], domain[c])
      /\ CallOf(c)' = CallAt(pc'[c], domain'[c])
  BY DEF CallOf, CallAt, Apart
<1>b. pc[c] \notin Apart => PromisedCalls[c].domain = d
  BY CallInFlight DEF PromisedCalls
<1>1. \A e \in Callers \ {c} : pc'[e] = pc[e] /\ domain'[e] = domain[e]
  BY <1>0 DEF Publish, BeginPublish, OpenSnapshot, Put, VerifyExisting,
     MarkPublished, ReturnRef, RaiseFromPublish, Exit
<1>2. UNCHANGED content
  BY DEF Publish, BeginPublish, OpenSnapshot, Put, VerifyExisting,
     MarkPublished, ReturnRef, RaiseFromPublish, Exit
<1>3. ASSUME NEW e \in Domains, content[h] # None,
             pc[c] = "idle", pc'[c] = "opening", domain'[c] = e,
             UNCHANGED <<stored, refs>>
      PROVE  Promise!Begin(c)
  <2>1. CallOf(c) = None /\ CallOf(c)' = [domain |-> e, stored |-> FALSE]
    BY <1>3, <1>a, CallTable DEF Apart
  <2>2. PromisedCalls' = [PromisedCalls EXCEPT
                            ![c] = [domain |-> e, stored |-> FALSE]]
    BY <1>1, <2>1, OneCallChanges
  <2>3. QED
    BY <1>2, <1>3, <2>1, <2>2
    DEF Promise!Begin, Promise!Content, Promise!Enter, PromisedCalls
<1>4. ASSUME CallOf(c)' = CallOf(c), UNCHANGED <<stored, refs>>
      PROVE  UNCHANGED Promise!vars
  <2>1. PromisedCalls' = PromisedCalls
    BY <1>1, <1>4, NoCallChanges DEF CallOf
  <2>2. QED
    BY <1>2, <1>4, <2>1 DEF Promise!vars, PromisedCalls
<1>5. ASSUME pc[c] \notin Apart, pc'[c] \in Apart, UNCHANGED <<stored, refs>>
      PROVE  Promise!GiveUp(c)
  <2>1. CallOf(c) # None /\ CallOf(c)' = None
    BY <1>5, <1>a, CallInFlight, CallTable
  <2>2. PromisedCalls' = [PromisedCalls EXCEPT ![c] = None]
    BY <1>1, <2>1, OneCallChanges
  <2>3. QED
    BY <1>2, <1>5, <2>1, <2>2
    DEF Promise!GiveUp, Promise!Leave, PromisedCalls
<1>6. CASE BeginPublish(c)
  <2>1. CASE UNCHANGED <<pc, domain>>
    BY <1>4, <1>6, <2>1 DEF BeginPublish, CallOf
  <2>2. CASE ~UNCHANGED <<pc, domain>>
    <3>1. /\ pc[c] = "idle" /\ pc'[c] = "opening"
          /\ MayPublish(h)
          /\ UNCHANGED <<stored, refs>>
      BY <1>0, <1>6, <2>2 DEF BeginPublish
    <3>2. content[h] # None
      BY <3>1 DEF MayPublish, Safe, ActiveHasContent
    <3>3. domain'[c] \in Tenants \cup {<<h, calls'[h]>>}
      <4>1. PICK e \in Tenants \cup {<<h, calls'[h]>>} :
               domain' = [domain EXCEPT ![c] = e]
        BY <1>6, <2>2 DEF BeginPublish
      <4>2. domain'[c] = e
        BY <1>0, <4>1
      <4>3. QED
        BY <4>2
    <3>4. calls'[h] \in 1..MaxPublish
      <4>1. /\ calls[h] \in 0..MaxPublish /\ calls[h] < MaxPublish
            /\ calls'[h] = calls[h] + 1
        BY <1>0, <1>6 DEF BeginPublish
      <4>2. QED
        BY <4>1, NoneAssumption
    <3>5. domain'[c] \in Domains
      BY <3>3, <3>4 DEF Domains
    <3>6. QED
      BY <1>3, <3>1, <3>2, <3>5 DEF Promise!Next
  <2>3. QED
    BY <2>1, <2>2
<1>7. CASE OpenSnapshot(c)
  <2>1. /\ pc[c] = "opening" /\ pc'[c] \in {"putting", "failing"}
        /\ UNCHANGED <<domain, stored, refs>>
    BY <1>0, <1>7 DEF OpenSnapshot
  <2>2. CASE pc'[c] = "putting"
    BY <1>4, <2>1, <2>2, <1>a, CallTable
  <2>3. CASE pc'[c] = "failing"
    BY <1>5, <2>1, <2>3 DEF Apart, Promise!Next
  <2>4. QED
    BY <2>1, <2>2, <2>3
<1>8. CASE Put(c)
  <2>1. pc[c] = "putting" /\ UNCHANGED <<domain, refs>>
    BY <1>0, <1>8 DEF Put
  <2>2. /\ CallOf(c) = [domain |-> d, stored |-> FALSE]
        /\ CallOf(c) # None
        /\ Promise!KeyOf(c) = KeyOf(c)
        /\ KeyOf(c) \in Keys
    BY <2>1, <1>a, CallTable, CallInFlight DEF Apart
  <2>3. Staged(c) = content[h]
    BY <2>1, KeyHasDigest DEF InPublish, InFlight, Staged
  <2>4. CASE stored[KeyOf(c)] = None /\ stored' = [stored EXCEPT ![KeyOf(c)] = Staged(c)]
    <3>1. pc'[c] \in {"stored", "failing"}
      BY <1>0, <1>8, <2>2, <2>4 DEF Put
    <3>2. \/ CallOf(c)' = [domain |-> d, stored |-> TRUE]
          \/ CallOf(c)' = None
      BY <2>1, <3>1, <1>a, CallTable DEF Apart
    <3>3. \/ PromisedCalls' = [PromisedCalls EXCEPT
                                 ![c] = [domain |-> d, stored |-> TRUE]]
          \/ PromisedCalls' = [PromisedCalls EXCEPT ![c] = None]
      BY <1>1, <3>2, OneCallChanges
    <3>4. Promise!Store(c)
      <4>1. Promise!InCall(c, FALSE)
        BY <2>2 DEF Promise!InCall
      <4>2. \/ Promise!Enter(c, PromisedCalls[c].domain, TRUE)
            \/ Promise!Leave(c)
        <5>1. PromisedCalls[c].domain = d
          BY <2>1, <2>2, <1>b DEF Apart
        <5>2. QED
          BY <3>3, <5>1 DEF Promise!Enter, Promise!Leave, PromisedCalls
      <4>3. /\ stored[Promise!KeyOf(c)] = None
            /\ stored' = [stored EXCEPT ![Promise!KeyOf(c)] = Promise!Content(c)]
        BY <2>2, <2>3, <2>4 DEF Promise!Content
      <4>4. QED
        BY <1>2, <2>1, <4>1, <4>2, <4>3 DEF Promise!Store, PromisedCalls
    <3>5. QED
      BY <3>4 DEF Promise!Next
  <2>5. CASE stored' = stored /\ pc'[c] = "verifying"
    BY <1>4, <2>1, <2>5, <1>a, CallTable
  <2>6. CASE stored' = stored /\ pc'[c] = "failing"
    BY <1>5, <2>1, <2>6 DEF Apart, Promise!Next
  <2>7. QED
    BY <1>0, <1>8, <2>4, <2>5, <2>6 DEF Put
<1>9. CASE VerifyExisting(c)
  <2>1. pc[c] = "verifying" /\ UNCHANGED <<domain, stored, refs>>
    BY <1>0, <1>9 DEF VerifyExisting
  <2>2. CASE SameContent(c) /\ pc'[c] = "stored"
    <3>1. /\ CallOf(c) = [domain |-> d, stored |-> FALSE]
          /\ CallOf(c) # None
          /\ Promise!KeyOf(c) = KeyOf(c)
      BY <2>1, <1>a, CallTable, CallInFlight DEF Apart
    <3>2. CallOf(c)' = [domain |-> d, stored |-> TRUE]
      BY <2>1, <2>2, <1>a, CallTable
    <3>3. PromisedCalls' = [PromisedCalls EXCEPT
                              ![c] = [domain |-> d, stored |-> TRUE]]
      BY <1>1, <3>2, OneCallChanges
    <3>4. Promise!Reuse(c)
      <4>1. Promise!InCall(c, FALSE)
        BY <3>1 DEF Promise!InCall
      <4>2. Promise!Enter(c, PromisedCalls[c].domain, TRUE)
        <5>1. PromisedCalls[c].domain = d
          BY <2>1, <3>1, <1>b DEF Apart
        <5>2. QED
          BY <3>3, <5>1 DEF Promise!Enter, PromisedCalls
      <4>3. stored[Promise!KeyOf(c)] = Promise!Content(c)
        BY <2>2, <3>1 DEF SameContent, Promise!Content
      <4>4. QED
        BY <1>2, <2>1, <4>1, <4>2, <4>3 DEF Promise!Reuse, PromisedCalls
    <3>5. QED
      BY <3>4 DEF Promise!Next
  <2>3. CASE pc'[c] = "failing"
    BY <1>5, <2>1, <2>3 DEF Apart, Promise!Next
  <2>4. QED
    BY <1>0, <1>9, <2>2, <2>3 DEF VerifyExisting
<1>10. CASE MarkPublished(c)
  <2>1. CallOf(c)' = CallOf(c) /\ UNCHANGED <<stored, refs>>
    BY <1>0, <1>10, <1>a, CallTable DEF MarkPublished
  <2>2. QED
    BY <1>4, <2>1
<1>11. CASE ReturnRef(c)
  <2>1. /\ pc[c] = "closing" /\ pc'[c] = "idle"
        /\ UNCHANGED <<domain, stored>>
    BY <1>0, <1>11 DEF ReturnRef
  <2>2. CASE refs' = refs
    BY <1>5, <2>1, <2>2 DEF Apart, Promise!Next
  <2>3. CASE refs' = [refs EXCEPT ![c] = @ \cup {KeyOf(c)}]
    <3>1. /\ CallOf(c) = [domain |-> d, stored |-> TRUE]
          /\ CallOf(c) # None
          /\ Promise!KeyOf(c) = KeyOf(c)
      BY <2>1, <1>a, CallTable, CallInFlight DEF Apart
    <3>2. CallOf(c)' = None
      BY <2>1, <1>a, CallTable DEF Apart
    <3>3. PromisedCalls' = [PromisedCalls EXCEPT ![c] = None]
      BY <1>1, <3>2, OneCallChanges
    <3>4. Promise!Return(c)
      BY <1>2, <2>1, <2>3, <3>1, <3>3
      DEF Promise!Return, Promise!InCall, Promise!Leave, PromisedCalls
    <3>5. QED
      BY <3>4 DEF Promise!Next
  <2>4. QED
    BY <1>11, <2>2, <2>3 DEF ReturnRef
<1>12. CASE RaiseFromPublish(c)
  <2>1. CallOf(c)' = CallOf(c) /\ UNCHANGED <<stored, refs>>
    BY <1>0, <1>12, <1>a, CallTable DEF RaiseFromPublish, Apart
  <2>2. QED
    BY <1>4, <2>1
<1>13. CASE Exit(c)
  <2>1. CallOf(c)' = CallOf(c) /\ UNCHANGED <<stored, refs>>
    BY <1>0, <1>13 DEF Exit, CallOf
  <2>2. QED
    BY <1>4, <2>1
<1>14. QED
  BY <1>6, <1>7, <1>8, <1>9, <1>10, <1>11, <1>12, <1>13 DEF Publish

LEMMA PromiseInit == Init => Promise!Init
<1> SUFFICES ASSUME Init PROVE Promise!Init
  OBVIOUS
<1>1. stored \in [Keys -> Contents \cup {None}]
  BY SafeInit DEF Safe, TypeOK
<1>2. PromisedCalls = [c \in Callers |-> None]
  BY DEF Init, PromisedCalls, CallOf
<1>3. QED
  BY <1>1, <1>2 DEF Init, Promise!Init, Promise!Keys, Keys, PromisedCalls

LEMMA PromiseStep == Safe /\ [Next]_vars => [Promise!Next]_Promise!vars
<1> SUFFICES ASSUME Safe, [Next]_vars PROVE [Promise!Next]_Promise!vars
  OBVIOUS
<1> USE DEF captureVars, handleVars, callVars
<1>1. ASSUME UNCHANGED <<content, stored, pc, domain, refs>>
      PROVE  UNCHANGED Promise!vars
  <2>1. PromisedCalls' = PromisedCalls
    BY <1>1, NoCallChanges DEF CallOf
  <2>2. QED
    BY <1>1, <2>1 DEF Promise!vars, PromisedCalls
<1>2. ASSUME NEW k \in Keys, RemoveObject(k) PROVE Promise!Remove(k)
  <2>1. PromisedCalls' = PromisedCalls
    BY <1>2, NoCallChanges DEF RemoveObject, CallOf
  <2>2. QED
    BY <1>2, <2>1 DEF RemoveObject, Promise!Remove, PromisedCalls
<1>3. ASSUME NEW h \in Handles, Prepared(h) PROVE Promise!Capture(h)
  <2>1. content[h] = None
    BY <1>3 DEF Prepared, Safe, ContentIsSpool
  <2>2. spool[h] \in Contents
    BY <1>3, SnapshotIsContent DEF Prepared, SourceRead, Safe, TypeOK
  <2>3. PromisedCalls' = PromisedCalls
    BY <1>3, NoCallChanges DEF Prepared, CallOf
  <2>4. QED
    BY <1>3, <2>1, <2>2, <2>3
    DEF Prepared, Hashed, Promise!Capture, PromisedCalls
<1>4. Promise!Keys = Keys
  BY DEF Promise!Keys, Keys
<1>5. ASSUME NEW h \in Handles, Capture(h), ~Prepared(h)
      PROVE  UNCHANGED <<content, stored, pc, domain, refs>>
  BY <1>5 DEF Capture, CopyAndHash, CaptureFails, DiscardCapture
<1>6. QED
  BY <1>1, <1>2, <1>3, <1>4, <1>5, CallStep
  DEF Next, ChangeSource, vars, Promise!Next

(* Capture and publication do, step by step, what BlobPromise says.        *)
THEOREM PublicationIsAtomic == Spec => PublishesAtomically
<1>1. Init => Safe
  BY SafeInit
<1>2. Safe /\ [Next]_vars => Safe'
  BY SafeStep
<1>3. QED
  BY <1>1, <1>2, PromiseInit, PromiseStep, PTL
  DEF Spec, PublishesAtomically, Promise!Spec

=============================================================================
