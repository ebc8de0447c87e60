-------------------------- MODULE ClientCallsProofs --------------------------
(***************************************************************************)
(* Theorems about ClientCalls, for any sets of keys, values, writers,      *)
(* locates and deletes, and backends with or without native paths.         *)
(***************************************************************************)
EXTENDS ClientCalls, TLAPS

-----------------------------------------------------------------------------
(* The inductive invariant, in named parts. *)

(* Puts that published, whatever they then told their caller. *)
Published == {"published", "measured", "created", "unreported"}

(* All uses of the backend by one call are of one key. *)
OneKeyPerCall ==
    /\ \A w \in Writers : /\ target[<<w, "open">>] = target[w]
                          /\ target[<<w, "stat">>] = target[w]
    /\ \A l \in Locates :
          /\ target[<<l, "resolve">>] = target[<<l, "exists">>]
          /\ target[<<l, "stat">>] = target[<<l, "exists">>]

(* An object is under a key because its own put published it there. *)
Owned ==
    \A k \in Keys : Store!Present(k) => /\ target[objects[k]] = k
                                        /\ status[objects[k]] \in Published

(* What was published stays until a delete. *)
Kept ==
    \A w \in Writers : status[w] \in Published /\ ~Deleted(target[w]) =>
        objects[target[w]] = w

(* What a put was refused for stays until a delete. *)
RefusedFor ==
    \A w \in Writers :
      status[w] \in {"beaten", "exists"} /\ ~Deleted(target[w]) =>
        Store!Present(target[w])

(* An object that was published under key k, and perhaps removed since. *)
Stored(k, f) == target[f] = k /\ status[f] \in Published

(* A read that answered holds one object published under its key. *)
HeldOne ==
    \A r \in Reads : Opened(r) =>
        \E f \in Writers : held[r] = {f} /\ Stored(target[r], f)

(* A stat has the size and the time of objects published under its key,    *)
(* which are two objects only if a delete came in between: see Kept.       *)
SizedOne ==
    \A r \in Reads : status[r] \in {"measured", "described"} =>
        sized[r] \in Writers /\ Stored(target[r], sized[r])

DescribedOne ==
    \A r \in Reads :
      /\ status[r] \in {"pending", "measured"} => described[r] = {}
      /\ Described(r) =>
           \E g \in Writers : /\ described[r] = {<<sized[r], g>>}
                              /\ Stored(target[r], g)

(* A refused put, or a locate that found the object, only misses it later  *)
(* if somebody deleted it.                                                 *)
MissedDeleted ==
    /\ \A w \in Writers : \A use \in {"open", "stat"} :
          status[<<w, use>>] \in Missed => Deleted(target[w])
    /\ \A l \in Locates : \A use \in {"resolve", "stat"} :
          status[<<l, use>>] \in Missed => Deleted(target[<<l, use>>])

IInv ==
    /\ TypeOK
    /\ OneKeyPerCall
    /\ Owned
    /\ Kept
    /\ RefusedFor
    /\ HeldOne
    /\ SizedOne
    /\ DescribedOne
    /\ MissedDeleted

-----------------------------------------------------------------------------
LEMMA ReadsFacts ==
  /\ \A w \in Writers : <<w, "open">> \in Reads /\ <<w, "stat">> \in Reads
  /\ \A l \in Locates : /\ <<l, "exists">> \in Reads
                        /\ <<l, "resolve">> \in Reads
                        /\ <<l, "stat">> \in Reads
  /\ \A r \in Reads : \/ \E w \in Writers : r = <<w, "open">> \/ r = <<w, "stat">>
                      \/ \E l \in Locates : \/ r = <<l, "exists">>
                                            \/ r = <<l, "resolve">>
                                            \/ r = <<l, "stat">>
BY DEF Reads

LEMMA StoreSets ==
  /\ Store!Keyed = Writers \cup Reads \cup Deletes
  /\ Store!Calls = Writers \cup Reads \cup Deletes
  /\ Store!Describers = Writers \cup Reads
BY DEF Store!Keyed, Store!Calls, Store!Describers

(* One use of the backend as a step of the status function. *)
LEMMA StatusMove ==
  ASSUME TypeOK, NEW c \in Store!Calls, NEW a, Store!Answer(c, a)
  PROVE  /\ status' = [status EXCEPT ![c] = a]
         /\ status'[c] = a
         /\ \A d \in Store!Calls : d # c => status'[d] = status[d]
BY DEF TypeOK, Store!Answer

(* The reads, by how they look: stat twice, every other once. *)
Asks(r) == IF r[2] = "stat" THEN Stat(r) ELSE Look(r)

(* The places a step of put_bytes can start from and end in. *)
LEMMA PutMoves ==
  ASSUME TypeOK, NEW w \in Writers, PutBytes(w)
  PROVE
  /\ UNCHANGED <<target, held>>
  /\ status' = [status EXCEPT ![w] = status'[w]]
  /\ \A d \in Store!Calls : d # w => status'[d] = status[d]
  /\ \A r \in Reads : sized'[r] = sized[r] /\ described'[r] = described[r]
  /\ \/ /\ status[w] = "pending" /\ status'[w] = "published"
        /\ ~Store!Present(target[w])
        /\ objects' = [objects EXCEPT ![target[w]] = w]
        /\ UNCHANGED <<sized, described>>
     \/ /\ status[w] = "pending" /\ status'[w] \in {"beaten", "exists"}
        /\ Store!Present(target[w])
        /\ UNCHANGED <<objects, sized, described>>
     \/ /\ status[w] \in {"published", "measured"} /\ status'[w] = "unreported"
        /\ UNCHANGED <<objects, sized, described>>
     \/ /\ status[w] = "beaten" /\ status'[w] \in {"exists", "failed"}
        /\ UNCHANGED <<objects, sized, described>>
     \/ /\ status[w] = "pending" /\ status'[w] = "failed"
        /\ UNCHANGED <<objects, sized, described>>
     \/ /\ status[w] = "published" /\ status'[w] = "measured"
        /\ Store!Present(target[w])
        /\ sized' = [sized EXCEPT ![w] = objects[target[w]]]
        /\ UNCHANGED <<objects, described>>
     \/ /\ status[w] = "measured" /\ status'[w] = "created"
        /\ Store!Present(target[w])
        /\ described' = [described EXCEPT
               ![w] = @ \cup {<<sized[w], objects[target[w]]>>}]
        /\ UNCHANGED <<objects, sized>>
<1> USE StoreSets DEF Store!Pending, Store!Measured
<1>0. w \in Store!Calls /\ w \notin Reads
  BY CallsDistinct
<1>1. CASE Store!Publish(w)
  <2>1. Store!Answer(w, "published")
    BY <1>1 DEF Store!Publish
  <2>2. QED
    BY <1>0, <1>1, <2>1, StatusMove DEF Store!Publish, Store!answers
<1>2. CASE Store!Refuse(w)
  <2>1. PICK a \in {"beaten", "exists"} : Store!Answer(w, a)
    BY <1>2 DEF Store!Refuse
  <2>2. QED
    BY <1>0, <1>2, <2>1, StatusMove DEF Store!Refuse, Store!answers
<1>3. CASE Store!Confirm(w)
  <2>1. UNCHANGED <<objects, target, held, sized, described>>
    BY <1>3 DEF Store!Confirm, Store!answers
  <2>2. CASE /\ status[w] \in {"published", "measured"}
             /\ Store!Answer(w, "unreported")
    BY <1>0, <2>1, <2>2, StatusMove
  <2>3. CASE /\ status[w] = "beaten"
             /\ \E a \in {"exists", "failed"} : Store!Answer(w, a)
    <3>1. PICK a \in {"exists", "failed"} : Store!Answer(w, a)
      BY <2>3
    <3>2. QED
      BY <1>0, <2>1, <2>3, <3>1, StatusMove
  <2>4. QED
    BY <1>3, <2>2, <2>3 DEF Store!Confirm
<1>4. CASE Store!Abandon(w)
  <2>1. Store!Answer(w, "failed")
    BY <1>4 DEF Store!Abandon
  <2>2. QED
    BY <1>0, <1>4, <2>1, StatusMove DEF Store!Abandon, Store!answers
<1>5. CASE Store!MeasureStored(w)
  <2>1. /\ Store!Answer(w, "measured")
        /\ status[w] = "published"
        /\ Store!Present(target[w])
        /\ sized' = [sized EXCEPT ![w] = objects[target[w]]]
        /\ UNCHANGED <<objects, target, held, described>>
    BY <1>5 DEF Store!MeasureStored, Store!TakeSize
  <2>2. \A r \in Reads : sized'[r] = sized[r]
    BY <1>0, <2>1 DEF TypeOK
  <2>3. QED
    BY <1>0, <2>1, <2>2, StatusMove
<1>6. CASE Store!DateStored(w)
  <2>1. /\ Store!Answer(w, "created")
        /\ status[w] = "measured"
        /\ Store!Present(target[w])
        /\ described' = [described EXCEPT
               ![w] = @ \cup {<<sized[w], objects[target[w]]>>}]
        /\ UNCHANGED <<objects, target, held, sized>>
    BY <1>6 DEF Store!DateStored, Store!TakeTime
  <2>2. \A r \in Reads : described'[r] = described[r]
    BY <1>0, <2>1 DEF TypeOK
  <2>3. QED
    BY <1>0, <2>1, <2>2, StatusMove
<1>7. QED
  BY <1>1, <1>2, <1>3, <1>4, <1>5, <1>6 DEF PutBytes, Store!PutStep

(* The places a look of a read can start from and end in. *)
LEMMA ReadMoves ==
  ASSUME TypeOK, NEW r \in Reads, Asks(r)
  PROVE
  /\ UNCHANGED <<objects, target>>
  /\ status' = [status EXCEPT ![r] = status'[r]]
  /\ \A d \in Store!Calls : d # r => status'[d] = status[d]
  /\ \A q \in Reads : q # r => /\ held'[q] = held[q]
                               /\ sized'[q] = sized[q]
                               /\ described'[q] = described[q]
  /\ \/ /\ r[2] # "stat" /\ status[r] = "pending" /\ status'[r] = "opened"
        /\ Store!Present(target[r])
        /\ held' = [held EXCEPT ![r] = {objects[target[r]]}]
        /\ UNCHANGED <<sized, described>>
     \/ /\ r[2] = "stat" /\ status[r] = "pending" /\ status'[r] = "measured"
        /\ Store!Present(target[r])
        /\ sized' = [sized EXCEPT ![r] = objects[target[r]]]
        /\ UNCHANGED <<held, described>>
     \/ /\ r[2] = "stat" /\ status[r] = "measured" /\ status'[r] = "described"
        /\ Store!Present(target[r])
        /\ described' = [described EXCEPT
               ![r] = @ \cup {<<sized[r], objects[target[r]]>>}]
        /\ UNCHANGED <<held, sized>>
     \/ /\ \/ status[r] = "pending"
           \/ r[2] = "stat" /\ status[r] = "measured"
        /\ status'[r] \in Missed
        /\ ~Store!Present(target[r])
        /\ UNCHANGED <<held, sized, described>>
<1> USE StoreSets DEF Store!Pending, Store!Measured
<1>0. r \in Store!Calls
  OBVIOUS
<1>1. CASE r[2] # "stat" /\ Store!Observe(r)
  <2>1. /\ Store!Answer(r, "opened")
        /\ status[r] = "pending"
        /\ Store!Present(target[r])
        /\ held' = [held EXCEPT ![r] = {objects[target[r]]}]
        /\ UNCHANGED <<objects, target, sized, described>>
    BY <1>1 DEF Store!Observe
  <2>2. \A q \in Reads : q # r => held'[q] = held[q]
    BY <2>1 DEF TypeOK
  <2>3. QED
    BY <1>0, <1>1, <2>1, <2>2, StatusMove
<1>2. CASE r[2] = "stat" /\ Store!Measure(r)
  <2>1. /\ Store!Answer(r, "measured")
        /\ status[r] = "pending"
        /\ Store!Present(target[r])
        /\ sized' = [sized EXCEPT ![r] = objects[target[r]]]
        /\ UNCHANGED <<objects, target, held, described>>
    BY <1>2 DEF Store!Measure, Store!TakeSize
  <2>2. \A q \in Reads : q # r => sized'[q] = sized[q]
    BY <2>1 DEF TypeOK
  <2>3. QED
    BY <1>0, <1>2, <2>1, <2>2, StatusMove
<1>3. CASE r[2] = "stat" /\ Store!Date(r)
  <2>1. /\ Store!Answer(r, "described")
        /\ status[r] = "measured"
        /\ Store!Present(target[r])
        /\ described' = [described EXCEPT
               ![r] = @ \cup {<<sized[r], objects[target[r]]>>}]
        /\ UNCHANGED <<objects, target, held, sized>>
    BY <1>3 DEF Store!Date, Store!TakeTime
  <2>2. \A q \in Reads : q # r => described'[q] = described[q]
    BY <2>1 DEF TypeOK
  <2>3. QED
    BY <1>0, <1>3, <2>1, <2>2, StatusMove
<1>4. CASE Store!Miss(r)
  <2>1. PICK a \in Missed : Store!Answer(r, a)
    BY <1>4 DEF Store!Miss, Missed
  <2>2. status[r] = "measured" => r[2] = "stat"
    BY DEF TypeOK, Done, Missed
  <2>3. QED
    BY <1>0, <1>4, <2>1, <2>2, StatusMove DEF Store!Miss, Store!answers
<1>5. QED
  BY <1>1, <1>2, <1>3, <1>4 DEF Asks, Look, Stat

LEMMA DeleteMoves ==
  ASSUME TypeOK, NEW d \in Deletes, Delete(d)
  PROVE
  /\ UNCHANGED <<target, held, sized, described>>
  /\ status[d] = "pending"
  /\ status' = [status EXCEPT ![d] = status'[d]]
  /\ \A c \in Store!Calls : c # d => status'[c] = status[c]
  /\ \/ /\ status'[d] = "deleted"
        /\ Store!Present(target[d])
        /\ objects' = [objects EXCEPT ![target[d]] = NoFile]
     \/ /\ status'[d] \in Missed
        /\ ~Store!Present(target[d])
        /\ UNCHANGED objects
<1> USE StoreSets DEF Store!Pending, Store!Measured
<1>0. d \in Store!Calls
  OBVIOUS
<1>1. CASE Store!Remove(d)
  <2>1. Store!Answer(d, "deleted")
    BY <1>1 DEF Store!Remove
  <2>2. QED
    BY <1>0, <1>1, <2>1, StatusMove DEF Store!Remove, Store!answers
<1>2. CASE Store!Miss(d)
  <2>1. PICK a \in Missed : Store!Answer(d, a)
    BY <1>2 DEF Store!Miss, Missed
  <2>2. status[d] = "pending"
    BY <1>2 DEF Store!Miss, TypeOK, Missed
  <2>3. QED
    BY <1>0, <1>2, <2>1, <2>2, StatusMove DEF Store!Miss, Store!answers
<1>3. QED
  BY <1>1, <1>2 DEF Delete

(* The type invariant, in the parts a step treats alike. *)
DataTyped ==
    /\ objects \in [Keys -> Writers \cup {NoFile}]
    /\ target \in [Store!Keyed -> Keys]
    /\ held \in [Reads -> SUBSET Writers]
    /\ sized \in [Writers \cup Reads -> Writers \cup {NoFile}]
    /\ described \in [Writers \cup Reads -> SUBSET (Writers \X Writers)]

MeasuredSized ==
    \A c \in Writers \cup Reads : status[c] = "measured" => sized[c] # NoFile

StatusTyped ==
    /\ DOMAIN status = Store!Calls
    /\ \A w \in Writers : status[w] \in PutAnswers
    /\ \A r \in Reads : status[r] \in {"pending"} \cup Missed \cup Done(r)
    /\ \A d \in Deletes : status[d] \in Missed \cup {"pending", "deleted"}

InOrder ==
    /\ \A w \in Writers :
          /\ Used(<<w, "open">>) => status[w] = "exists"
          /\ Used(<<w, "stat">>) => Opened(<<w, "open">>)
    /\ \A l \in Locates :
          /\ Used(<<l, "resolve">>) => paths /\ Opened(<<l, "exists">>)
          /\ Used(<<l, "stat">>) =>
                IF paths THEN Opened(<<l, "resolve">>) ELSE Opened(<<l, "exists">>)

LEMMA TypeParts ==
  /\ TypeOK <=> /\ DataTyped /\ MeasuredSized /\ StatusTyped /\ InOrder
                /\ value \in [Writers -> Values] /\ paths \in BOOLEAN
  /\ TypeOK' <=> /\ DataTyped' /\ MeasuredSized' /\ StatusTyped' /\ InOrder'
                 /\ value' \in [Writers -> Values] /\ paths' \in BOOLEAN
<1>1. TypeOK <=> /\ DataTyped /\ MeasuredSized /\ StatusTyped /\ InOrder
                 /\ value \in [Writers -> Values] /\ paths \in BOOLEAN
  BY DEF TypeOK, DataTyped, MeasuredSized, StatusTyped, InOrder
<1>2. TypeOK' <=> /\ DataTyped' /\ MeasuredSized' /\ StatusTyped' /\ InOrder'
                  /\ value' \in [Writers -> Values] /\ paths' \in BOOLEAN
  BY DEF TypeOK, DataTyped, MeasuredSized, StatusTyped, InOrder
<1>3. QED
  BY <1>1, <1>2

LEMMA PutTyped ==
  ASSUME TypeOK, NEW w \in Writers, PutBytes(w), UNCHANGED <<value, paths>>
  PROVE  TypeOK'
<1> USE StoreSets, ReadsFacts, CallsDistinct DEF Store!Present
<1>0. DataTyped /\ MeasuredSized /\ StatusTyped /\ InOrder
  BY TypeParts
<1>1. w \in Store!Keyed /\ w \in Store!Calls /\ w \notin Reads /\ w \notin Deletes
  OBVIOUS
<1>2. /\ objects' \in [Keys -> Writers \cup {NoFile}]
      /\ UNCHANGED <<target, held>>
  BY <1>0, <1>1, PutMoves DEF DataTyped
<1>3. sized' \in [Writers \cup Reads -> Writers \cup {NoFile}]
  BY <1>0, <1>1, PutMoves DEF DataTyped
<1>4. described' \in [Writers \cup Reads -> SUBSET (Writers \X Writers)]
  <2>1. CASE UNCHANGED described
    BY <1>0, <2>1 DEF DataTyped
  <2>2. CASE /\ status[w] = "measured" /\ Store!Present(target[w])
             /\ described' = [described EXCEPT
                    ![w] = @ \cup {<<sized[w], objects[target[w]]>>}]
    <3>1. sized[w] \in Writers /\ objects[target[w]] \in Writers
      BY <1>0, <1>1, <2>2 DEF DataTyped, MeasuredSized
    <3>2. QED
      BY <1>0, <2>2, <3>1 DEF DataTyped
  <2>3. QED
    BY <2>1, <2>2, PutMoves
<1>5. MeasuredSized'
  <2> SUFFICES ASSUME NEW c \in Writers \cup Reads, status'[c] = "measured"
               PROVE  sized'[c] # NoFile
    BY DEF MeasuredSized
  <2>1. CASE c # w
    <3>1. status[c] = "measured" /\ c \in Store!Calls
      BY <2>1, PutMoves
    <3>2. sized'[c] = sized[c]
      BY <1>0, <2>1, PutMoves DEF DataTyped
    <3>3. QED
      BY <1>0, <3>1, <3>2 DEF MeasuredSized
  <2>2. CASE c = w
    <3>1. /\ Store!Present(target[w])
          /\ sized' = [sized EXCEPT ![w] = objects[target[w]]]
      BY <2>2, PutMoves
    <3>2. QED
      BY <1>0, <2>2, <3>1 DEF DataTyped
  <2>3. QED
    BY <2>1, <2>2
<1>6. StatusTyped'
  <2>1. status'[w] \in PutAnswers
    BY PutMoves DEF PutAnswers
  <2>2. \A d \in Store!Calls : d # w => status'[d] = status[d]
    BY PutMoves
  <2>3. DOMAIN status' = DOMAIN status
    BY PutMoves
  <2>4. QED
    BY <1>0, <1>1, <2>1, <2>2, <2>3 DEF StatusTyped
<1>7. InOrder'
  <2>1. \A r \in Reads : status'[r] = status[r]
    BY <1>1, PutMoves
  <2>2. ASSUME NEW v \in Writers
        PROVE  /\ Used(<<v, "open">>)' => status'[v] = "exists"
               /\ Used(<<v, "stat">>)' => Opened(<<v, "open">>)'
    <3>1. status[v] = "exists" => status'[v] = "exists"
      BY PutMoves
    <3>2. QED
      BY <1>0, <2>1, <3>1 DEF InOrder, Used, Opened
  <2>3. QED
    BY <1>0, <2>1, <2>2 DEF InOrder, Used, Opened
<1>8. QED
  BY <1>2, <1>3, <1>4, <1>5, <1>6, <1>7, TypeParts DEF DataTyped, TypeOK

(* The read of a call that has got as far as asking it. *)
LEMMA ReadTyped ==
  ASSUME TypeOK, NEW r \in Reads, Asks(r), UNCHANGED <<value, paths>>,
         \A w \in Writers :
           /\ r = <<w, "open">> => status[w] = "exists"
           /\ r = <<w, "stat">> => Opened(<<w, "open">>),
         \A l \in Locates :
           /\ r = <<l, "resolve">> => paths /\ Opened(<<l, "exists">>)
           /\ r = <<l, "stat">> =>
                IF paths THEN Opened(<<l, "resolve">>) ELSE Opened(<<l, "exists">>)
  PROVE  TypeOK'
<1> USE StoreSets, ReadsFacts, CallsDistinct DEF Store!Present
<1>0. DataTyped /\ MeasuredSized /\ StatusTyped /\ InOrder
  BY TypeParts
<1>1. r \in Store!Keyed /\ r \in Store!Calls /\ r \notin Writers /\ r \notin Deletes
  OBVIOUS
<1>2. UNCHANGED <<objects, target>> /\ held' \in [Reads -> SUBSET Writers]
  BY <1>0, <1>1, ReadMoves DEF DataTyped
<1>3. sized' \in [Writers \cup Reads -> Writers \cup {NoFile}]
  BY <1>0, <1>1, ReadMoves DEF DataTyped
<1>4. described' \in [Writers \cup Reads -> SUBSET (Writers \X Writers)]
  <2>1. CASE UNCHANGED described
    BY <1>0, <2>1 DEF DataTyped
  <2>2. CASE /\ status[r] = "measured" /\ Store!Present(target[r])
             /\ described' = [described EXCEPT
                    ![r] = @ \cup {<<sized[r], objects[target[r]]>>}]
    <3>1. sized[r] \in Writers /\ objects[target[r]] \in Writers
      BY <1>0, <1>1, <2>2 DEF DataTyped, MeasuredSized
    <3>2. QED
      BY <1>0, <2>2, <3>1 DEF DataTyped
  <2>3. QED
    BY <2>1, <2>2, ReadMoves
<1>5. MeasuredSized'
  <2> SUFFICES ASSUME NEW c \in Writers \cup Reads, status'[c] = "measured"
               PROVE  sized'[c] # NoFile
    BY DEF MeasuredSized
  <2>1. CASE c # r
    <3>1. status[c] = "measured" /\ c \in Store!Calls
      BY <2>1, ReadMoves
    <3>2. sized'[c] = sized[c]
      BY <1>0, <2>1, ReadMoves DEF DataTyped
    <3>3. QED
      BY <1>0, <3>1, <3>2 DEF MeasuredSized
  <2>2. CASE c = r
    <3>1. /\ Store!Present(target[r])
          /\ sized' = [sized EXCEPT ![r] = objects[target[r]]]
      BY <2>2, ReadMoves DEF Missed
    <3>2. QED
      BY <1>0, <2>2, <3>1 DEF DataTyped
  <2>3. QED
    BY <2>1, <2>2
<1>6. StatusTyped'
  <2>1. status'[r] \in Missed \cup Done(r)
    BY ReadMoves DEF Done
  <2>2. \A d \in Store!Calls : d # r => status'[d] = status[d]
    BY ReadMoves
  <2>3. DOMAIN status' = DOMAIN status
    BY ReadMoves
  <2>4. QED
    BY <1>0, <1>1, <2>1, <2>2, <2>3 DEF StatusTyped
<1>7. InOrder'
  <2>1. \A q \in Reads : Opened(q) => Opened(q)'
    BY ReadMoves DEF Opened
  <2>2. \A q \in Reads : Used(q)' => Used(q) \/ q = r
    BY ReadMoves DEF Used
  <2>3. \A v \in Writers : status'[v] = status[v]
    BY <1>1, ReadMoves
  <2>4. ASSUME NEW w \in Writers
        PROVE  /\ Used(<<w, "open">>)' => status'[w] = "exists"
               /\ Used(<<w, "stat">>)' => Opened(<<w, "open">>)'
    BY <1>0, <2>1, <2>2, <2>3 DEF InOrder
  <2>5. ASSUME NEW l \in Locates
        PROVE  /\ Used(<<l, "resolve">>)' => paths' /\ Opened(<<l, "exists">>)'
               /\ Used(<<l, "stat">>)' =>
                    IF paths' THEN Opened(<<l, "resolve">>)'
                              ELSE Opened(<<l, "exists">>)'
    BY <1>0, <2>1, <2>2 DEF InOrder
  <2>6. QED
    BY <2>4, <2>5 DEF InOrder
<1>8. QED
  BY <1>2, <1>3, <1>4, <1>5, <1>6, <1>7, TypeParts DEF DataTyped, TypeOK

LEMMA DeleteTyped ==
  ASSUME TypeOK, NEW d \in Deletes, Delete(d), UNCHANGED <<value, paths>>
  PROVE  TypeOK'
<1> USE StoreSets, ReadsFacts, CallsDistinct
<1>0. DataTyped /\ MeasuredSized /\ StatusTyped /\ InOrder
  BY TypeParts
<1>1. DataTyped'
  BY <1>0, DeleteMoves DEF DataTyped
<1>2. /\ \A c \in Writers \cup Reads : status'[c] = status[c]
      /\ \A e \in Deletes : e # d => status'[e] = status[e]
  BY DeleteMoves
<1>3. MeasuredSized'
  BY <1>0, <1>2, DeleteMoves DEF MeasuredSized
<1>4. StatusTyped'
  <2>1. DOMAIN status' = DOMAIN status /\ status'[d] \in Missed \cup {"deleted"}
    BY DeleteMoves
  <2>2. QED
    BY <1>0, <1>2, <2>1 DEF StatusTyped
<1>5. InOrder'
  BY <1>0, <1>2 DEF InOrder, Used, Opened
<1>6. QED
  BY <1>1, <1>3, <1>4, <1>5, TypeParts

(* The reads of a client's call, each asked when its turn has come. *)
LEMMA AsksInTurn ==
  ASSUME TypeOK
  PROVE
  /\ \A w \in Writers : /\ OpenExisting(w) => Asks(<<w, "open">>)
                        /\ StatExisting(w) => Asks(<<w, "stat">>)
  /\ \A l \in Locates : Locate(l) =>
       \E use \in {"exists", "resolve", "stat"} :
         /\ Asks(<<l, use>>)
         /\ use = "resolve" => paths /\ Opened(<<l, "exists">>)
         /\ use = "stat" => /\ IF paths THEN Opened(<<l, "resolve">>)
                                        ELSE Opened(<<l, "exists">>)
                            /\ Opened(<<l, "exists">>)
<1>1. \A w \in Writers : /\ OpenExisting(w) => Asks(<<w, "open">>)
                         /\ StatExisting(w) => Asks(<<w, "stat">>)
  BY DEF OpenExisting, StatExisting, Asks
<1>2. ASSUME NEW l \in Locates, Locate(l)
      PROVE  \E use \in {"exists", "resolve", "stat"} :
               /\ Asks(<<l, use>>)
               /\ use = "resolve" => paths /\ Opened(<<l, "exists">>)
               /\ use = "stat" => /\ IF paths THEN Opened(<<l, "resolve">>)
                                              ELSE Opened(<<l, "exists">>)
                                  /\ Opened(<<l, "exists">>)
  <2>1. Opened(<<l, "resolve">>) => Opened(<<l, "exists">>)
    BY DEF TypeOK, Opened, Used
  <2>2. CASE CheckExists(l)
    BY <2>2 DEF CheckExists, Asks
  <2>3. CASE ResolveLocalPath(l)
    BY <2>3 DEF ResolveLocalPath, Asks
  <2>4. CASE StatLocated(l)
    BY <2>1, <2>4 DEF StatLocated, SizeWanted, Asks
  <2>5. QED
    BY <1>2, <2>2, <2>3, <2>4 DEF Locate
<1>3. QED
  BY <1>1, <1>2

LEMMA TypeStep == TypeOK /\ [Next]_vars => TypeOK'
<1> SUFFICES ASSUME TypeOK, [Next]_vars PROVE TypeOK'
  OBVIOUS
<1> USE ReadsFacts, CallsDistinct
<1>1. CASE UNCHANGED vars
  <2>1. UNCHANGED <<objects, status, target, held, sized, described, value, paths>>
    BY <1>1 DEF vars, store
  <2>2. /\ DataTyped' /\ MeasuredSized' /\ StatusTyped' /\ InOrder'
        /\ value' \in [Writers -> Values] /\ paths' \in BOOLEAN
    BY <2>1, TypeParts
    DEF DataTyped, MeasuredSized, StatusTyped, InOrder, Used, Opened
  <2>3. QED
    BY <2>2, TypeParts
<1>2. ASSUME NEW w \in Writers, PutJsonIdempotent(w), UNCHANGED <<value, paths>>
      PROVE  TypeOK'
  <2>1. CASE PutBytes(w)
    BY <1>2, <2>1, PutTyped
  <2>2. CASE OpenExisting(w)
    BY <1>2, <2>2, AsksInTurn, ReadTyped DEF OpenExisting
  <2>3. CASE StatExisting(w)
    BY <1>2, <2>3, AsksInTurn, ReadTyped DEF StatExisting
  <2>4. QED
    BY <1>2, <2>1, <2>2, <2>3 DEF PutJsonIdempotent
<1>3. ASSUME NEW l \in Locates, Locate(l), UNCHANGED <<value, paths>>
      PROVE  TypeOK'
  <2>1. PICK use \in {"exists", "resolve", "stat"} :
          /\ Asks(<<l, use>>)
          /\ use = "resolve" => paths /\ Opened(<<l, "exists">>)
          /\ use = "stat" => IF paths THEN Opened(<<l, "resolve">>)
                                      ELSE Opened(<<l, "exists">>)
    BY <1>3, AsksInTurn
  <2>2. \A m \in Locates :
          /\ <<l, use>> = <<m, "resolve">> => paths /\ Opened(<<m, "exists">>)
          /\ <<l, use>> = <<m, "stat">> =>
               IF paths THEN Opened(<<m, "resolve">>) ELSE Opened(<<m, "exists">>)
    BY <2>1
  <2>3. \A w \in Writers : <<l, use>> \notin {<<w, "open">>, <<w, "stat">>}
    OBVIOUS
  <2>4. <<l, use>> \in Reads
    OBVIOUS
  <2>5. QED
    BY <1>3, <2>1, <2>2, <2>3, <2>4, ReadTyped
<1>4. ASSUME NEW d \in Deletes, Delete(d), UNCHANGED <<value, paths>>
      PROVE  TypeOK'
  BY <1>4, DeleteTyped
<1>5. QED
  BY <1>1, <1>2, <1>3, <1>4 DEF Next

LEMMA TypeInit == Init => TypeOK
<1> SUFFICES ASSUME Init PROVE TypeOK
  OBVIOUS
<1>1. \A c \in Store!Calls : status[c] = "pending"
  BY DEF Init, Store!Init
<1>2. StatusTyped /\ MeasuredSized /\ InOrder
  BY <1>1, StoreSets, ReadsFacts
  DEF Init, Store!Init, StatusTyped, MeasuredSized, InOrder, PutAnswers, Used
<1>3. DataTyped
  BY StoreSets DEF Init, Store!Init, DataTyped
<1>4. QED
  BY <1>2, <1>3, TypeParts DEF Init

(* Calls only use the backend in the order of the code, and every variable *)
(* stays in its type.                                                      *)
THEOREM TypeCorrect == Spec => []TypeOK
  BY TypeInit, TypeStep, PTL DEF Spec

-----------------------------------------------------------------------------
LEMMA IInvInit == Init => IInv
<1> SUFFICES ASSUME Init PROVE IInv
  OBVIOUS
<1>1. \A c \in Writers \cup Reads : status[c] = "pending"
  BY StoreSets DEF Init, Store!Init
<1>2. \A r \in Reads : described[r] = {}
  BY StoreSets DEF Init, Store!Init
<1>3. OneKeyPerCall
  BY DEF Init, OneKeyPerCall
<1>4. Owned
  BY DEF Init, Store!Init, Owned, Store!Present
<1>5. HeldOne /\ SizedOne /\ DescribedOne
  BY <1>1, <1>2 DEF HeldOne, SizedOne, DescribedOne, Opened, Described
<1>6. Kept /\ RefusedFor /\ MissedDeleted
  BY <1>1, ReadsFacts DEF Kept, RefusedFor, MissedDeleted, Published, Missed
<1>7. QED
  BY <1>3, <1>4, <1>5, <1>6, TypeInit DEF IInv

(* What was published stays so, and the reads that were not asked keep     *)
(* what they know of it.                                                   *)
LEMMA LooksKeep ==
  ASSUME IInv, UNCHANGED target,
         \A v \in Writers : status[v] \in Published => status'[v] \in Published,
         NEW S \in SUBSET Reads,
         \A r \in S : /\ status'[r] = status[r]
                      /\ held'[r] = held[r]
                      /\ sized'[r] = sized[r]
                      /\ described'[r] = described[r]
  PROVE
  /\ \A k, f : f \in Writers /\ Stored(k, f) => Stored(k, f)'
  /\ \A r \in S :
       /\ Opened(r)' =>
            \E f \in Writers : held'[r] = {f} /\ Stored(target[r], f)'
       /\ status'[r] \in {"measured", "described"} =>
            sized'[r] \in Writers /\ Stored(target[r], sized[r])'
       /\ status'[r] \in {"pending", "measured"} => described'[r] = {}
       /\ Described(r)' =>
            \E g \in Writers : /\ described'[r] = {<<sized'[r], g>>}
                               /\ Stored(target[r], g)'
<1>1. \A k, f : f \in Writers /\ Stored(k, f) => Stored(k, f)'
  BY DEF Stored
<1>2. QED
  BY <1>1 DEF IInv, HeldOne, SizedOne, DescribedOne, Opened, Described

LEMMA PutStep ==
  ASSUME IInv, TypeOK', NEW w \in Writers, PutBytes(w)
  PROVE  IInv'
<1> USE StoreSets, ReadsFacts, CallsDistinct, NothingDistinct
    DEF Store!Present
<1>0. /\ TypeOK /\ OneKeyPerCall /\ Owned /\ Kept /\ RefusedFor /\ MissedDeleted
      /\ DataTyped /\ DataTyped'
  BY TypeParts DEF IInv
<1>1. /\ UNCHANGED <<target, held>>
      /\ \A v \in Writers : v # w => status'[v] = status[v]
      /\ \A c \in Reads \cup Deletes : status'[c] = status[c]
      /\ \A r \in Reads : sized'[r] = sized[r] /\ described'[r] = described[r]
  BY <1>0, PutMoves
<1>2. \/ /\ ~Store!Present(target[w])
         /\ objects' = [objects EXCEPT ![target[w]] = w]
         /\ status[w] = "pending" /\ status'[w] = "published"
      \/ /\ UNCHANGED objects
         /\ \/ /\ status[w] = "pending" /\ Store!Present(target[w])
               /\ status'[w] \in {"beaten", "exists"}
            \/ status[w] \in Published /\ status'[w] \in Published
            \/ status[w] = "beaten" /\ status'[w] \in {"exists", "failed"}
            \/ status[w] = "pending" /\ status'[w] = "failed"
  <2>1. CASE objects' = objects
    BY <1>0, <2>1, PutMoves DEF Published
  <2>2. CASE objects' # objects
    BY <1>0, <2>2, PutMoves
  <2>3. QED
    BY <2>1, <2>2
<1>3. \A k : Deleted(k)' <=> Deleted(k)
  BY <1>1 DEF Deleted
<1>4. \A v \in Writers : status[v] \in Published => status'[v] \in Published
  BY <1>1, <1>2 DEF Published
<1>5. OneKeyPerCall'
  BY <1>0, <1>1 DEF OneKeyPerCall
<1>6. Owned'
  <2>1. CASE UNCHANGED objects
    BY <1>0, <1>1, <1>4, <2>1 DEF Owned, DataTyped
  <2>2. CASE objects' = [objects EXCEPT ![target[w]] = w] /\ status'[w] = "published"
    BY <1>0, <1>1, <1>4, <2>2 DEF Owned, Published, DataTyped
  <2>3. QED
    BY <1>2, <2>1, <2>2
<1>7. Kept'
  <2> SUFFICES ASSUME NEW v \in Writers, status'[v] \in Published,
                      ~Deleted(target[v])
               PROVE  objects'[target[v]] = v
    BY <1>1, <1>3 DEF Kept
  <2>1. CASE v = w
    BY <1>0, <1>2, <2>1 DEF Kept, Published, DataTyped
  <2>2. CASE v # w
    <3>1. objects[target[v]] = v
      BY <1>0, <1>1, <2>2 DEF Kept
    <3>2. QED
      BY <1>0, <1>2, <3>1 DEF DataTyped
  <2>3. QED
    BY <2>1, <2>2
<1>8. \A k \in Keys : Store!Present(k) => Store!Present(k)'
  BY <1>0, <1>2 DEF DataTyped
<1>9. RefusedFor'
  <2> SUFFICES ASSUME NEW v \in Writers, status'[v] \in {"beaten", "exists"},
                      ~Deleted(target[v])
               PROVE  Store!Present(target[v])'
    BY <1>1, <1>3 DEF RefusedFor
  <2>0. target[v] \in Keys
    BY <1>0 DEF DataTyped
  <2>1. CASE v = w
    BY <1>0, <1>1, <1>2, <1>8, <2>0, <2>1 DEF RefusedFor, Published
  <2>2. CASE v # w
    BY <1>0, <1>1, <1>8, <2>0, <2>2 DEF RefusedFor
  <2>3. QED
    BY <2>1, <2>2
<1>10. HeldOne' /\ SizedOne' /\ DescribedOne'
  <2>1. \A r \in Reads :
          /\ Opened(r)' =>
               \E f \in Writers : held'[r] = {f} /\ Stored(target[r], f)'
          /\ status'[r] \in {"measured", "described"} =>
               sized'[r] \in Writers /\ Stored(target[r], sized[r])'
          /\ status'[r] \in {"pending", "measured"} => described'[r] = {}
          /\ Described(r)' =>
               \E g \in Writers : /\ described'[r] = {<<sized'[r], g>>}
                                  /\ Stored(target[r], g)'
    BY <1>1, <1>4, LooksKeep
  <2>2. QED
    BY <2>1 DEF HeldOne, SizedOne, DescribedOne
<1>11. MissedDeleted'
  <2>1. /\ \A v \in Writers : \A use \in {"open", "stat"} :
              status'[<<v, use>>] = status[<<v, use>>]
        /\ \A l \in Locates : \A use \in {"resolve", "stat"} :
              status'[<<l, use>>] = status[<<l, use>>]
    BY <1>1
  <2>2. QED
    BY <1>0, <1>1, <1>3, <2>1 DEF MissedDeleted
<1>12. QED
  BY <1>5, <1>6, <1>7, <1>9, <1>10, <1>11 DEF IInv

(* A look of a call that has got as far as asking. *)
LEMMA ReadStep ==
  ASSUME IInv, TypeOK', NEW r \in Reads, Asks(r),
         \A w \in Writers : r \in {<<w, "open">>, <<w, "stat">>} =>
                               status[w] = "exists",
         \A l \in Locates : r \in {<<l, "resolve">>, <<l, "stat">>} =>
                               Opened(<<l, "exists">>)
  PROVE  IInv'
<1> USE StoreSets, ReadsFacts, CallsDistinct, NothingDistinct
    DEF Store!Present
<1>0. /\ TypeOK /\ OneKeyPerCall /\ Owned /\ Kept /\ RefusedFor
      /\ HeldOne /\ SizedOne /\ DescribedOne /\ MissedDeleted
      /\ DataTyped /\ DataTyped'
  BY TypeParts DEF IInv
<1>1. /\ UNCHANGED <<objects, target>>
      /\ \A c \in Writers \cup Deletes : status'[c] = status[c]
      /\ \A q \in Reads : q # r => /\ status'[q] = status[q]
                                   /\ held'[q] = held[q]
                                   /\ sized'[q] = sized[q]
                                   /\ described'[q] = described[q]
  BY <1>0, ReadMoves
<1>2. /\ \A k : Deleted(k)' <=> Deleted(k)
      /\ \A v \in Writers : status'[v] \in Published <=> status[v] \in Published
  BY <1>1 DEF Deleted
<1>3. OneKeyPerCall' /\ Owned' /\ Kept' /\ RefusedFor'
  BY <1>0, <1>1, <1>2, <1>0 DEF OneKeyPerCall, Owned, Kept, RefusedFor, DataTyped
<1>4. target[r] \in Keys
  BY <1>0 DEF DataTyped
<1>5. Store!Present(target[r]) =>
        \E f \in Writers : f = objects[target[r]] /\ Stored(target[r], f)'
  BY <1>0, <1>1, <1>2, <1>4 DEF Owned, Stored, DataTyped
<1>6. /\ Opened(r)' =>
           \E f \in Writers : held'[r] = {f} /\ Stored(target[r], f)'
      /\ status'[r] \in {"measured", "described"} =>
           sized'[r] \in Writers /\ Stored(target[r], sized[r])'
      /\ status'[r] \in {"pending", "measured"} => described'[r] = {}
      /\ Described(r)' =>
           \E g \in Writers : /\ described'[r] = {<<sized'[r], g>>}
                              /\ Stored(target[r], g)'
  <2>1. CASE /\ status'[r] = "opened"
             /\ Store!Present(target[r])
             /\ held' = [held EXCEPT ![r] = {objects[target[r]]}]
    <3>1. held'[r] = {objects[target[r]]}
      BY <1>0, <2>1 DEF DataTyped
    <3>2. QED
      BY <1>5, <2>1, <3>1 DEF Opened, Described
  <2>2. CASE /\ status[r] = "pending" /\ status'[r] = "measured"
             /\ Store!Present(target[r])
             /\ sized' = [sized EXCEPT ![r] = objects[target[r]]]
             /\ UNCHANGED described
    <3>1. sized'[r] = objects[target[r]]
      BY <1>0, <2>2 DEF DataTyped
    <3>2. described'[r] = {}
      BY <1>0, <2>2 DEF DescribedOne
    <3>3. Stored(target[r], sized[r])'
      BY <1>1, <1>5, <2>2, <3>1 DEF Stored
    <3>4. QED
      BY <1>5, <2>2, <3>1, <3>2, <3>3 DEF Opened, Described
  <2>3. CASE /\ status[r] = "measured" /\ status'[r] = "described"
             /\ Store!Present(target[r])
             /\ described' = [described EXCEPT
                    ![r] = @ \cup {<<sized[r], objects[target[r]]>>}]
             /\ UNCHANGED sized
    <3>1. described[r] = {}
      BY <1>0, <2>3 DEF DescribedOne
    <3>2. described'[r] = {<<sized'[r], objects[target[r]]>>}
      BY <1>0, <2>3, <3>1 DEF DataTyped
    <3>3. sized[r] \in Writers /\ Stored(target[r], sized[r])
      BY <1>0, <2>3 DEF SizedOne
    <3>4. Stored(target[r], sized[r])'
      BY <1>1, <1>2, <2>3, <3>3 DEF Stored
    <3>5. QED
      BY <1>5, <2>3, <3>2, <3>3, <3>4 DEF Opened, Described
  <2>4. CASE status'[r] \in Missed
    BY <2>4 DEF Opened, Described, Missed
  <2>5. QED
    BY <1>0, <2>1, <2>2, <2>3, <2>4, ReadMoves
<1>7. HeldOne' /\ SizedOne' /\ DescribedOne'
  <2> DEFINE S == Reads \ {r}
  <2>1. \A q \in S :
          /\ Opened(q)' =>
               \E f \in Writers : held'[q] = {f} /\ Stored(target[q], f)'
          /\ status'[q] \in {"measured", "described"} =>
               sized'[q] \in Writers /\ Stored(target[q], sized[q])'
          /\ status'[q] \in {"pending", "measured"} => described'[q] = {}
          /\ Described(q)' =>
               \E g \in Writers : /\ described'[q] = {<<sized'[q], g>>}
                                  /\ Stored(target[q], g)'
    BY <1>1, <1>2, LooksKeep
  <2>2. QED
    BY <1>6, <2>1 DEF HeldOne, SizedOne, DescribedOne
<1>8. status'[r] \in Missed => ~Store!Present(target[r])
  BY <1>0, ReadMoves DEF Missed
<1>9. MissedDeleted'
  <2>1. ASSUME NEW w \in Writers, NEW use \in {"open", "stat"},
               status'[<<w, use>>] \in Missed
        PROVE  Deleted(target[w])
    <3>1. CASE r = <<w, use>>
      <4>1. target[r] = target[w]
        BY <1>0, <3>1 DEF OneKeyPerCall
      <4>2. ~Store!Present(target[r])
        BY <1>8, <2>1, <3>1
      <4>3. status[w] = "exists"
        BY <3>1
      <4>4. QED
        BY <1>0, <4>1, <4>2, <4>3 DEF RefusedFor
    <3>2. CASE r # <<w, use>>
      BY <1>0, <1>1, <2>1, <3>2 DEF MissedDeleted
    <3>3. QED
      BY <3>1, <3>2
  <2>2. ASSUME NEW l \in Locates, NEW use \in {"resolve", "stat"},
               status'[<<l, use>>] \in Missed
        PROVE  Deleted(target[<<l, use>>])
    <3>1. CASE r = <<l, use>>
      <4>1. target[r] = target[<<l, "exists">>]
        BY <1>0, <3>1 DEF OneKeyPerCall
      <4>2. ~Store!Present(target[r])
        BY <1>8, <2>2, <3>1
      <4>3. PICK f \in Writers : Stored(target[r], f)
        <5>1. Opened(<<l, "exists">>) /\ <<l, "exists">> \in Reads
          BY <3>1
        <5>2. \E f \in Writers : Stored(target[<<l, "exists">>], f)
          BY <1>0, <5>1 DEF HeldOne
        <5>3. QED
          BY <4>1, <5>2
      <4>4. QED
        BY <1>0, <3>1, <4>2, <4>3 DEF Kept, Stored
    <3>2. CASE r # <<l, use>>
      BY <1>0, <1>1, <2>2, <3>2 DEF MissedDeleted
    <3>3. QED
      BY <3>1, <3>2
  <2>3. QED
    BY <1>1, <1>2, <2>1, <2>2 DEF MissedDeleted
<1>10. QED
  BY <1>3, <1>7, <1>9 DEF IInv

LEMMA DeleteStep ==
  ASSUME IInv, TypeOK', NEW d \in Deletes, Delete(d)
  PROVE  IInv'
<1> USE StoreSets, ReadsFacts, CallsDistinct, NothingDistinct
    DEF Store!Present
<1>0. /\ TypeOK /\ OneKeyPerCall /\ Owned /\ Kept /\ RefusedFor /\ MissedDeleted
      /\ DataTyped /\ DataTyped'
  BY TypeParts DEF IInv
<1>1. /\ UNCHANGED <<target, held, sized, described>>
      /\ \A c \in Writers \cup Reads : status'[c] = status[c]
      /\ status[d] = "pending"
      /\ \A e \in Deletes : e # d => status'[e] = status[e]
      /\ \/ /\ status'[d] = "deleted"
            /\ objects' = [objects EXCEPT ![target[d]] = NoFile]
         \/ UNCHANGED objects
  BY <1>0, DeleteMoves
<1>2. \A k : Deleted(k) => Deleted(k)'
  BY <1>1 DEF Deleted
<1>3. ASSUME NEW k \in Keys, ~Deleted(k)' PROVE objects'[k] = objects[k]
  BY <1>0, <1>1, <1>3 DEF Deleted, DataTyped
<1>4. MissedDeleted'
  <2>1. /\ \A w \in Writers : \A use \in {"open", "stat"} :
              status'[<<w, use>>] = status[<<w, use>>]
        /\ \A l \in Locates : \A use \in {"resolve", "stat"} :
              status'[<<l, use>>] = status[<<l, use>>]
    BY <1>1
  <2>2. QED
    BY <1>0, <1>1, <1>2, <2>1 DEF MissedDeleted
<1>5. HeldOne' /\ SizedOne' /\ DescribedOne'
  <2>1. \A r \in Reads :
          /\ Opened(r)' =>
               \E f \in Writers : held'[r] = {f} /\ Stored(target[r], f)'
          /\ status'[r] \in {"measured", "described"} =>
               sized'[r] \in Writers /\ Stored(target[r], sized[r])'
          /\ status'[r] \in {"pending", "measured"} => described'[r] = {}
          /\ Described(r)' =>
               \E g \in Writers : /\ described'[r] = {<<sized'[r], g>>}
                                  /\ Stored(target[r], g)'
    BY <1>1, LooksKeep
  <2>2. QED
    BY <2>1 DEF HeldOne, SizedOne, DescribedOne
<1>6. Owned'
  BY <1>0, <1>1 DEF Owned, DataTyped
<1>7. Kept' /\ RefusedFor'
  BY <1>0, <1>1, <1>2, <1>3 DEF Kept, RefusedFor, DataTyped
<1>8. OneKeyPerCall'
  BY <1>0, <1>1 DEF OneKeyPerCall
<1>9. QED
  BY <1>4, <1>5, <1>6, <1>7, <1>8 DEF IInv

LEMMA IInvStep == IInv /\ [Next]_vars => IInv'
<1> SUFFICES ASSUME IInv, [Next]_vars PROVE IInv'
  OBVIOUS
<1>0. TypeOK /\ TypeOK'
  BY TypeStep DEF IInv
<1>1. ASSUME NEW w \in Writers, PutJsonIdempotent(w) PROVE IInv'
  <2>0. \A l \in Locates : \A use \in {"open", "stat"} :
           <<w, use>> \notin {<<l, "resolve">>, <<l, "stat">>}
    BY CallsDistinct
  <2>1. CASE PutBytes(w)
    BY <1>0, <2>1, PutStep
  <2>2. CASE OpenExisting(w)
    BY <1>0, <2>0, <2>2, AsksInTurn, ReadStep, ReadsFacts DEF OpenExisting
  <2>3. CASE StatExisting(w)
    <3>1. status[w] = "exists"
      BY <1>0, <2>3 DEF StatExisting, TypeOK, Opened, Used
    <3>2. QED
      BY <1>0, <2>0, <2>3, <3>1, AsksInTurn, ReadStep, ReadsFacts
  <2>4. QED
    BY <1>1, <2>1, <2>2, <2>3 DEF PutJsonIdempotent
<1>2. ASSUME NEW l \in Locates, Locate(l) PROVE IInv'
  <2>1. PICK use \in {"exists", "resolve", "stat"} :
           /\ Asks(<<l, use>>)
           /\ use # "exists" => Opened(<<l, "exists">>)
    BY <1>0, <1>2, AsksInTurn
  <2>2. <<l, use>> \in Reads
    BY ReadsFacts
  <2>3. \A w \in Writers : <<l, use>> \notin {<<w, "open">>, <<w, "stat">>}
    BY CallsDistinct
  <2>4. \A m \in Locates : <<l, use>> \in {<<m, "resolve">>, <<m, "stat">>} =>
                              Opened(<<m, "exists">>)
    BY <2>1
  <2>5. QED
    BY <1>0, <2>1, <2>2, <2>3, <2>4, ReadStep
<1>3. ASSUME NEW d \in Deletes, Delete(d) PROVE IInv'
  BY <1>0, <1>3, DeleteStep
<1>4. CASE UNCHANGED vars
  BY <1>0, <1>4
  DEF vars, store, IInv, OneKeyPerCall, Owned, Kept, RefusedFor, HeldOne,
      SizedOne, DescribedOne, Stored, MissedDeleted, Deleted, Opened, Described,
      Store!Present
<1>5. QED
  BY <1>1, <1>2, <1>3, <1>4 DEF Next

LEMMA Invariance == Spec => []IInv
  BY IInvInit, IInvStep, PTL DEF Spec

-----------------------------------------------------------------------------
(* The values of the answers, one place at a time. *)
PutAnswerTable(w) ==
  /\ status[w] = "pending" => PutAnswer(w) = "pending"
  /\ status[w] = "beaten" => PutAnswer(w) = "pending"
  /\ status[w] \in {"published", "measured"} => PutAnswer(w) = "installed"
  /\ status[w] = "created" => PutAnswer(w) = "created"
  /\ status[w] = "unreported" => PutAnswer(w) = "unreported"
  /\ status[w] = "failed" => PutAnswer(w) = "failed"
  /\ status[w] = "exists" =>
       /\ status[<<w, "open">>] = "pending" => PutAnswer(w) = "pending"
       /\ status[<<w, "open">>] = "missing" => PutAnswer(w) = "gone"
       /\ status[<<w, "open">>] = "vanished" => PutAnswer(w) = "gone"
       /\ status[<<w, "open">>] = "opened" =>
            /\ Conflicts(w) => PutAnswer(w) = "conflict"
            /\ ~Conflicts(w) =>
                 /\ status[<<w, "stat">>] \in {"pending", "measured"} =>
                      PutAnswer(w) = "agreed"
                 /\ status[<<w, "stat">>] = "described" =>
                      PutAnswer(w) = "accepted"
                 /\ status[<<w, "stat">>] = "missing" => PutAnswer(w) = "gone"
                 /\ status[<<w, "stat">>] = "vanished" => PutAnswer(w) = "gone"

LEMMA PutAnswerAt ==
  ASSUME NEW w
  PROVE  PutAnswerTable(w) /\ PutAnswerTable(w)'
<1>1. PutAnswerTable(w)
  BY DEF PutAnswerTable, PutAnswer, Missed
<1>2. PutAnswerTable(w)'
  BY DEF PutAnswerTable, PutAnswer, Missed
<1>3. QED
  BY <1>1, <1>2

LocateAnswerTable(l) ==
  /\ status[<<l, "exists">>] = "missing" => LocateAnswer(l) = "absent"
  /\ status[<<l, "exists">>] = "vanished" => LocateAnswer(l) = "absent"
  /\ status[<<l, "exists">>] \in {"pending", "opened"} =>
       /\ status[<<l, "resolve">>] = "missing" => LocateAnswer(l) = "raised"
       /\ status[<<l, "resolve">>] = "vanished" => LocateAnswer(l) = "raised"
       /\ status[<<l, "resolve">>] \in {"pending", "opened"} =>
            /\ status[<<l, "stat">>] = "described" => LocateAnswer(l) = "located"
            /\ status[<<l, "stat">>] = "missing" => LocateAnswer(l) = "absent"
            /\ status[<<l, "stat">>] = "vanished" => LocateAnswer(l) = "raised"
            /\ status[<<l, "stat">>] \in {"pending", "measured"} =>
                 LocateAnswer(l) = "pending"

LEMMA LocateAnswerAt ==
  ASSUME NEW l
  PROVE  LocateAnswerTable(l) /\ LocateAnswerTable(l)'
<1>1. LocateAnswerTable(l)
  BY DEF LocateAnswerTable, LocateAnswer, AfterLostStat, Missed
<1>2. LocateAnswerTable(l)'
  BY DEF LocateAnswerTable, LocateAnswer, AfterLostStat, Missed
<1>3. QED
  BY <1>1, <1>2

(* The places a read can be in. *)
LEMMA StatusAt ==
  ASSUME TypeOK, NEW r \in Reads
  PROVE  /\ r[2] = "stat" =>
              status[r] \in {"pending", "measured", "described"} \cup Missed
         /\ r[2] # "stat" => status[r] \in {"pending", "opened"} \cup Missed
BY DEF TypeOK, Done

LEMMA PutStatusAt ==
  ASSUME TypeOK, NEW w \in Writers
  PROVE  /\ status[w] \in PutAnswers
         /\ status[<<w, "open">>] \in {"pending", "opened"} \cup Missed
         /\ status[<<w, "stat">>] \in {"pending", "measured", "described"} \cup Missed
<1>1. <<w, "open">> \in Reads /\ <<w, "stat">> \in Reads
  BY ReadsFacts
<1>2. <<w, "open">>[2] = "open" /\ <<w, "stat">>[2] = "stat"
  OBVIOUS
<1>3. QED
  BY <1>1, <1>2, StatusAt DEF TypeOK

LEMMA LocateStatusAt ==
  ASSUME TypeOK, NEW l \in Locates
  PROVE  /\ status[<<l, "exists">>] \in {"pending", "opened"} \cup Missed
         /\ status[<<l, "resolve">>] \in {"pending", "opened"} \cup Missed
         /\ status[<<l, "stat">>] \in {"pending", "measured", "described"} \cup Missed
<1>1. /\ <<l, "exists">> \in Reads /\ <<l, "resolve">> \in Reads
      /\ <<l, "stat">> \in Reads
  BY ReadsFacts
<1>2. /\ <<l, "exists">>[2] = "exists" /\ <<l, "resolve">>[2] = "resolve"
      /\ <<l, "stat">>[2] = "stat"
  OBVIOUS
<1>3. QED
  BY <1>1, <1>2, StatusAt

(* The answers that say something about the object, by what caused them. *)
LEMMA PutAnswerMeans ==
  ASSUME TypeOK, NEW w \in Writers
  PROVE
  /\ PutAnswer(w) = "created" => status[w] = "created"
  /\ PutAnswer(w) = "accepted" => /\ Opened(<<w, "open">>)
                                  /\ Described(<<w, "stat">>)
                                  /\ ~Conflicts(w)
  /\ PutAnswer(w) = "conflict" => Opened(<<w, "open">>) /\ Conflicts(w)
  /\ PutAnswer(w) = "gone" => \/ status[<<w, "open">>] \in Missed
                              \/ status[<<w, "stat">>] \in Missed
BY PutStatusAt, PutAnswerAt
DEF PutAnswerTable, PutAnswers, Missed, Opened, Described

(* Two callers are never both told, without a delete in between, that      *)
(* different values are stored under one key, and what describes the value *)
(* to an accepted put is one object.                                       *)
THEOREM WritersAgree == Spec => []Agreement
<1>1. IInv => Agreement
  <2> SUFFICES ASSUME IInv, NEW w \in Writers,
                      PutAnswer(w) \in {"created", "accepted"},
                      ~Deleted(target[w])
               PROVE  \E f \in Writers :
                        /\ objects[target[w]] = f
                        /\ value[f] = value[w]
                        /\ PutAnswer(w) = "accepted" =>
                             /\ held[<<w, "open">>] = {f}
                             /\ described[<<w, "stat">>] = {<<f, f>>}
    BY DEF Agreement
  <2>0. /\ TypeOK /\ Kept
        /\ <<w, "open">> \in Reads /\ <<w, "stat">> \in Reads
        /\ target[<<w, "open">>] = target[w] /\ target[<<w, "stat">>] = target[w]
    BY ReadsFacts DEF IInv, OneKeyPerCall
  <2>1. CASE PutAnswer(w) = "created"
    BY <2>0, <2>1, PutAnswerMeans DEF Kept, Published
  <2>2. CASE PutAnswer(w) = "accepted"
    <3>1. /\ Opened(<<w, "open">>) /\ Described(<<w, "stat">>)
          /\ ~Conflicts(w)
      BY <2>0, <2>2, PutAnswerMeans
    <3>2. PICK f \in Writers : /\ held[<<w, "open">>] = {f}
                               /\ Stored(target[w], f)
      BY <2>0, <3>1 DEF IInv, HeldOne
    <3>3. PICK g \in Writers :
             /\ described[<<w, "stat">>] = {<<sized[<<w, "stat">>], g>>}
             /\ Stored(target[w], g)
      BY <2>0, <3>1 DEF IInv, DescribedOne
    <3>4. /\ sized[<<w, "stat">>] \in Writers
          /\ Stored(target[w], sized[<<w, "stat">>])
      BY <2>0, <3>1 DEF IInv, SizedOne, Described
    <3>5. /\ objects[target[w]] = f
          /\ objects[target[w]] = g
          /\ objects[target[w]] = sized[<<w, "stat">>]
      BY <2>0, <3>2, <3>3, <3>4 DEF Kept, Stored
    <3>6. value[f] = value[w]
      BY <3>1, <3>2 DEF Conflicts, Content
    <3>7. QED
      BY <3>2, <3>3, <3>5, <3>6
  <2>3. QED
    BY <2>1, <2>2
<1>2. QED
  BY <1>1, Invariance, PTL

(* Unless a delete intervened, a put never loses the object it was refused *)
(* for and conflicts only with another value: it can be repeated.          *)
THEOREM PutsAreRepeatable == Spec => []Repeatable
<1>1. IInv => Repeatable
  <2> SUFFICES ASSUME IInv, NEW w \in Writers, ~Deleted(target[w])
               PROVE  /\ PutAnswer(w) # "gone"
                      /\ PutAnswer(w) = "conflict" =>
                           \E f \in Writers : objects[target[w]] = f
                                             /\ value[f] # value[w]
    BY DEF Repeatable
  <2>0. TypeOK
    BY DEF IInv
  <2>1. PutAnswer(w) # "gone"
    BY <2>0, PutAnswerMeans DEF IInv, MissedDeleted
  <2>2. ASSUME PutAnswer(w) = "conflict"
        PROVE  \E f \in Writers : objects[target[w]] = f /\ value[f] # value[w]
    <3>1. Opened(<<w, "open">>) /\ Conflicts(w)
      BY <2>0, <2>2, PutAnswerMeans
    <3>2. PICK f \in Writers : /\ held[<<w, "open">>] = {f}
                               /\ Stored(target[w], f)
      <4>1. /\ <<w, "open">> \in Reads
            /\ target[<<w, "open">>] = target[w]
        BY ReadsFacts DEF IInv, OneKeyPerCall
      <4>2. QED
        BY <3>1, <4>1 DEF IInv, HeldOne
    <3>3. objects[target[w]] = f
      BY <3>2 DEF IInv, Kept, Stored
    <3>4. value[f] # value[w]
      BY <3>1, <3>2 DEF Conflicts, Content
    <3>5. QED
      BY <3>3, <3>4
  <2>3. QED
    BY <2>1, <2>2
<1>2. QED
  BY <1>1, Invariance, PTL

(* Unless a delete intervenes, all three looks of a locate that found an   *)
(* object find that object.                                                *)
THEOREM LocatesAgree == Spec => []LocatesOne
<1>1. IInv => LocatesOne
  <2> SUFFICES ASSUME IInv, NEW l \in Locates, Opened(<<l, "exists">>),
                      ~Deleted(target[<<l, "exists">>])
               PROVE  /\ LocateAnswer(l) \notin {"absent", "raised"}
                      /\ \A use \in {"exists", "resolve"} :
                            Opened(<<l, use>>) =>
                              held[<<l, use>>] = {objects[target[<<l, "exists">>]]}
                      /\ status[<<l, "stat">>] \in {"measured", "described"} =>
                            sized[<<l, "stat">>] = objects[target[<<l, "exists">>]]
    BY DEF LocatesOne
  <2>0. /\ TypeOK /\ Kept /\ OneKeyPerCall /\ MissedDeleted
        /\ \A use \in {"exists", "resolve", "stat"} :
              /\ <<l, use>> \in Reads
              /\ target[<<l, use>>] = target[<<l, "exists">>]
    BY ReadsFacts DEF IInv, OneKeyPerCall
  <2>1. /\ status[<<l, "resolve">>] \in {"pending", "opened"}
        /\ status[<<l, "stat">>] \in {"pending", "measured", "described"}
    BY <2>0, LocateStatusAt DEF MissedDeleted
  <2>2. LocateAnswer(l) \notin {"absent", "raised"}
    BY <2>1, LocateAnswerAt DEF LocateAnswerTable, Opened
  <2>3. ASSUME NEW use \in {"exists", "resolve"}, Opened(<<l, use>>)
        PROVE  held[<<l, use>>] = {objects[target[<<l, "exists">>]]}
    <3>1. PICK f \in Writers : /\ held[<<l, use>>] = {f}
                               /\ Stored(target[<<l, "exists">>], f)
      BY <2>0, <2>3 DEF IInv, HeldOne
    <3>2. objects[target[<<l, "exists">>]] = f
      BY <2>0, <3>1 DEF Kept, Stored
    <3>3. QED
      BY <3>1, <3>2
  <2>4. ASSUME status[<<l, "stat">>] \in {"measured", "described"}
        PROVE  sized[<<l, "stat">>] = objects[target[<<l, "exists">>]]
    <3>1. /\ sized[<<l, "stat">>] \in Writers
          /\ Stored(target[<<l, "exists">>], sized[<<l, "stat">>])
      BY <2>0, <2>4 DEF IInv, SizedOne
    <3>2. QED
      BY <2>0, <3>1 DEF Kept, Stored
  <2>5. QED
    BY <2>2, <2>3, <2>4
<1>2. QED
  BY <1>1, Invariance, PTL

-----------------------------------------------------------------------------
(* The refinement of ClientPromise. *)

(* The calls of the store a client's call is made of. *)
Uses(c) ==
    IF c \in Writers THEN {c, <<c, "open">>, <<c, "stat">>}
    ELSE IF c \in Locates
         THEN {<<c, "exists">>, <<c, "resolve">>, <<c, "stat">>} ELSE {c}

LEMMA RegisterAt ==
  ASSUME TypeOK, NEW k \in Keys
  PROVE  /\ objects[k] = NoFile => Register[k] = NoValue
         /\ Store!Present(k) => /\ objects[k] \in Writers
                                /\ Register[k] = value[objects[k]]
                                /\ Register[k] # NoValue
BY NothingDistinct DEF Register, TypeOK, Store!Present

LEMMA AnswerOf ==
  ASSUME NEW c \in Clients
  PROVE  /\ c \in Writers => ClientAnswer[c] = PutAnswer(c)
         /\ c \in Writers => ClientAnswer'[c] = PutAnswer(c)'
         /\ c \in Locates => ClientAnswer[c] = LocateAnswer(c)
         /\ c \in Locates => ClientAnswer'[c] = LocateAnswer(c)'
         /\ c \in Deletes => ClientAnswer[c] = status[c]
         /\ c \in Deletes => ClientAnswer'[c] = status'[c]
BY CallsDistinct DEF ClientAnswer, Clients

LEMMA KeyAt ==
  ASSUME TypeOK, OneKeyPerCall, NEW c \in Clients
  PROVE  /\ KeyOf[c] \in Keys
         /\ \A u \in Uses(c) : target[u] = KeyOf[c]
BY CallsDistinct, StoreSets, ReadsFacts
DEF KeyOf, Clients, Uses, TypeOK, OneKeyPerCall

(* A step of a client's call that is one use of the store, and what it     *)
(* makes of the client's answer.                                           *)
Move(c, u) ==
    /\ u \in Uses(c)
    /\ \A d \in Store!Calls : d # u => status'[d] = status[d]
    /\ \A r \in Reads : r # u => held'[r] = held[r]
    /\ UNCHANGED <<target, value>>

(* No other call's answer moves. *)
LEMMA OthersKeep ==
  ASSUME TypeOK, TypeOK', NEW c \in Clients, NEW u \in Uses(c), Move(c, u)
  PROVE  /\ KeyOf' = KeyOf
         /\ ClientAnswer' = [ClientAnswer EXCEPT ![c] = ClientAnswer'[c]]
<1> USE StoreSets, ReadsFacts, CallsDistinct
<1>1. KeyOf' = KeyOf
  BY DEF KeyOf, Move
<1>2. ASSUME NEW d \in Clients, d # c PROVE ClientAnswer'[d] = ClientAnswer[d]
  <2>1. u \notin Uses(d)
    BY <1>2 DEF Uses, Clients, Reads
  <2>2. CASE d \in Writers
    <3>1. /\ status'[d] = status[d]
          /\ status'[<<d, "open">>] = status[<<d, "open">>]
          /\ status'[<<d, "stat">>] = status[<<d, "stat">>]
          /\ held'[<<d, "open">>] = held[<<d, "open">>]
          /\ value' = value
      BY <2>1, <2>2 DEF Uses, Move
    <3>2. Conflicts(d)' <=> Conflicts(d)
      BY <3>1 DEF Conflicts, Content
    <3>3. /\ status[d] \in PutAnswers
          /\ status[<<d, "open">>] \in {"pending", "opened"} \cup Missed
          /\ status[<<d, "stat">>] \in
               {"pending", "measured", "described"} \cup Missed
      BY <2>2, PutStatusAt
    <3>4. PutAnswer(d)' = PutAnswer(d)
      BY <3>1, <3>2, <3>3, PutAnswerAt DEF PutAnswerTable, PutAnswers, Missed
    <3>5. QED
      BY <2>2, <3>4, AnswerOf
  <2>3. CASE d \in Locates
    <3>1. \A use \in {"exists", "resolve", "stat"} :
            status'[<<d, use>>] = status[<<d, use>>]
      BY <2>1, <2>3 DEF Uses, Move
    <3>2. /\ status[<<d, "exists">>] \in {"pending", "opened"} \cup Missed
          /\ status[<<d, "resolve">>] \in {"pending", "opened"} \cup Missed
          /\ status[<<d, "stat">>] \in
               {"pending", "measured", "described"} \cup Missed
      BY <2>3, LocateStatusAt
    <3>3. LocateAnswer(d)' = LocateAnswer(d)
      BY <3>1, <3>2, LocateAnswerAt DEF LocateAnswerTable, Missed
    <3>4. QED
      BY <2>3, <3>3, AnswerOf
  <2>4. CASE d \in Deletes
    BY <2>1, <2>4, AnswerOf DEF Uses, Move
  <2>5. QED
    BY <2>2, <2>3, <2>4 DEF Clients
<1>3. /\ ClientAnswer = [d \in Clients |-> ClientAnswer[d]]
      /\ ClientAnswer' = [d \in Clients |-> ClientAnswer'[d]]
  BY DEF ClientAnswer, Clients
<1>4. QED
  BY <1>1, <1>2, <1>3

(* An answer that stays is a stutter of the answers. *)
LEMMA AnswerStays ==
  ASSUME TypeOK, TypeOK', NEW c \in Clients, NEW u \in Uses(c), Move(c, u),
         ClientAnswer'[c] = ClientAnswer[c]
  PROVE  ClientAnswer' = ClientAnswer
<1>1. ClientAnswer = [d \in Clients |-> ClientAnswer[d]]
  BY DEF ClientAnswer, Clients
<1>2. ClientAnswer' = [ClientAnswer EXCEPT ![c] = ClientAnswer[c]]
  BY OthersKeep
<1>3. QED
  BY <1>1, <1>2

LEMMA RegisterStays ==
  ASSUME UNCHANGED <<objects, value>>
  PROVE  Register' = Register
BY DEF Register

LEMMA PutPromise ==
  ASSUME IInv, TypeOK', NEW w \in Writers, PutBytes(w), UNCHANGED <<value, paths>>
  PROVE  [Promise!Next]_Promise!vars
<1> USE StoreSets, ReadsFacts, CallsDistinct
<1>0. /\ TypeOK /\ OneKeyPerCall
      /\ w \in Clients /\ w \in Uses(w)
  BY DEF IInv, Clients, Uses
<1>1. Move(w, w)
  BY <1>0, PutMoves DEF Move
<1>2. /\ KeyOf' = KeyOf /\ UNCHANGED value
      /\ ClientAnswer' = [ClientAnswer EXCEPT ![w] = PutAnswer(w)']
      /\ ClientAnswer[w] = PutAnswer(w)
      /\ KeyOf[w] = target[w] /\ KeyOf[w] \in Keys
  BY <1>0, <1>1, OthersKeep, AnswerOf, KeyAt
<1>3. status[w] # "exists" => status'[<<w, "open">>] = "pending"
  <2>1. status'[<<w, "open">>] = status[<<w, "open">>]
    BY <1>0, PutMoves
  <2>2. status[<<w, "open">>] # "pending" => status[w] = "exists"
    BY <1>0 DEF TypeOK, Used
  <2>3. QED
    BY <2>1, <2>2
<1>4. CASE objects' # objects
  <2>1. /\ status[w] = "pending" /\ status'[w] = "published"
        /\ objects[target[w]] = NoFile
        /\ objects' = [objects EXCEPT ![target[w]] = w]
    BY <1>0, <1>4, PutMoves DEF Store!Present
  <2>2. PutAnswer(w) = "pending" /\ PutAnswer(w)' = "installed"
    BY <2>1, PutAnswerAt DEF PutAnswerTable
  <2>3. Register' = [Register EXCEPT ![KeyOf[w]] = value[w]]
    BY <1>0, <1>2, <2>1, NothingDistinct DEF Register, TypeOK
  <2>4. Register[KeyOf[w]] = NoValue
    BY <1>0, <1>2, <2>1, RegisterAt
  <2>5. Promise!Install(w)
    BY <1>2, <2>2, <2>3, <2>4 DEF Promise!Install, Promise!Reply, Promise!Value
  <2>6. QED
    BY <2>5 DEF Promise!Next
<1>5. CASE UNCHANGED objects
  <2>1. Register' = Register
    BY <1>2, <1>5, RegisterStays
  <2>2. \/ /\ status[w] \in {"pending", "beaten"}
           /\ status'[w] \in {"beaten", "exists"}
        \/ status[w] = "pending" /\ status'[w] = "published"
        \/ status[w] \in {"published", "measured"} /\ status'[w] = "measured"
        \/ /\ status[w] \in {"published", "measured"}
           /\ status'[w] \in {"created", "unreported"}
        \/ status[w] \in {"pending", "beaten"} /\ status'[w] = "failed"
    BY <1>0, PutMoves
  <2>3. ~(status[w] = "pending" /\ status'[w] = "published")
    <3>1. w # NoFile
      BY NothingDistinct
    <3>2. QED
      BY <1>0, <1>2, <1>5, <3>1, PutMoves DEF Store!Present, TypeOK
  <2>4. CASE PutAnswer(w)' = PutAnswer(w)
    <3>1. ClientAnswer' = ClientAnswer
      BY <1>0, <1>1, <1>2, <2>4, AnswerStays, AnswerOf
    <3>2. QED
      BY <1>2, <2>1, <3>1 DEF Promise!vars
  <2>5. CASE /\ status[w] \in {"pending", "beaten"}
             /\ status'[w] \in {"beaten", "exists"}
    <3>1. PutAnswer(w) = "pending" /\ PutAnswer(w)' = "pending"
      BY <1>3, <2>5, PutAnswerAt DEF PutAnswerTable
    <3>2. QED
      BY <2>4, <3>1
  <2>6. CASE /\ status[w] \in {"published", "measured"}
             /\ status'[w] = "measured"
    <3>1. PutAnswer(w) = "installed" /\ PutAnswer(w)' = "installed"
      BY <2>6, PutAnswerAt DEF PutAnswerTable
    <3>2. QED
      BY <2>4, <3>1
  <2>7. CASE /\ status[w] \in {"published", "measured"}
             /\ status'[w] \in {"created", "unreported"}
    <3>1. PutAnswer(w) = "installed" /\ PutAnswer(w)' = status'[w]
      BY <2>7, PutAnswerAt DEF PutAnswerTable
    <3>2. Promise!Return(w)
      BY <1>2, <2>1, <2>7, <3>1 DEF Promise!Return, Promise!Reply
    <3>3. QED
      BY <3>2 DEF Promise!Next
  <2>8. CASE status[w] \in {"pending", "beaten"} /\ status'[w] = "failed"
    <3>1. PutAnswer(w) = "pending" /\ PutAnswer(w)' = "failed"
      BY <1>3, <2>8, PutAnswerAt DEF PutAnswerTable
    <3>2. Promise!GiveUp(w)
      BY <1>2, <2>1, <3>1 DEF Promise!GiveUp, Promise!Reply
    <3>3. QED
      BY <3>2 DEF Promise!Next
  <2>9. QED
    BY <2>2, <2>3, <2>5, <2>6, <2>7, <2>8
<1>6. QED
  BY <1>4, <1>5

(* What every look at the store tells the call that makes it. *)
LEMMA ReadMove ==
  ASSUME IInv, NEW c \in Clients, NEW r \in Reads, r \in Uses(c), Asks(r),
         UNCHANGED <<value, paths>>
  PROVE  /\ Move(c, r)
         /\ Register' = Register
         /\ \/ /\ r[2] # "stat" /\ status[r] = "pending" /\ status'[r] = "opened"
               /\ Store!Present(KeyOf[c])
               /\ held'[r] = {objects[KeyOf[c]]}
            \/ /\ r[2] = "stat"
               /\ status[r] = "pending" /\ status'[r] = "measured"
            \/ /\ r[2] = "stat"
               /\ status[r] = "measured" /\ status'[r] = "described"
               /\ Store!Present(KeyOf[c])
            \/ /\ \/ status[r] = "pending"
                  \/ r[2] = "stat" /\ status[r] = "measured"
               /\ status'[r] \in Missed
               /\ Register[KeyOf[c]] = NoValue
<1> USE StoreSets, ReadsFacts, CallsDistinct
<1>0. TypeOK /\ OneKeyPerCall
  BY DEF IInv
<1>1. Move(c, r)
  BY <1>0, ReadMoves DEF Move
<1>2. Register' = Register
  BY <1>0, ReadMoves, RegisterStays
<1>3. KeyOf[c] = target[r] /\ KeyOf[c] \in Keys
  BY <1>0, KeyAt
<1>4. ~Store!Present(target[r]) => Register[KeyOf[c]] = NoValue
  BY <1>0, <1>3, RegisterAt DEF Store!Present
<1>5. held' = [held EXCEPT ![r] = {objects[target[r]]}] =>
        held'[r] = {objects[KeyOf[c]]}
  BY <1>0, <1>3 DEF TypeOK
<1>6. QED
  BY <1>0, <1>1, <1>2, <1>3, <1>4, <1>5, ReadMoves

LEMMA OpenPromise ==
  ASSUME IInv, TypeOK', NEW w \in Writers, OpenExisting(w),
         UNCHANGED <<value, paths>>
  PROVE  [Promise!Next]_Promise!vars
<1> USE StoreSets, ReadsFacts, CallsDistinct
<1> DEFINE r == <<w, "open">>
<1>0. /\ TypeOK /\ OneKeyPerCall
      /\ w \in Clients /\ r \in Uses(w) /\ r \in Reads /\ r[2] # "stat"
      /\ status[w] = "exists" /\ Asks(r)
  BY AsksInTurn DEF IInv, Clients, Uses, OpenExisting
<1>1. /\ status[r] = "pending"
      /\ Move(w, r)
      /\ Register' = Register
      /\ \/ /\ status'[r] = "opened"
            /\ Store!Present(KeyOf[w])
            /\ held'[r] = {objects[KeyOf[w]]}
         \/ /\ status'[r] \in Missed
            /\ Register[KeyOf[w]] = NoValue
  BY <1>0, ReadMove
<1>2. /\ KeyOf' = KeyOf /\ UNCHANGED value
      /\ ClientAnswer' = [ClientAnswer EXCEPT ![w] = PutAnswer(w)']
      /\ ClientAnswer[w] = PutAnswer(w)
      /\ KeyOf[w] \in Keys
  BY <1>0, <1>1, OthersKeep, AnswerOf, KeyAt
<1>3. /\ status'[w] = "exists"
      /\ status'[<<w, "stat">>] = "pending"
  <2>1. status[<<w, "stat">>] = "pending"
    BY <1>0, <1>1 DEF TypeOK, Used, Opened
  <2>2. status'[w] = status[w] /\ status'[<<w, "stat">>] = status[<<w, "stat">>]
    BY <1>1 DEF Move
  <2>3. QED
    BY <1>0, <2>1, <2>2
<1>4. PutAnswer(w) = "pending"
  BY <1>0, <1>1, PutAnswerAt DEF PutAnswerTable
<1>5. CASE status'[r] \in Missed
  <2>1. PutAnswer(w)' = "gone"
    BY <1>3, <1>5, PutAnswerAt DEF PutAnswerTable, Missed
  <2>2. Promise!Lose(w)
    BY <1>1, <1>2, <1>4, <1>5, <2>1
    DEF Promise!Lose, Promise!Reply, Promise!Value, Missed
  <2>3. QED
    BY <2>2 DEF Promise!Next
<1>6. CASE status'[r] = "opened"
  <2>1. /\ objects[KeyOf[w]] \in Writers
        /\ Register[KeyOf[w]] = value[objects[KeyOf[w]]]
        /\ Register[KeyOf[w]] # NoValue
        /\ held'[r] = {objects[KeyOf[w]]}
    BY <1>0, <1>1, <1>2, <1>6, RegisterAt DEF Missed
  <2>2. Conflicts(w)' <=> Register[KeyOf[w]] # value[w]
    BY <1>2, <2>1 DEF Conflicts, Content
  <2>3. CASE Conflicts(w)'
    <3>1. PutAnswer(w)' = "conflict"
      BY <1>3, <1>6, <2>3, PutAnswerAt DEF PutAnswerTable
    <3>2. Promise!Disagree(w)
      BY <1>1, <1>2, <1>4, <2>1, <2>2, <2>3, <3>1
      DEF Promise!Disagree, Promise!Reply, Promise!Value
    <3>3. QED
      BY <3>2 DEF Promise!Next
  <2>4. CASE ~Conflicts(w)'
    <3>1. PutAnswer(w)' = "agreed"
      BY <1>3, <1>6, <2>4, PutAnswerAt DEF PutAnswerTable
    <3>2. Promise!Agree(w)
      BY <1>1, <1>2, <1>4, <2>2, <2>4, <3>1
      DEF Promise!Agree, Promise!Reply, Promise!Value
    <3>3. QED
      BY <3>2 DEF Promise!Next
  <2>5. QED
    BY <2>3, <2>4
<1>7. QED
  BY <1>1, <1>5, <1>6

(* The size that stat takes first tells the caller nothing yet. *)
LEMMA StatPromise ==
  ASSUME IInv, TypeOK', NEW w \in Writers, StatExisting(w),
         UNCHANGED <<value, paths>>
  PROVE  [Promise!Next]_Promise!vars
<1> USE StoreSets, ReadsFacts, CallsDistinct
<1> DEFINE r == <<w, "stat">>
<1>0. /\ TypeOK /\ OneKeyPerCall
      /\ w \in Clients /\ r \in Uses(w) /\ r \in Reads /\ r[2] = "stat"
      /\ status[<<w, "open">>] = "opened" /\ ~Conflicts(w) /\ Asks(r)
  BY AsksInTurn DEF IInv, Clients, Uses, StatExisting, Opened
<1>1. /\ status[r] \in {"pending", "measured"}
      /\ Move(w, r)
      /\ Register' = Register
      /\ \/ status'[r] \in {"measured", "described"}
         \/ status'[r] \in Missed /\ Register[KeyOf[w]] = NoValue
  BY <1>0, ReadMove
<1>2. /\ KeyOf' = KeyOf /\ UNCHANGED value
      /\ ClientAnswer' = [ClientAnswer EXCEPT ![w] = PutAnswer(w)']
      /\ ClientAnswer[w] = PutAnswer(w)
      /\ ClientAnswer'[w] = PutAnswer(w)'
  BY <1>0, <1>1, OthersKeep, AnswerOf
<1>3. status[w] = "exists"
  BY <1>0 DEF TypeOK, Used
<1>4. /\ status'[w] = "exists"
      /\ status'[<<w, "open">>] = "opened"
      /\ held'[<<w, "open">>] = held[<<w, "open">>]
  <2>1. /\ status'[w] = status[w]
        /\ status'[<<w, "open">>] = status[<<w, "open">>]
        /\ held'[<<w, "open">>] = held[<<w, "open">>]
    BY <1>1 DEF Move
  <2>2. QED
    BY <1>0, <1>3, <2>1
<1>5. ~Conflicts(w)'
  BY <1>0, <1>2, <1>4 DEF Conflicts, Content
<1>6. PutAnswer(w) = "agreed"
  BY <1>0, <1>1, <1>3, PutAnswerAt DEF PutAnswerTable
<1>7. CASE status'[r] = "measured"
  <2>1. PutAnswer(w)' = "agreed"
    BY <1>4, <1>5, <1>7, PutAnswerAt DEF PutAnswerTable
  <2>2. ClientAnswer' = ClientAnswer
    BY <1>0, <1>1, <1>2, <1>6, <2>1, AnswerStays
  <2>3. QED
    BY <1>1, <1>2, <2>2 DEF Promise!vars
<1>8. CASE status'[r] = "described"
  <2>1. PutAnswer(w)' = "accepted"
    BY <1>4, <1>5, <1>8, PutAnswerAt DEF PutAnswerTable
  <2>2. Promise!Return(w)
    BY <1>1, <1>2, <1>6, <2>1 DEF Promise!Return, Promise!Reply
  <2>3. QED
    BY <2>2 DEF Promise!Next
<1>9. CASE status'[r] \in Missed
  <2>1. PutAnswer(w)' = "gone"
    BY <1>4, <1>5, <1>9, PutAnswerAt DEF PutAnswerTable, Missed
  <2>2. Promise!Lose(w)
    BY <1>1, <1>2, <1>6, <1>9, <2>1
    DEF Promise!Lose, Promise!Reply, Promise!Value, Missed
  <2>3. QED
    BY <2>2 DEF Promise!Next
<1>10. QED
  BY <1>1, <1>7, <1>8, <1>9

(* The places a call of locate can be in when it asks the store. *)
LEMMA LocatePromise ==
  ASSUME IInv, TypeOK', NEW l \in Locates, Locate(l), UNCHANGED <<value, paths>>
  PROVE  [Promise!Next]_Promise!vars
<1> USE StoreSets, ReadsFacts, CallsDistinct
<1> DEFINE exists == <<l, "exists">>
           resolve == <<l, "resolve">>
           stat == <<l, "stat">>
<1>0. /\ TypeOK /\ OneKeyPerCall /\ l \in Clients
      /\ \A r \in {exists, resolve, stat} : r \in Reads /\ r \in Uses(l)
  BY DEF IInv, Clients, Uses
<1>1. PICK r \in {exists, resolve, stat} :
        /\ Asks(r)
        /\ r = resolve => paths /\ Opened(exists)
        /\ r = stat => IF paths THEN Opened(resolve) ELSE Opened(exists)
  <2>1. PICK use \in {"exists", "resolve", "stat"} :
          /\ Asks(<<l, use>>)
          /\ use = "resolve" => paths /\ Opened(exists)
          /\ use = "stat" => IF paths THEN Opened(resolve) ELSE Opened(exists)
    BY <1>0, AsksInTurn
  <2>2. <<l, use>> \in {exists, resolve, stat}
    OBVIOUS
  <2>3. /\ <<l, use>> = resolve => use = "resolve"
        /\ <<l, use>> = stat => use = "stat"
    OBVIOUS
  <2>4. QED
    BY <2>1, <2>2, <2>3
<1>2. /\ exists # resolve /\ resolve # stat /\ exists # stat
      /\ r[2] = "stat" <=> r = stat
  OBVIOUS
<1>3. /\ Move(l, r)
      /\ Register' = Register
      /\ \/ r # stat /\ status[r] = "pending" /\ status'[r] = "opened"
         \/ r = stat /\ status[r] = "pending" /\ status'[r] = "measured"
         \/ /\ r = stat /\ status[r] = "measured" /\ status'[r] = "described"
            /\ Store!Present(KeyOf[l])
         \/ /\ status[r] = "pending" \/ (r = stat /\ status[r] = "measured")
            /\ status'[r] \in Missed /\ Register[KeyOf[l]] = NoValue
  BY <1>0, <1>1, <1>2, ReadMove
<1>4. /\ KeyOf' = KeyOf /\ UNCHANGED value
      /\ ClientAnswer' = [ClientAnswer EXCEPT ![l] = LocateAnswer(l)']
      /\ ClientAnswer[l] = LocateAnswer(l)
      /\ ClientAnswer'[l] = LocateAnswer(l)'
      /\ KeyOf[l] \in Keys
  BY <1>0, <1>3, OthersKeep, AnswerOf, KeyAt
<1>5. /\ Used(resolve) => paths /\ Opened(exists)
      /\ Used(stat) => IF paths THEN Opened(resolve) ELSE Opened(exists)
  BY <1>0 DEF TypeOK
<1>6. \A q \in {exists, resolve, stat} : q # r => status'[q] = status[q]
  BY <1>0, <1>3 DEF Move
<1>7. /\ r = exists => /\ status[exists] = "pending"
                       /\ status[resolve] = "pending" /\ status[stat] = "pending"
      /\ r = resolve => /\ status[exists] = "opened"
                        /\ status[resolve] = "pending" /\ status[stat] = "pending"
      /\ r = stat => /\ status[exists] = "opened"
                     /\ status[resolve] \in {"pending", "opened"}
                     /\ status[stat] \in {"pending", "measured"}
  BY <1>1, <1>2, <1>3, <1>5 DEF Opened, Used
<1>8. LocateAnswer(l) = "pending"
  BY <1>1, <1>7, LocateAnswerAt DEF LocateAnswerTable
<1>9. /\ status'[r] \in {"opened", "measured"} => LocateAnswer(l)' = "pending"
      /\ status'[r] = "described" => LocateAnswer(l)' = "located"
      /\ status'[r] \in Missed => LocateAnswer(l)' \in {"absent", "raised"}
  <2>1. CASE r = exists
    BY <1>2, <1>3, <1>6, <1>7, <2>1, LocateAnswerAt DEF LocateAnswerTable, Missed
  <2>2. CASE r = resolve
    BY <1>2, <1>3, <1>6, <1>7, <2>2, LocateAnswerAt DEF LocateAnswerTable, Missed
  <2>3. CASE r = stat
    BY <1>2, <1>3, <1>6, <1>7, <2>3, LocateAnswerAt DEF LocateAnswerTable, Missed
  <2>4. QED
    BY <2>1, <2>2, <2>3
<1>10. CASE status'[r] \in {"opened", "measured"}
  <2>1. ClientAnswer' = ClientAnswer
    BY <1>0, <1>3, <1>4, <1>8, <1>9, <1>10, AnswerStays
  <2>2. QED
    BY <1>3, <1>4, <2>1 DEF Promise!vars
<1>11. CASE status'[r] = "described"
  <2>1. Register[KeyOf[l]] # NoValue
    BY <1>0, <1>3, <1>4, <1>11, RegisterAt DEF Missed
  <2>2. Promise!Located(l)
    BY <1>3, <1>4, <1>8, <1>9, <1>11, <2>1
    DEF Promise!Located, Promise!Reply, Promise!Value
  <2>3. QED
    BY <2>2 DEF Promise!Next
<1>12. CASE status'[r] \in Missed
  <2>1. Register[KeyOf[l]] = NoValue
    BY <1>3, <1>12 DEF Missed
  <2>2. Promise!NotLocated(l)
    BY <1>3, <1>4, <1>8, <1>9, <1>12, <2>1
    DEF Promise!NotLocated, Promise!Reply, Promise!Value
  <2>3. QED
    BY <2>2 DEF Promise!Next
<1>13. QED
  BY <1>3, <1>10, <1>11, <1>12

LEMMA DeletePromise ==
  ASSUME IInv, TypeOK', NEW d \in Deletes, Delete(d), UNCHANGED <<value, paths>>
  PROVE  [Promise!Next]_Promise!vars
<1> USE StoreSets, ReadsFacts, CallsDistinct
<1>0. /\ TypeOK /\ OneKeyPerCall
      /\ d \in Clients /\ d \in Uses(d)
  BY DEF IInv, Clients, Uses
<1>1. Move(d, d) /\ status[d] = "pending"
  BY <1>0, DeleteMoves DEF Move
<1>2. /\ KeyOf' = KeyOf /\ UNCHANGED value
      /\ ClientAnswer' = [ClientAnswer EXCEPT ![d] = status'[d]]
      /\ ClientAnswer[d] = "pending"
      /\ KeyOf[d] = target[d] /\ KeyOf[d] \in Keys
  BY <1>0, <1>1, OthersKeep, AnswerOf, KeyAt
<1>3. CASE /\ status'[d] = "deleted"
           /\ Store!Present(target[d])
           /\ objects' = [objects EXCEPT ![target[d]] = NoFile]
  <2>1. Register' = [Register EXCEPT ![KeyOf[d]] = NoValue]
    BY <1>0, <1>2, <1>3 DEF Register, TypeOK
  <2>2. Register[KeyOf[d]] # NoValue
    BY <1>0, <1>2, <1>3, RegisterAt
  <2>3. Promise!Remove(d)
    BY <1>2, <1>3, <2>1, <2>2 DEF Promise!Remove, Promise!Reply, Promise!Value
  <2>4. QED
    BY <2>3 DEF Promise!Next
<1>4. CASE /\ status'[d] \in Missed
           /\ ~Store!Present(target[d])
           /\ UNCHANGED objects
  <2>1. Register' = Register /\ Register[KeyOf[d]] = NoValue
    BY <1>0, <1>2, <1>4, RegisterAt, RegisterStays DEF Store!Present
  <2>2. Promise!NotRemoved(d)
    BY <1>2, <1>4, <2>1
    DEF Promise!NotRemoved, Promise!Reply, Promise!Value, Missed
  <2>3. QED
    BY <2>2 DEF Promise!Next
<1>5. QED
  BY <1>0, <1>3, <1>4, DeleteMoves

(* put_json_idempotent, locate and delete, made of several uses of the     *)
(* backend, behave towards each other as calls on one register per key:    *)
(* every answer is true of one moment of the call.                         *)
THEOREM CallsAreAtomic == Spec => ActsAtomically
<1>1. Init => Promise!Init
  <2> SUFFICES ASSUME Init PROVE Promise!Init
    OBVIOUS
  <2> USE StoreSets, ReadsFacts
  <2>1. /\ Register = [k \in Keys |-> NoValue]
        /\ value \in [Writers -> Values]
    BY DEF Init, Store!Init, Register
  <2>2. KeyOf \in [Clients -> Keys]
    BY DEF Init, Store!Init, KeyOf, Clients
  <2>3. ASSUME NEW c \in Clients PROVE ClientAnswer[c] = "pending"
    <3>1. \A d \in Store!Calls : status[d] = "pending"
      BY DEF Init, Store!Init
    <3>2. c \in Writers => PutAnswer(c) = "pending"
      BY <3>1, PutAnswerAt DEF PutAnswerTable
    <3>3. c \in Locates => LocateAnswer(c) = "pending"
      BY <3>1, LocateAnswerAt DEF LocateAnswerTable
    <3>4. QED
      BY <2>3, <3>1, <3>2, <3>3, AnswerOf DEF Clients
  <2>4. ClientAnswer = [c \in Clients |-> ClientAnswer[c]]
    BY DEF ClientAnswer, Clients
  <2>5. QED
    BY <2>1, <2>2, <2>3, <2>4 DEF Promise!Init, Promise!Calls, Clients
<1>2. IInv /\ [Next]_vars => [Promise!Next]_Promise!vars
  <2> SUFFICES ASSUME IInv, [Next]_vars PROVE [Promise!Next]_Promise!vars
    OBVIOUS
  <2>1. TypeOK'
    BY TypeStep DEF IInv
  <2>2. CASE UNCHANGED vars
    <3>1. Register' = Register /\ KeyOf' = KeyOf /\ ClientAnswer' = ClientAnswer
      BY <2>2 DEF vars, store, Register, KeyOf, ClientAnswer, PutAnswer,
         LocateAnswer, Conflicts, Content, AfterLostStat
    <3>2. QED
      BY <2>2, <3>1 DEF vars, store, Promise!vars
  <2>3. ASSUME Next PROVE [Promise!Next]_Promise!vars
    BY <2>1, <2>3, PutPromise, OpenPromise, StatPromise, LocatePromise,
       DeletePromise DEF Next, PutJsonIdempotent
  <2>4. QED
    BY <2>2, <2>3
<1>3. QED
  BY <1>1, <1>2, Invariance, PTL DEF Spec, ActsAtomically, Promise!Spec

=============================================================================
