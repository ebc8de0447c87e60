---------------------- MODULE DirectoryPublicationProofs ----------------------
(***************************************************************************)
(* Theorems about DirectoryPublication, for any sets of files, directory   *)
(* puts, puts beneath them and recursive deletes.                          *)
(***************************************************************************)
EXTENDS DirectoryPublication, TLAPS

-----------------------------------------------------------------------------
(* The inductive invariant, in named parts.                                *)

(* The trees a put has not yet renamed are private. *)
Public(t) == t \in Inner \/ pc[t] \in Placed

NoInnerSource == \A i \in Inner : source[i] = {}

(* Only a public tree is under the key or opened by a delete. *)
AtPublic     == ~Free => Public(at)
OpenedPublic == \A d \in Deletes : tree[d] # NoTree => Public(tree[d])

(* What has left the key was empty, and stays so. *)
OnlyThereFilled == \A t \in Trees : Public(t) /\ entries[t] # {} => at = t

(* A delete that unlinks has opened a tree, one that starts has not. *)
DeletesInOrder ==
    \A d \in Deletes : /\ pc[d] = "emptying" => tree[d] # NoTree
                       /\ pc[d] \in {"idle", "found"} => tree[d] = NoTree

(* From the end of the copy on, a tree is whole until a delete opens it. *)
Copied == {"copied", "checked", "refused"} \cup Placed

WholeSinceCopy ==
    \A c \in Puts : pc[c] \in Copied => source[c] \subseteq entries[c] \/ Opened(c)

(* What the source of a tree has not, inner puts put there. *)
ExtraLinked ==
    \A t \in Trees : \A name \in entries[t] \ source[t] :
        name \in Inner \/ \E i \in Inner : linked[i] = t /\ file[i] = name

Staged == {"staged", "linked", "refused", "aborting", "stuck"}

TempsStaged == \A i \in Inner, t \in Trees : i \in entries[t] => pc[i] \in Staged

Unlinked == {"idle", "absent", "parented", "staged", "refused", "exists"}
Linked   == {"linked", "unlinked", "created", "unreported"}

LinksOnce ==
    \A i \in Inner :
        /\ pc[i] \in Unlinked => linked[i] = NoTree
        /\ pc[i] \in Linked => linked[i] # NoTree

IInv == /\ TypeOK
        /\ NoInnerSource
        /\ AtPublic
        /\ OpenedPublic
        /\ OnlyThereFilled
        /\ DeletesInOrder
        /\ WholeSinceCopy
        /\ OnlyDeletesUnpublish
        /\ ExtraLinked
        /\ TempsStaged
        /\ LinksOnce
        /\ InnerFilesStay

-----------------------------------------------------------------------------
LEMMA InitIInv == Init => IInv
  BY CallsAssumption
  DEF Init, IInv, TypeOK, AtPublic, OpenedPublic, OnlyThereFilled, Public, Free,
     NoInnerSource, DeletesInOrder, WholeSinceCopy, OnlyDeletesUnpublish,
     ExtraLinked, TempsStaged, LinksOnce, InnerFilesStay, Copied, Private,
     Unlinked, Linked,
     Placed, DeletePlaces, InnerPlaces, Trees, Names

(* Nobody can reach a tree before it is renamed to the key. *)
LEMMA PrivateHidden ==
  ASSUME IInv, NEW c \in Puts, pc[c] \in Private
  PROVE  c # at /\ (\A d \in Deletes : tree[d] # c) /\ ~Public(c)
  BY CallsAssumption
  DEF IInv, TypeOK, Trees, AtPublic, OpenedPublic, Public, Free, Placed, Private

(* A put's step that changes nothing but its place, its temporary name and *)
(* its private tree.                                                       *)
LEMMA PrivateStep ==
  ASSUME IInv, NEW c \in Puts, pc[c] \in Private,
         NEW place \in Private, pc' = [pc EXCEPT ![c] = place],
         NEW files \in SUBSET source[c], entries' = [entries EXCEPT ![c] = files],
         place \in Copied => files = source[c],
         temp' \in {temp, temp \cup {c}, temp \ {c}},
         UNCHANGED <<at, source, tree, left, inner>>
  PROVE  IInv'
<1> USE CallsAssumption DEF IInv, TypeOK, Trees, Names, inner
<1>1. c # at /\ (\A d \in Deletes : tree[d] # c) /\ ~Public(c)
  BY PrivateHidden
<1>2. /\ pc'[c] = place
      /\ entries'[c] = files
      /\ \A t \in Trees : t # c => pc'[t] = pc[t] /\ entries'[t] = entries[t]
      /\ \A d \in Deletes : pc'[d] = pc[d]
      /\ \A x \in Puts : Opened(x)' <=> Opened(x)
  BY DEF Opened
<1>3. TypeOK' /\ NoInnerSource'
  BY <1>2 DEF NoInnerSource
<1>4. ~Public(c)' /\ \A t \in Trees : t # c => (Public(t)' <=> Public(t))
  BY <1>2 DEF Public, Private, Placed
<1>5. AtPublic' /\ OpenedPublic' /\ OnlyThereFilled' /\ DeletesInOrder'
  BY <1>1, <1>2, <1>4
  DEF AtPublic, OpenedPublic, OnlyThereFilled, DeletesInOrder, Free
<1>6. WholeSinceCopy'
  BY <1>2 DEF WholeSinceCopy
<1>7. OnlyDeletesUnpublish'
  BY <1>2 DEF OnlyDeletesUnpublish, Private, Placed
<1>8. ExtraLinked' /\ LinksOnce'
  BY <1>2 DEF ExtraLinked, LinksOnce
<1>9. TempsStaged'
  BY <1>2 DEF TempsStaged
<1>10. InnerFilesStay'
  BY <1>1, <1>2 DEF InnerFilesStay, Opened
<1>11. QED
  BY <1>3, <1>5, <1>6, <1>7, <1>8, <1>9, <1>10

(* A delete's step that leaves the key alone; it takes files only from the *)
(* tree it has opened.                                                     *)
LEMMA DeleteStep ==
  ASSUME IInv, NEW d \in Deletes,
         NEW place \in DeletePlaces, pc' = [pc EXCEPT ![d] = place],
         NEW t \in {tree[d], at}, tree' = [tree EXCEPT ![d] = t],
         tree[d] # NoTree => t # NoTree,
         place = "emptying" => t # NoTree,
         place \in {"idle", "found"} => t = NoTree,
         left' \in [Deletes -> SUBSET Names],
         entries' \in [Trees -> SUBSET Names],
         \A c \in Trees : c # t => entries'[c] = entries[c],
         \A c \in Trees : entries'[c] \subseteq entries[c],
         \A c \in Trees : Opened(c) => Opened(c)',
         UNCHANGED <<at, source, temp, inner>>
  PROVE  IInv'
<1> USE CallsAssumption DEF IInv, TypeOK, Trees, Names, inner
<1>1. /\ \A c \in Trees : pc'[c] = pc[c]
      /\ pc'[d] = place
      /\ \A e \in Deletes : e # d => pc'[e] = pc[e] /\ tree'[e] = tree[e]
      /\ tree'[d] = t
  OBVIOUS
<1>2. \A c \in Trees : Public(c)' <=> Public(c)
  BY <1>1 DEF Public
<1>3. TypeOK'
  <2>1. pc' \in [Trees \cup Deletes ->
                 Private \cup Placed \cup InnerPlaces \cup DeletePlaces]
    OBVIOUS
  <2>2. tree' \in [Deletes -> Trees \cup {NoTree}]
    OBVIOUS
  <2>3. /\ \A c \in Puts : pc'[c] \in Private => entries'[c] \subseteq source'[c]
        /\ \A c \in Puts : pc'[c] \in Private \cup Placed
        /\ \A i \in Inner : pc'[i] \in InnerPlaces
        /\ \A e \in Deletes : pc'[e] \in DeletePlaces
    BY <1>1
  <2>4. QED
    BY <2>1, <2>2, <2>3
<1>4. AtPublic' /\ OnlyThereFilled' /\ DeletesInOrder' /\ NoInnerSource'
  BY <1>1, <1>2
  DEF AtPublic, OnlyThereFilled, DeletesInOrder, NoInnerSource, Free
<1>5. OpenedPublic'
  BY <1>1, <1>2 DEF OpenedPublic, AtPublic, Free
<1>6. t # NoTree => Opened(t)'
  BY <1>1 DEF Opened
<1>7. WholeSinceCopy'
  BY <1>1, <1>6 DEF WholeSinceCopy
<1>8. OnlyDeletesUnpublish'
  BY <1>1 DEF OnlyDeletesUnpublish
<1>9. ExtraLinked' /\ TempsStaged' /\ LinksOnce'
  BY <1>1 DEF ExtraLinked, TempsStaged, LinksOnce
<1>10. InnerFilesStay'
  BY <1>6 DEF InnerFilesStay
<1>11. QED
  BY <1>3, <1>4, <1>5, <1>7, <1>8, <1>9, <1>10

(* An inner put's step that leaves the key alone and links nothing; in the *)
(* tree under the key only its own temporary file comes or goes.           *)
LEMMA InnerStep ==
  ASSUME IInv, NEW i \in Inner,
         NEW place \in InnerPlaces, pc' = [pc EXCEPT ![i] = place],
         place \in Unlinked => linked[i] = NoTree,
         place \in Linked => linked[i] # NoTree,
         entries' \in [Trees -> SUBSET Names],
         \A t \in Trees : t # at => entries'[t] = entries[t],
         \A t \in Trees : /\ entries[t] \ {i} \subseteq entries'[t]
                          /\ entries'[t] \subseteq entries[t] \cup {i},
         \A t \in Trees : i \in entries'[t] => place \in Staged,
         UNCHANGED <<at, source, temp, tree, left, inner>>
  PROVE  IInv'
<1> USE CallsAssumption DEF IInv, TypeOK, Trees, Names, inner
<1>1. /\ \A c \in (Trees \cup Deletes) \ {i} : pc'[c] = pc[c]
      /\ pc'[i] = place
      /\ \A t \in Trees : Opened(t)' <=> Opened(t)
  BY DEF Opened
<1>2. \A t \in Trees : Public(t)' <=> Public(t)
  BY <1>1 DEF Public
<1>3. \A c \in Puts : pc[c] \in Private => c # at
  BY DEF AtPublic, Public, Private, Placed, Free
<1>4. TypeOK' /\ NoInnerSource'
  <2>1. /\ \A c \in Puts : pc'[c] \in Private => entries'[c] \subseteq source'[c]
        /\ \A c \in Puts : pc'[c] \in Private \cup Placed
        /\ \A j \in Inner : pc'[j] \in InnerPlaces
        /\ \A e \in Deletes : pc'[e] \in DeletePlaces
    BY <1>1, <1>3
  <2>2. QED
    BY <2>1 DEF NoInnerSource
<1>5. AtPublic' /\ OpenedPublic' /\ DeletesInOrder'
  BY <1>1, <1>2 DEF AtPublic, OpenedPublic, DeletesInOrder, Free
<1>6. OnlyThereFilled'
  BY <1>2 DEF OnlyThereFilled
<1>7. WholeSinceCopy' /\ OnlyDeletesUnpublish'
  BY <1>1 DEF WholeSinceCopy, OnlyDeletesUnpublish
<1>8. ExtraLinked'
  BY DEF ExtraLinked
<1>9. TempsStaged' /\ LinksOnce'
  BY <1>1 DEF TempsStaged, LinksOnce
<1>10. InnerFilesStay'
  BY <1>1 DEF InnerFilesStay
<1>11. QED
  BY <1>4, <1>5, <1>6, <1>7, <1>8, <1>9, <1>10

(* Whoever loses the key without files in it had none to begin with, or    *)
(* has been opened.                                                        *)
LEMMA EmptyIsOpenedOrWas ==
  ASSUME IInv, ~Free, entries[at] = {}
  PROVE  at \in Trees /\ (source[at] = {} \/ Opened(at))
  BY DEF IInv, TypeOK, AtPublic, Public, NoInnerSource, WholeSinceCopy, Copied,
     Free, Trees

-----------------------------------------------------------------------------
LEMMA NextIInv == IInv /\ [Next]_vars => IInv'
<1> SUFFICES ASSUME IInv, [Next]_vars PROVE IInv'
  OBVIOUS
<1>0. TypeOK
  BY DEF IInv
<1> USE CallsAssumption DEF Goto
<1>1. ASSUME NEW c \in Puts,
             EnsureAbsent(c) \/ Mkdtemp(c) \/ RemoveReserved(c) \/ MakeTree(c)
               \/ EnsureStillAbsent(c) \/ Fault(c)
      PROVE  IInv'
  <2>1. PICK place \in Private : /\ pc' = [pc EXCEPT ![c] = place]
                                 /\ place \in Copied => pc[c] = "copied"
    BY <1>1 DEF EnsureAbsent, Mkdtemp, RemoveReserved, MakeTree,
       EnsureStillAbsent, Fault, Private, Copied, Placed
  <2>2. /\ pc[c] \in Private
        /\ UNCHANGED <<at, source, entries, tree, left, inner>>
        /\ temp' \in {temp, temp \cup {c}, temp \ {c}}
    BY <1>1 DEF EnsureAbsent, Mkdtemp, RemoveReserved, MakeTree,
       EnsureStillAbsent, Fault, Private
  <2>3. /\ entries[c] \in SUBSET source[c]
        /\ entries' = [entries EXCEPT ![c] = entries[c]]
    BY <1>0, <2>2 DEF TypeOK, Trees
  <2>4. pc[c] = "copied" => entries[c] = source[c]
    <3> SUFFICES ASSUME pc[c] = "copied" PROVE source[c] \subseteq entries[c]
      BY <2>3
    <3>1. \A d \in Deletes : tree[d] # c
      BY <1>0 DEF IInv, OpenedPublic, Public, Placed, TypeOK, Trees
    <3>2. QED
      BY <3>1 DEF IInv, WholeSinceCopy, Opened, Copied
  <2>5. QED
    BY <2>1, <2>2, <2>3, <2>4, PrivateStep
<1>2. ASSUME NEW c \in Puts, CopyFile(c) PROVE IInv'
  <2>1. PICK f \in source[c] : entries' = [entries EXCEPT ![c] = @ \cup {f}]
    BY <1>2 DEF CopyFile, ToCopy
  <2>2. pc[c] = "copying" /\ pc' = [pc EXCEPT ![c] = "copying"]
    BY <1>0, <1>2 DEF CopyFile, TypeOK, Trees
  <2>3. "copying" \in Private /\ "copying" \notin Copied
    BY DEF Private, Copied, Placed
  <2>4. entries[c] \cup {f} \in SUBSET source[c]
    BY <1>0, <2>2, <2>3 DEF TypeOK
  <2>5. entries' = [entries EXCEPT ![c] = entries[c] \cup {f}]
    BY <2>1
  <2>6. UNCHANGED <<at, source, tree, left, temp, inner>>
    BY <1>2 DEF CopyFile
  <2>7. QED
    BY <2>2, <2>3, <2>4, <2>5, <2>6, PrivateStep
<1>3. ASSUME NEW c \in Puts, FinishCopy(c) PROVE IInv'
  <2>1. entries' = [entries EXCEPT ![c] = source[c]]
    BY <1>0, <1>3 DEF FinishCopy, AllCopied, TypeOK, Trees
  <2>2. QED
    BY <1>3, <2>1, PrivateStep DEF FinishCopy, Private
<1>4. ASSUME NEW c \in Puts, Discard(c) PROVE IInv'
  <2>1. PICK files \in SUBSET entries[c] : entries' = [entries EXCEPT ![c] = files]
    BY <1>4 DEF Discard
  <2>2. PICK place \in {"exists", "failed"} : pc' = [pc EXCEPT ![c] = place]
    BY <1>4 DEF Discard
  <2>3. /\ place \in Private /\ place \notin Copied
        /\ pc[c] \in Private
        /\ temp' \in {temp, temp \cup {c}, temp \ {c}}
        /\ UNCHANGED <<at, source, tree, left, inner>>
    BY <1>4 DEF Discard, Private, Copied, Placed
  <2>4. files \in SUBSET source[c]
    BY <1>0, <2>3 DEF TypeOK
  <2>5. QED
    BY <2>1, <2>2, <2>3, <2>4, PrivateStep
<1>5. ASSUME NEW c \in Puts, Replace(c), CanReplace(c) PROVE IInv'
  <2>1. /\ at' = c
        /\ pc' = [pc EXCEPT ![c] = "placed"]
        /\ temp' = temp \ {c}
        /\ pc[c] = "checked"
        /\ UNCHANGED <<source, entries, tree, left, file, linked>>
    BY <1>5 DEF Replace, inner
  <2>2. /\ pc'[c] = "placed"
        /\ \A e \in (Trees \cup Deletes) \ {c} : pc'[e] = pc[e]
        /\ \A t \in Trees : Opened(t)' <=> Opened(t)
    BY <1>0, <2>1 DEF TypeOK, Trees, Opened
  <2>3. ~Free => entries[at] = {} /\ (source[at] = {} \/ Opened(at))
    BY <1>5, EmptyIsOpenedOrWas DEF CanReplace
  <2>4. TypeOK' /\ NoInnerSource'
    <3>1. /\ pc' \in [Trees \cup Deletes ->
                      Private \cup Placed \cup InnerPlaces \cup DeletePlaces]
          /\ \A e \in Puts : pc'[e] \in Private \cup Placed
          /\ \A i \in Inner : pc'[i] \in InnerPlaces
          /\ \A d \in Deletes : pc'[d] \in DeletePlaces
          /\ \A e \in Puts : pc'[e] \in Private => entries'[e] \subseteq source'[e]
      BY <1>0, <2>1, <2>2 DEF TypeOK, Placed, Private, Trees
    <3>2. QED
      BY <1>0, <2>1, <3>1 DEF TypeOK, IInv, NoInnerSource, Trees
  <2>5. /\ Public(c)'
        /\ \A t \in Trees : t # c => (Public(t)' <=> Public(t))
    BY <2>2 DEF Public, Placed, Trees
  <2>6. AtPublic' /\ OpenedPublic' /\ DeletesInOrder'
    BY <1>0, <2>1, <2>2, <2>5
    DEF IInv, TypeOK, AtPublic, OpenedPublic, DeletesInOrder, Trees
  <2>7. OnlyThereFilled'
    BY <1>0, <2>1, <2>3, <2>5 DEF IInv, TypeOK, OnlyThereFilled, Free
  <2>8. WholeSinceCopy' /\ ExtraLinked' /\ TempsStaged' /\ LinksOnce'
    BY <2>1, <2>2 DEF IInv, WholeSinceCopy, ExtraLinked, TempsStaged, LinksOnce,
       Copied, Placed, Trees
  <2>9. OnlyDeletesUnpublish'
    BY <1>0, <2>1, <2>2, <2>3
    DEF IInv, TypeOK, OnlyDeletesUnpublish, Free, Placed, Trees
  <2>10. InnerFilesStay'
    BY <1>0, <2>1, <2>2, <2>3 DEF IInv, TypeOK, InnerFilesStay, Free
  <2>11. QED
    BY <2>4, <2>6, <2>7, <2>8, <2>9, <2>10 DEF IInv
<1>6. ASSUME NEW c \in Puts, Replace(c), ~CanReplace(c) PROVE IInv'
  <2>1. /\ pc[c] = "checked" /\ pc' = [pc EXCEPT ![c] = "aborting"]
        /\ UNCHANGED <<at, source, entries, temp, tree, left, inner>>
    BY <1>6 DEF Replace
  <2>2. /\ entries' = [entries EXCEPT ![c] = entries[c]]
        /\ entries[c] \in SUBSET source[c]
        /\ "aborting" \in Private /\ "aborting" \notin Copied
        /\ pc[c] \in Private
    BY <1>0, <2>1 DEF TypeOK, Trees, Private, Copied, Placed
  <2>3. QED
    BY <2>1, <2>2, PrivateStep
<1>7. ASSUME NEW c \in Puts, Describe(c) PROVE IInv'
  <2>1. PICK place \in {"created", "unreported"} : pc' = [pc EXCEPT ![c] = place]
    BY <1>7 DEF Describe
  <2>2. /\ pc[c] = "placed"
        /\ UNCHANGED <<at, source, entries, temp, tree, left, file, linked>>
    BY <1>7 DEF Describe, inner
  <2>3. /\ pc'[c] \in Placed /\ pc[c] \in Placed
        /\ \A e \in (Trees \cup Deletes) \ {c} : pc'[e] = pc[e]
        /\ \A t \in Trees : Opened(t)' <=> Opened(t)
    BY <1>0, <2>1, <2>2 DEF TypeOK, Placed, Trees, Opened
  <2>4. TypeOK' /\ NoInnerSource'
    <3>1. /\ pc' \in [Trees \cup Deletes ->
                      Private \cup Placed \cup InnerPlaces \cup DeletePlaces]
          /\ \A e \in Puts : pc'[e] \in Private \cup Placed
          /\ \A i \in Inner : pc'[i] \in InnerPlaces
          /\ \A d \in Deletes : pc'[d] \in DeletePlaces
          /\ \A e \in Puts : pc'[e] \in Private => entries'[e] \subseteq source'[e]
      BY <1>0, <2>1, <2>2, <2>3 DEF TypeOK, Placed, Private, Trees
    <3>2. QED
      BY <1>0, <2>2, <3>1 DEF TypeOK, IInv, NoInnerSource
  <2>5. \A t \in Trees : Public(t)' <=> Public(t)
    BY <2>3 DEF Public, Trees
  <2>6. AtPublic' /\ OpenedPublic' /\ OnlyThereFilled' /\ DeletesInOrder'
    BY <1>0, <2>2, <2>3, <2>5
    DEF IInv, TypeOK, AtPublic, OpenedPublic, OnlyThereFilled, DeletesInOrder,
        Free, Trees
  <2>7. WholeSinceCopy' /\ OnlyDeletesUnpublish'
    BY <2>2, <2>3
    DEF IInv, WholeSinceCopy, OnlyDeletesUnpublish, Copied, Trees
  <2>8. ExtraLinked' /\ TempsStaged' /\ LinksOnce'
    BY <2>2, <2>3 DEF IInv, ExtraLinked, TempsStaged, LinksOnce, Trees
  <2>9. InnerFilesStay'
    BY <1>0, <2>2, <2>3 DEF IInv, TypeOK, InnerFilesStay
  <2>10. QED
    BY <2>4, <2>6, <2>7, <2>8, <2>9 DEF IInv
<1>8. ASSUME NEW d \in Deletes, ExistingPath(d) \/ DeleteFault(d) PROVE IInv'
  <2>1. PICK place \in DeletePlaces \ {"emptying"} : pc' = [pc EXCEPT ![d] = place]
    BY <1>8 DEF ExistingPath, DeleteFault, DeletePlaces
  <2>2. UNCHANGED <<at, source, entries, temp, tree, left, inner>>
    BY <1>8 DEF ExistingPath, DeleteFault
  <2>3. tree' = [tree EXCEPT ![d] = tree[d]]
    BY <1>0, <2>2 DEF TypeOK
  <2>4. place \in {"idle", "found"} => tree[d] = NoTree
    BY <1>0, <1>8, <2>1
    DEF ExistingPath, DeleteFault, IInv, DeletesInOrder, TypeOK
  <2>5. QED
    BY <1>0, <2>1, <2>2, <2>3, <2>4, DeleteStep DEF TypeOK, Opened
<1>9. ASSUME NEW d \in Deletes, OpenTree(d), Free PROVE IInv'
  <2>1. /\ pc' = [pc EXCEPT ![d] = "vanished"]
        /\ UNCHANGED <<at, source, entries, temp, tree, left, inner>>
    BY <1>9 DEF OpenTree
  <2>2. tree' = [tree EXCEPT ![d] = tree[d]]
    BY <1>0, <2>1 DEF TypeOK
  <2>3. /\ left' \in [Deletes -> SUBSET Names]
        /\ entries' \in [Trees -> SUBSET Names]
    BY <1>0, <2>1 DEF TypeOK
  <2>4. \A c \in Trees : Opened(c) => Opened(c)'
    BY <2>1 DEF Opened
  <2>5. "vanished" \in DeletePlaces
    BY DEF DeletePlaces
  <2>6. QED
    BY <2>1, <2>2, <2>3, <2>4, <2>5, DeleteStep
<1>10. ASSUME NEW d \in Deletes, OpenTree(d), ~Free PROVE IInv'
  <2>1. /\ pc' = [pc EXCEPT ![d] = "emptying"]
        /\ tree' = [tree EXCEPT ![d] = at]
        /\ left' = [left EXCEPT ![d] = entries[at]]
        /\ UNCHANGED <<at, source, entries, temp, inner>>
        /\ pc[d] = "found"
    BY <1>10 DEF OpenTree
  <2>2. at # NoTree /\ at \in Trees /\ tree[d] = NoTree
    BY <1>0, <1>10, <2>1 DEF Free, TypeOK, IInv, DeletesInOrder
  <2>3. /\ left' \in [Deletes -> SUBSET Names]
        /\ entries' \in [Trees -> SUBSET Names]
    BY <1>0, <2>1, <2>2 DEF TypeOK
  <2>4. \A c \in Trees : Opened(c) => Opened(c)'
    BY <1>0, <2>1, <2>2 DEF TypeOK, Opened
  <2>5. "emptying" \in DeletePlaces
    BY DEF DeletePlaces
  <2>6. QED
    BY <2>1, <2>2, <2>3, <2>4, <2>5, DeleteStep
<1>11. ASSUME NEW d \in Deletes, UnlinkEntry(d) PROVE IInv'
  <2>1. pc[d] = "emptying" /\ tree[d] # NoTree /\ tree[d] \in Trees
    BY <1>0, <1>11 DEF UnlinkEntry, IInv, DeletesInOrder, TypeOK
  <2>2. PICK place \in {"emptying", "failed"} : pc' = [pc EXCEPT ![d] = place]
    <3>1. pc = [pc EXCEPT ![d] = "emptying"]
      BY <1>0, <2>1 DEF TypeOK
    <3>2. QED
      BY <1>11, <3>1 DEF UnlinkEntry
  <2>3. /\ left' \in [Deletes -> SUBSET Names]
        /\ entries' \in [Trees -> SUBSET Names]
        /\ \A c \in Trees : c # tree[d] => entries'[c] = entries[c]
        /\ \A c \in Trees : entries'[c] \subseteq entries[c]
    BY <1>0, <1>11, <2>1 DEF UnlinkEntry, TypeOK
  <2>4. /\ tree' = [tree EXCEPT ![d] = tree[d]]
        /\ UNCHANGED <<at, source, temp, tree, inner>>
    BY <1>0, <1>11 DEF UnlinkEntry, TypeOK
  <2>5. /\ place \in DeletePlaces
        /\ place \notin {"idle", "found"}
        /\ \A c \in Trees : Opened(c) => Opened(c)'
    BY <2>4 DEF DeletePlaces, Opened
  <2>6. QED
    BY <2>1, <2>2, <2>3, <2>4, <2>5, DeleteStep
<1>12. ASSUME NEW d \in Deletes, RemoveDirectory(d), Removable(d) PROVE IInv'
  <2>1. /\ at' = NoTree
        /\ pc' = [pc EXCEPT ![d] = "deleted"]
        /\ UNCHANGED <<source, entries, temp, tree, left, file, linked>>
    BY <1>12 DEF RemoveDirectory, inner
  <2>2. /\ pc'[d] = "deleted"
        /\ \A e \in (Trees \cup Deletes) \ {d} : pc'[e] = pc[e]
        /\ \A t \in Trees : (Opened(t)' <=> Opened(t)) /\ (Public(t)' <=> Public(t))
    BY <1>0, <2>1 DEF TypeOK, Opened, Public, Trees
  <2>3. at \in Trees /\ entries[at] = {} /\ (source[at] = {} \/ Opened(at))
    BY <1>12, EmptyIsOpenedOrWas DEF Removable
  <2>4. TypeOK' /\ NoInnerSource'
    <3>1. /\ pc' \in [Trees \cup Deletes ->
                      Private \cup Placed \cup InnerPlaces \cup DeletePlaces]
          /\ \A e \in Puts : pc'[e] \in Private \cup Placed
          /\ \A i \in Inner : pc'[i] \in InnerPlaces
          /\ \A e \in Deletes : pc'[e] \in DeletePlaces
          /\ \A e \in Puts : pc'[e] \in Private => entries'[e] \subseteq source'[e]
      BY <1>0, <2>1, <2>2 DEF TypeOK, DeletePlaces, Trees
    <3>2. QED
      BY <1>0, <2>1, <3>1 DEF TypeOK, IInv, NoInnerSource
  <2>5. AtPublic' /\ OpenedPublic' /\ DeletesInOrder'
    BY <1>0, <2>1, <2>2
    DEF IInv, TypeOK, AtPublic, OpenedPublic, DeletesInOrder, Free, Trees
  <2>6. OnlyThereFilled'
    BY <2>1, <2>2, <2>3 DEF IInv, OnlyThereFilled
  <2>7. WholeSinceCopy' /\ ExtraLinked' /\ TempsStaged' /\ LinksOnce'
    BY <2>1, <2>2
    DEF IInv, WholeSinceCopy, ExtraLinked, TempsStaged, LinksOnce, Trees
  <2>8. OnlyDeletesUnpublish'
    BY <2>1, <2>2, <2>3 DEF IInv, OnlyDeletesUnpublish, Trees
  <2>9. InnerFilesStay'
    BY <1>0, <2>1, <2>2, <2>3 DEF IInv, TypeOK, InnerFilesStay
  <2>10. QED
    BY <2>4, <2>5, <2>6, <2>7, <2>8, <2>9 DEF IInv
<1>13. ASSUME NEW d \in Deletes, RemoveDirectory(d), ~Removable(d) PROVE IInv'
  <2>1. PICK place \in {"vanished", "failed"} : pc' = [pc EXCEPT ![d] = place]
    BY <1>13 DEF RemoveDirectory
  <2>2. UNCHANGED <<at, source, entries, temp, tree, left, inner>>
    BY <1>13 DEF RemoveDirectory
  <2>3. tree' = [tree EXCEPT ![d] = tree[d]] /\ place \in DeletePlaces
    BY <1>0, <2>2 DEF TypeOK, DeletePlaces
  <2>4. QED
    BY <1>0, <2>1, <2>2, <2>3, DeleteStep DEF TypeOK, Opened
<1>14. ASSUME NEW i \in Inner,
              EnsureFileAbsent(i) \/ DescribeFile(i) \/ FaultInside(i)
       PROVE  IInv'
  <2>1. PICK place \in InnerPlaces :
          /\ pc' = [pc EXCEPT ![i] = place]
          /\ place \in Unlinked => pc[i] \in Unlinked
          /\ place \in Linked => pc[i] \in Linked
          /\ pc[i] \in Staged => place \in Staged
    BY <1>14 DEF EnsureFileAbsent, DescribeFile, FaultInside, InnerPlaces,
       Staged, Unlinked, Linked
  <2>2. UNCHANGED <<at, source, entries, temp, tree, left, inner>>
    BY <1>14 DEF EnsureFileAbsent, DescribeFile, FaultInside
  <2>3. \A t \in Trees : i \in entries'[t] => place \in Staged
    BY <2>1, <2>2 DEF IInv, TempsStaged
  <2>4. entries' \in [Trees -> SUBSET Names]
    BY <1>0, <2>2 DEF TypeOK
  <2>5. /\ place \in Unlinked => linked[i] = NoTree
        /\ place \in Linked => linked[i] # NoTree
    BY <2>1 DEF IInv, LinksOnce
  <2>6. QED
    BY <2>1, <2>2, <2>3, <2>4, <2>5, InnerStep
<1>15. ASSUME NEW i \in Inner, MakeParent(i) PROVE IInv'
  <2>1. /\ pc[i] = "absent" /\ pc' = [pc EXCEPT ![i] = "parented"]
        /\ at' = IF Free THEN i ELSE at
        /\ UNCHANGED <<source, entries, temp, tree, left, file, linked>>
    BY <1>15 DEF MakeParent, inner
  <2>2. /\ pc'[i] = "parented" /\ "parented" \in InnerPlaces
        /\ \A e \in (Trees \cup Deletes) \ {i} : pc'[e] = pc[e]
        /\ \A t \in Trees : (Opened(t)' <=> Opened(t)) /\ (Public(t)' <=> Public(t))
    BY <1>0, <2>1 DEF TypeOK, Trees, Opened, Public, InnerPlaces
  <2>3. TypeOK' /\ NoInnerSource'
    <3>1. /\ pc' \in [Trees \cup Deletes ->
                      Private \cup Placed \cup InnerPlaces \cup DeletePlaces]
          /\ \A e \in Puts : pc'[e] \in Private \cup Placed
          /\ \A j \in Inner : pc'[j] \in InnerPlaces
          /\ \A e \in Deletes : pc'[e] \in DeletePlaces
          /\ \A e \in Puts : pc'[e] \in Private => entries'[e] \subseteq source'[e]
      BY <1>0, <2>1, <2>2 DEF TypeOK, Trees
    <3>2. QED
      BY <1>0, <2>1, <3>1 DEF TypeOK, IInv, NoInnerSource, Trees
  <2>4. AtPublic'
    BY <1>0, <2>1, <2>2 DEF IInv, TypeOK, AtPublic, Public, Free
  <2>5. OpenedPublic' /\ DeletesInOrder'
    BY <1>0, <2>1, <2>2 DEF IInv, TypeOK, OpenedPublic, DeletesInOrder, Trees
  <2>6. OnlyThereFilled'
    BY <1>0, <2>1, <2>2 DEF IInv, TypeOK, OnlyThereFilled, Free
  <2>7. WholeSinceCopy' /\ ExtraLinked' /\ TempsStaged' /\ LinksOnce'
    BY <2>1, <2>2
    DEF IInv, WholeSinceCopy, ExtraLinked, TempsStaged, LinksOnce, Trees, Staged,
        Unlinked, Linked
  <2>8. OnlyDeletesUnpublish' /\ InnerFilesStay'
    BY <1>0, <2>1, <2>2
    DEF IInv, TypeOK, OnlyDeletesUnpublish, InnerFilesStay, Free, Trees
  <2>9. QED
    BY <2>3, <2>4, <2>5, <2>6, <2>7, <2>8 DEF IInv
<1>16. ASSUME NEW i \in Inner, MkstempInside(i) PROVE IInv'
  <2>1. CASE Free
    <3>1. /\ pc[i] = "parented" /\ pc' = [pc EXCEPT ![i] = "failed"]
          /\ "failed" \in InnerPlaces \ (Unlinked \cup Linked)
          /\ UNCHANGED <<at, source, entries, temp, tree, left, inner>>
      BY <1>16, <2>1 DEF MkstempInside, InnerPlaces, Unlinked, Linked
    <3>2. \A t \in Trees : i \notin entries'[t]
      BY <3>1 DEF IInv, TempsStaged, Staged
    <3>3. entries' \in [Trees -> SUBSET Names]
      BY <1>0, <3>1 DEF TypeOK
    <3>4. QED
      BY <3>1, <3>2, <3>3, InnerStep
  <2>2. CASE ~Free
    <3>1. /\ pc[i] = "parented" /\ pc' = [pc EXCEPT ![i] = "staged"]
          /\ "staged" \in InnerPlaces /\ "staged" \in Staged
          /\ entries' = [entries EXCEPT ![at] = @ \cup {i}]
          /\ UNCHANGED <<at, source, temp, tree, left, inner>>
      BY <1>16, <2>2 DEF MkstempInside, InnerPlaces, Staged
    <3>2. /\ at \in Trees
          /\ entries' \in [Trees -> SUBSET Names]
          /\ \A t \in Trees : t # at => entries'[t] = entries[t]
          /\ \A t \in Trees : /\ entries[t] \ {i} \subseteq entries'[t]
                              /\ entries'[t] \subseteq entries[t] \cup {i}
      BY <1>0, <2>2, <3>1 DEF TypeOK, Free, Names
    <3>3. linked[i] = NoTree /\ "staged" \notin Linked
      BY <3>1 DEF IInv, LinksOnce, Unlinked, Linked
    <3>4. QED
      BY <3>1, <3>2, <3>3, InnerStep
  <2>3. QED
    BY <2>1, <2>2
<1>17. ASSUME NEW i \in Inner, LinkInside(i), CanLinkInside(i) PROVE IInv'
  <2>1. /\ pc[i] = "staged" /\ pc' = [pc EXCEPT ![i] = "linked"]
        /\ entries' = [entries EXCEPT ![at] = @ \cup {file[i]}]
        /\ linked' = [linked EXCEPT ![i] = at]
        /\ UNCHANGED <<at, source, temp, tree, left, file>>
        /\ ~Free /\ file[i] \notin entries[at]
    BY <1>17 DEF LinkInside, CanLinkInside, Has
  <2>2. /\ at \in Trees /\ at # NoTree /\ Public(at)
        /\ file[i] \in Files /\ linked[i] = NoTree
    BY <1>0, <2>1 DEF TypeOK, Free, IInv, AtPublic, LinksOnce, Unlinked
  <2>3. /\ pc'[i] = "linked" /\ "linked" \in InnerPlaces
        /\ \A e \in (Trees \cup Deletes) \ {i} : pc'[e] = pc[e]
        /\ \A t \in Trees : (Opened(t)' <=> Opened(t)) /\ (Public(t)' <=> Public(t))
    BY <1>0, <2>1 DEF TypeOK, Trees, Opened, Public, InnerPlaces
  <2>4. /\ entries'[at] = entries[at] \cup {file[i]}
        /\ \A t \in Trees : t # at => entries'[t] = entries[t]
        /\ linked'[i] = at
        /\ \A j \in Inner : j # i => linked'[j] = linked[j]
    BY <1>0, <2>1, <2>2 DEF TypeOK
  <2>5. TypeOK' /\ NoInnerSource'
    <3>1. /\ pc' \in [Trees \cup Deletes ->
                      Private \cup Placed \cup InnerPlaces \cup DeletePlaces]
          /\ \A e \in Puts : pc'[e] \in Private \cup Placed
          /\ \A j \in Inner : pc'[j] \in InnerPlaces
          /\ \A e \in Deletes : pc'[e] \in DeletePlaces
      BY <1>0, <2>1, <2>3 DEF TypeOK, Trees
    <3>2. \A e \in Puts : pc'[e] \in Private => entries'[e] \subseteq source'[e]
      BY <1>0, <2>1, <2>2, <2>3, <2>4 DEF TypeOK, Public, Private, Placed, Trees
    <3>3. /\ entries' \in [Trees -> SUBSET Names]
          /\ linked' \in [Inner -> Trees \cup {NoTree}]
      BY <1>0, <2>1, <2>2 DEF TypeOK, Names
    <3>4. QED
      BY <1>0, <2>1, <3>1, <3>2, <3>3 DEF TypeOK, IInv, NoInnerSource
  <2>6. AtPublic' /\ OpenedPublic' /\ OnlyThereFilled' /\ DeletesInOrder'
    BY <1>0, <2>1, <2>2, <2>3, <2>4
    DEF IInv, TypeOK, AtPublic, OpenedPublic, OnlyThereFilled, DeletesInOrder,
        Free, Trees
  <2>7. WholeSinceCopy' /\ OnlyDeletesUnpublish'
    BY <1>0, <2>1, <2>3, <2>4
    DEF IInv, WholeSinceCopy, OnlyDeletesUnpublish, Trees
  <2>8. ExtraLinked'
    BY <1>0, <2>1, <2>2, <2>4 DEF IInv, ExtraLinked, TypeOK
  <2>9. TempsStaged' /\ LinksOnce'
    BY <1>0, <2>1, <2>2, <2>3, <2>4
    DEF IInv, TempsStaged, LinksOnce, Staged, Trees, Unlinked, Linked
  <2>10. ~Opened(at) => file[i] \notin source[at]
    <3>1. at \in Inner \/ ~Opened(at) => source[at] \subseteq entries[at]
      BY <2>2 DEF IInv, NoInnerSource, WholeSinceCopy, Public, Copied, Trees
    <3>2. QED
      BY <2>1, <3>1
  <2>11. InnerFilesStay'
    BY <1>0, <2>1, <2>2, <2>3, <2>4, <2>10 DEF IInv, TypeOK, InnerFilesStay
  <2>12. QED
    BY <2>5, <2>6, <2>7, <2>8, <2>9, <2>11 DEF IInv
<1>18. ASSUME NEW i \in Inner, LinkInside(i), ~CanLinkInside(i) PROVE IInv'
  <2>1. PICK place \in {"refused", "aborting"} :
          /\ pc' = [pc EXCEPT ![i] = place]
          /\ place \in InnerPlaces /\ place \in Staged \ Linked
    BY <1>18 DEF LinkInside, InnerPlaces, Staged, Linked
  <2>2. UNCHANGED <<at, source, entries, temp, tree, left, inner>>
    BY <1>18 DEF LinkInside, inner
  <2>3. entries' \in [Trees -> SUBSET Names]
    BY <1>0, <2>2 DEF TypeOK
  <2>4. linked[i] = NoTree
    BY <1>18 DEF LinkInside, IInv, LinksOnce, Unlinked
  <2>5. QED
    BY <2>1, <2>2, <2>3, <2>4, InnerStep
<1>19. ASSUME NEW i \in Inner, UnlinkTemporary(i) \/ DiscardTemporary(i)
       PROVE  IInv'
  <2>1. PICK place \in InnerPlaces :
          /\ pc' = [pc EXCEPT ![i] = place]
          /\ place \in Unlinked => pc[i] \in Unlinked
          /\ place \in Linked => pc[i] \in Linked
          /\ entries' = Without(i) \/ (entries' = entries /\ place \in Staged)
    BY <1>19 DEF UnlinkTemporary, DiscardTemporary, InnerPlaces, Staged,
       Unlinked, Linked
  <2>2. UNCHANGED <<at, source, temp, tree, left, inner>>
    BY <1>19 DEF UnlinkTemporary, DiscardTemporary
  <2>3. /\ place \in Unlinked => linked[i] = NoTree
        /\ place \in Linked => linked[i] # NoTree
    BY <2>1 DEF IInv, LinksOnce
  <2>4. CASE entries' = entries /\ place \in Staged
    <3>1. entries' \in [Trees -> SUBSET Names]
      BY <1>0, <2>4 DEF TypeOK
    <3>2. QED
      BY <2>1, <2>2, <2>3, <2>4, <3>1, InnerStep
  <2>5. CASE entries' = Without(i)
    <3>1. /\ entries' \in [Trees -> SUBSET Names]
          /\ \A t \in Trees : t # at => entries'[t] = entries[t]
          /\ \A t \in Trees : /\ entries[t] \ {i} \subseteq entries'[t]
                              /\ entries'[t] \subseteq entries[t] \cup {i}
      BY <1>0, <2>5 DEF Without, Has, Free, TypeOK
    <3>2. \A t \in Trees : i \notin entries'[t]
      <4>1. \A t \in Trees : i \in entries[t] => Public(t)
        BY <1>0 DEF TypeOK, Public, Trees
      <4>2. \A t \in Trees : i \in entries[t] => at = t
        BY <4>1 DEF IInv, OnlyThereFilled
      <4>3. QED
        BY <1>0, <2>5, <4>2 DEF Without, Has, Free, TypeOK
    <3>3. QED
      BY <2>1, <2>2, <2>3, <3>1, <3>2, InnerStep
  <2>6. QED
    BY <2>1, <2>4, <2>5
<1>20. CASE UNCHANGED vars
  BY <1>20 DEF vars, IInv, TypeOK, NoInnerSource, AtPublic, OpenedPublic,
     OnlyThereFilled, Public, DeletesInOrder, WholeSinceCopy,
     OnlyDeletesUnpublish, ExtraLinked, TempsStaged, LinksOnce, InnerFilesStay,
     Free, Opened
<1>21. QED
  BY <1>1, <1>2, <1>3, <1>4, <1>5, <1>6, <1>7, <1>8, <1>9, <1>10, <1>11,
     <1>12, <1>13, <1>14, <1>15, <1>16, <1>17, <1>18, <1>19, <1>20
  DEF Next, PutDirectory, PutInside, DeleteTree

LEMMA Invariance == Spec => []IInv
  BY InitIInv, NextIInv, PTL DEF Spec

-----------------------------------------------------------------------------
(* Every step keeps the variables in their types; a tree never gets a file *)
(* its source has not.                                                     *)
THEOREM TypeCorrect == Spec => []TypeOK
<1>1. IInv => TypeOK
  BY DEF IInv
<1>2. QED
  BY <1>1, Invariance, PTL

(* The tree under the key is whole unless a delete has opened it, and has  *)
(* beside its source only what inner puts put there.                       *)
THEOREM TreesAreWhole == Spec => []TreesWhole
<1>1. IInv => TreesWhole
  <2> SUFFICES ASSUME IInv, ~Free PROVE TreesWhole
    BY DEF TreesWhole
  <2>1. at \in Trees /\ Public(at)
    BY DEF IInv, TypeOK, AtPublic, Free
  <2>2. ~Opened(at) => source[at] \subseteq entries[at]
    BY <2>1 DEF IInv, NoInnerSource, WholeSinceCopy, Public, Copied, Trees
  <2>3. QED
    BY <2>1, <2>2 DEF TreesWhole, IInv, ExtraLinked
<1>2. QED
  BY <1>1, Invariance, PTL

(* A published tree with files leaves the key only through a delete that   *)
(* opened it: the rename cannot replace it, and the rmdir of another       *)
(* delete cannot remove it.                                                *)
THEOREM DeletesUnpublish == Spec => []OnlyDeletesUnpublish
<1>1. IInv => OnlyDeletesUnpublish
  BY DEF IInv
<1>2. QED
  BY <1>1, Invariance, PTL

(* What an inner put linked stays under the key until a delete opens the   *)
(* tree, and was no file of the tree's source.                             *)
THEOREM InnerFilesAreKept == Spec => []InnerFilesStay
<1>1. IInv => InnerFilesStay
  BY DEF IInv
<1>2. QED
  BY <1>1, Invariance, PTL

(* No inner put that has ended leaves its temporary file in any tree.      *)
THEOREM InnerPutsCleanUp == Spec => []NothingLeftInside
<1>1. IInv => NothingLeftInside
  BY DEF IInv, TempsStaged, Staged, NothingLeftInside
<1>2. QED
  BY <1>1, Invariance, PTL

(* No step replaces or removes a tree with files in it. *)
THEOREM FilledTreesStay == Spec => FilledTreeStays
<1> DEFINE Stays == ~Free /\ entries[at] # {} => at' = at
<1>1. [Next]_vars => Stays
  <2> SUFFICES ASSUME [Next]_vars PROVE Stays
    OBVIOUS
  <2>1. ASSUME NEW c \in Puts, Replace(c) PROVE Stays
    BY <2>1 DEF Replace, CanReplace
  <2>2. ASSUME NEW d \in Deletes, RemoveDirectory(d) PROVE Stays
    BY <2>2 DEF RemoveDirectory, Removable
  <2>3. ASSUME NEW i \in Inner, MakeParent(i) PROVE Stays
    BY <2>3 DEF MakeParent
  <2>4. \/ UNCHANGED at
        \/ \E c \in Puts : Replace(c)
        \/ \E i \in Inner : MakeParent(i)
        \/ \E d \in Deletes : RemoveDirectory(d)
    BY DEF Next, PutDirectory, DeleteTree, EnsureAbsent, Mkdtemp,
       RemoveReserved, MakeTree, CopyFile, FinishCopy, EnsureStillAbsent,
       Describe, Fault, Discard, ExistingPath, OpenTree, UnlinkEntry,
       DeleteFault, PutInside, EnsureFileAbsent, MkstempInside, LinkInside,
       UnlinkTemporary, DescribeFile, FaultInside, DiscardTemporary, vars
  <2>5. QED
    BY <2>1, <2>2, <2>3, <2>4
<1>2. QED
  BY <1>1, PTL DEF Spec, FilledTreeStays

-----------------------------------------------------------------------------
(* Each step does what TreePromise says: first what a caller can know of a *)
(* call, place by place.                                                   *)
LEMMA StatusTable ==
  /\ StatusAt["idle"] = "pending"
  /\ StatusAt["absent"] = "pending"
  /\ StatusAt["made"] = "pending"
  /\ StatusAt["bare"] = "pending"
  /\ StatusAt["copying"] = "pending"
  /\ StatusAt["copied"] = "pending"
  /\ StatusAt["checked"] = "pending"
  /\ StatusAt["aborting"] = "pending"
  /\ StatusAt["found"] = "pending"
  /\ StatusAt["parented"] = "pending"
  /\ StatusAt["staged"] = "pending"
  /\ StatusAt["exists"] = "exists"
  /\ StatusAt["failed"] = "failed"
  /\ StatusAt["created"] = "created"
  /\ StatusAt["unreported"] = "unreported"
  /\ StatusAt["missing"] = "missing"
  /\ StatusAt["vanished"] = "vanished"
  /\ StatusAt["deleted"] = "deleted"
  /\ StatusAt["placed"] = "published"
  /\ StatusAt["refused"] = "beaten"
  /\ StatusAt["emptying"] = "opened"
  /\ StatusAt["stuck"] = "failed"
<1>1. AllPlaces = {"idle", "absent", "made", "bare", "copying", "copied",
                   "checked", "refused", "aborting", "exists", "failed",
                   "placed", "created", "unreported", "parented", "staged",
                   "linked", "unlinked", "stuck", "found", "emptying",
                   "deleted", "missing", "vanished"}
  BY DEF AllPlaces, Private, Placed, InnerPlaces, DeletePlaces
<1>2. ASSUME NEW p \in {"idle", "absent", "made", "bare", "copying", "copied",
                        "checked", "aborting", "found", "parented", "staged"}
      PROVE  StatusAt[p] = "pending"
  BY <1>1, <1>2, Zenon DEF StatusAt, Answers
<1>3. ASSUME NEW p \in {"exists", "failed", "created", "unreported", "missing",
                        "vanished", "deleted"}
      PROVE  StatusAt[p] = p
  BY <1>1, <1>3, Zenon DEF StatusAt, Answers
<1>4. StatusAt["placed"] = "published"
  BY <1>1, Zenon DEF StatusAt, Answers
<1>5. StatusAt["refused"] = "beaten"
  BY <1>1, Zenon DEF StatusAt, Answers
<1>6. StatusAt["emptying"] = "opened"
  BY <1>1, Zenon DEF StatusAt, Answers
<1>7. StatusAt["stuck"] = "failed"
  BY <1>1, Zenon DEF StatusAt, Answers
<1>8. QED
  BY <1>2, <1>3, <1>4, <1>5, <1>6, <1>7

LEMMA LinkedStatusTable ==
  /\ LinkedStatusAt["linked"] = "published"
  /\ LinkedStatusAt["unlinked"] = "published"
  /\ LinkedStatusAt["aborting"] = "published"
  /\ LinkedStatusAt["created"] = "created"
  /\ LinkedStatusAt["unreported"] = "unreported"
  /\ LinkedStatusAt["failed"] = "unreported"
  /\ LinkedStatusAt["stuck"] = "unreported"
<1>1. {"linked", "unlinked", "aborting", "created", "unreported", "failed",
       "stuck"} \subseteq AllPlaces
  BY DEF AllPlaces, InnerPlaces
<1>2. QED
  BY <1>1, Zenon DEF LinkedStatusAt

LEMMA OwnStatus ==
  ASSUME NEW c \in Trees \cup Deletes, c \in Inner => linked[c] = NoTree
  PROVE  CallStatus(c) = StatusAt[pc[c]]
  BY DEF CallStatus

LEMMA LinkedStatus ==
  ASSUME NEW i \in Inner, linked[i] # NoTree
  PROVE  CallStatus(i) = LinkedStatusAt[pc[i]]
  BY DEF CallStatus

(* A step of c moves c from one status to another and nobody else. *)
LEMMA StatusMove ==
  ASSUME TypeOK, NEW c \in Trees \cup Deletes, NEW place,
         pc' = [pc EXCEPT ![c] = place],
         \A i \in Inner \ {c} : linked'[i] = linked[i],
         UNCHANGED <<source, file>>,
         NEW to, CallStatus(c)' \in to
  PROVE  Promise!Step(c, CallStatus(c), to)
<1>1. \A e \in Trees \cup Deletes : e # c => CallStatus(e)' = CallStatus(e)
  BY DEF TypeOK, CallStatus
<1>2. Statuses' = [e \in Trees \cup Deletes |-> CallStatus(e)']
  BY DEF Statuses
<1>3. Statuses' = [Statuses EXCEPT ![c] = CallStatus(c)']
  BY <1>1, <1>2 DEF Statuses
<1>4. Statuses[c] = CallStatus(c) /\ Statuses'[c] = CallStatus(c)'
  BY <1>2 DEF Statuses
<1>5. QED
  BY <1>3, <1>4 DEF Promise!Step

(* A step that no caller can notice. *)
LEMMA Unnoticed ==
  ASSUME TypeOK, NEW c \in Trees \cup Deletes, NEW place,
         pc' = [pc EXCEPT ![c] = place],
         CallStatus(c)' = CallStatus(c),
         UNCHANGED <<at, source, tree, file, linked, Visible, Found>>
  PROVE  UNCHANGED Promise!vars
<1>1. \A e \in Trees \cup Deletes : CallStatus(e)' = CallStatus(e)
  BY DEF TypeOK, CallStatus
<1>2. Statuses' = Statuses
  BY <1>1 DEF Statuses
<1>3. QED
  BY <1>2 DEF Promise!vars

(* Files show only in the tree under the key. *)
LEMMA VisibleStays ==
  ASSUME UNCHANGED at, ~Free => FilesIn(entries'[at]) = FilesIn(entries[at])
  PROVE  UNCHANGED Visible
  BY DEF Visible, Free, FilesIn

-----------------------------------------------------------------------------
LEMMA PutKeepsPromise ==
  ASSUME IInv, NEW c \in Puts, PutDirectory(c)
  PROVE  [Promise!Next]_Promise!vars
<1>0. TypeOK
  BY DEF IInv
<1>1. /\ c \in Trees \cup Deletes /\ c \notin Inner
      /\ CallStatus(c) = StatusAt[pc[c]]
      /\ CallStatus(c)' = StatusAt[pc'[c]]
  BY CallsAssumption, OwnStatus DEF CallStatus, Trees
<1>2. \A p : pc' = [pc EXCEPT ![c] = p] => pc'[c] = p
  BY <1>0, <1>1 DEF TypeOK
<1>3. pc[c] \in Private => c # at
  BY PrivateHidden
<1>4. SUFFICES UNCHANGED Promise!vars \/ Promise!PutStep(c)
  BY DEF Promise!Next
<1>5. CASE EnsureAbsent(c) \/ EnsureStillAbsent(c)
  <2>1. /\ pc[c] \in {"idle", "copied"}
        /\ UNCHANGED <<at, source, entries, tree, left, file, linked>>
    BY <1>5 DEF EnsureAbsent, EnsureStillAbsent, inner
  <2>2. UNCHANGED <<Visible, Found>>
    BY <2>1 DEF Visible, Found, Free, FilesIn
  <2>3. CASE Free
    <3>1. PICK p \in {"absent", "checked"} : pc' = [pc EXCEPT ![c] = p]
      BY <1>5, <2>3 DEF EnsureAbsent, EnsureStillAbsent, Goto
    <3>2. CallStatus(c)' = CallStatus(c)
      BY <1>1, <1>2, <2>1, <3>1, StatusTable
    <3>3. QED
      BY <1>0, <1>1, <2>1, <2>2, <3>1, <3>2, Unnoticed
  <2>4. CASE ~Free
    <3>1. PICK p \in {"exists", "refused"} : pc' = [pc EXCEPT ![c] = p]
      BY <1>5, <2>4 DEF EnsureAbsent, EnsureStillAbsent, Goto
    <3>2. /\ CallStatus(c) = "pending"
          /\ CallStatus(c)' \in {"beaten", "exists"}
      <4>1. pc'[c] = p
        BY <1>2, <3>1
      <4>2. QED
        BY <1>1, <2>1, <4>1, StatusTable
    <3>3. Promise!Step(c, "pending", {"beaten", "exists"})
      BY <1>0, <1>1, <2>1, <3>1, <3>2, StatusMove
    <3>4. Promise!Refuse(c, Promise!Exists)
      BY <2>1, <2>2, <2>4, <3>3
      DEF Promise!Refuse, Promise!Exists, Promise!directory, Promise!deletion,
          Free
    <3>5. QED
      BY <3>4 DEF Promise!PutStep
  <2>5. QED
    BY <2>3, <2>4
<1>6. CASE Mkdtemp(c) \/ RemoveReserved(c) \/ MakeTree(c) \/ FinishCopy(c)
  <2>1. /\ pc[c] \in {"absent", "made", "bare", "copying"}
        /\ UNCHANGED <<at, source, entries, tree, left, file, linked>>
    BY <1>6 DEF Mkdtemp, RemoveReserved, MakeTree, FinishCopy, inner
  <2>2. PICK p \in {"made", "bare", "copying", "copied"} :
           pc' = [pc EXCEPT ![c] = p]
    BY <1>6 DEF Mkdtemp, RemoveReserved, MakeTree, FinishCopy, Goto
  <2>3. UNCHANGED <<Visible, Found>>
    BY <2>1 DEF Visible, Found, Free, FilesIn
  <2>4. CallStatus(c)' = CallStatus(c)
    BY <1>1, <1>2, <2>1, <2>2, StatusTable
  <2>5. QED
    BY <1>0, <1>1, <2>1, <2>2, <2>3, <2>4, Unnoticed
<1>7. CASE CopyFile(c)
  <2>1. /\ pc[c] = "copying" /\ pc' = pc
        /\ UNCHANGED <<at, source, tree, left, file, linked>>
        /\ \A t \in Trees : t # c => entries'[t] = entries[t]
    BY <1>0, <1>7 DEF CopyFile, inner, TypeOK
  <2>2. ~Free => entries'[at] = entries[at]
    BY <1>0, <1>3, <2>1 DEF TypeOK, Free, Private
  <2>3. UNCHANGED <<Visible, Found>>
    BY <2>1, <2>2, VisibleStays DEF Found, FilesIn
  <2>4. pc' = [pc EXCEPT ![c] = pc[c]] /\ CallStatus(c)' = CallStatus(c)
    BY <1>0, <1>1, <2>1 DEF TypeOK
  <2>5. QED
    BY <1>0, <1>1, <2>1, <2>3, <2>4, Unnoticed
<1>8. CASE Replace(c)
  <2>1. /\ pc[c] = "checked" /\ CallStatus(c) = "pending"
        /\ UNCHANGED <<source, entries, tree, left, file, linked>>
    BY <1>1, <1>8, StatusTable DEF Replace, inner
  <2>2. CASE CanReplace(c) /\ at' = c /\ pc' = [pc EXCEPT ![c] = "placed"]
    <3>1. Visible = {}
      BY <2>2 DEF CanReplace, Visible, FilesIn
    <3>2. entries[c] = source[c]
      <4>1. \A d \in Deletes : tree[d] # c
        BY <2>1, PrivateHidden DEF Private
      <4>2. source[c] \subseteq entries[c] /\ entries[c] \subseteq source[c]
        BY <1>0, <2>1, <4>1
        DEF IInv, WholeSinceCopy, Opened, Copied, TypeOK, Private
      <4>3. QED
        BY <4>2
    <3>3. Visible' = source[c]
      <4>1. c # NoTree /\ source[c] \subseteq Files
        BY <1>0, CallsAssumption DEF TypeOK, Trees
      <4>2. QED
        BY <2>1, <2>2, <3>2, <4>1 DEF Visible, Free, FilesIn
    <3>4. CallStatus(c)' = "published"
      BY <1>1, <1>2, <2>2, StatusTable
    <3>5. Promise!Step(c, "pending", {"published"})
      BY <1>0, <1>1, <2>1, <2>2, <3>4, StatusMove
    <3>6. Promise!Publish(c)
      BY <2>1, <2>2, <3>1, <3>3, <3>5
      DEF Promise!Publish, Promise!deletion, Found, FilesIn
    <3>7. QED
      BY <3>6 DEF Promise!PutStep
  <2>3. CASE UNCHANGED at /\ pc' = [pc EXCEPT ![c] = "aborting"]
    <3>1. UNCHANGED <<Visible, Found>>
      BY <2>1, <2>3 DEF Visible, Found, Free, FilesIn
    <3>2. CallStatus(c)' = CallStatus(c)
      BY <1>1, <1>2, <2>1, <2>3, StatusTable
    <3>3. QED
      BY <1>0, <1>1, <2>1, <2>3, <3>1, <3>2, Unnoticed
  <2>4. QED
    BY <1>8, <2>2, <2>3 DEF Replace, Goto
<1>9. CASE Describe(c)
  <2>1. /\ pc[c] = "placed" /\ CallStatus(c) = "published"
        /\ UNCHANGED <<at, source, entries, tree, left, file, linked>>
    BY <1>1, <1>9, StatusTable DEF Describe, inner
  <2>2. PICK p \in Promise!Reports(Promise!Exists) : pc' = [pc EXCEPT ![c] = p]
    BY <1>9 DEF Describe, Goto, Promise!Exists, Promise!Reports
  <2>3. CallStatus(c)' = p
    <3>1. p \in {"created", "unreported"} /\ pc'[c] = p
      BY <1>2, <2>2 DEF Promise!Reports
    <3>2. QED
      BY <1>1, <3>1, StatusTable
  <2>4. Promise!Step(c, "published", Promise!Reports(Promise!Exists))
    BY <1>0, <1>1, <2>1, <2>2, <2>3, StatusMove
  <2>5. Promise!Confirm(c, Promise!Exists)
    BY <2>1, <2>4 DEF Promise!Confirm, Promise!directory, Promise!deletion,
       Visible, Found, Free, FilesIn
  <2>6. QED
    BY <2>5 DEF Promise!PutStep
<1>10. CASE Fault(c)
  <2>1. /\ CallStatus(c) = "pending"
        /\ UNCHANGED <<at, source, entries, tree, left, file, linked>>
    BY <1>1, <1>10, StatusTable DEF Fault, inner
  <2>2. UNCHANGED <<Visible, Found>>
    BY <2>1 DEF Visible, Found, Free, FilesIn
  <2>3. PICK p \in {"failed", "aborting"} : pc' = [pc EXCEPT ![c] = p]
    BY <1>10 DEF Fault, Goto
  <2>4. CASE p = "aborting"
    <3>1. CallStatus(c)' = CallStatus(c)
      BY <1>1, <1>2, <2>1, <2>3, <2>4, StatusTable
    <3>2. QED
      BY <1>0, <1>1, <2>1, <2>2, <2>3, <3>1, Unnoticed
  <2>5. CASE p = "failed"
    <3>1. CallStatus(c)' = "failed"
      BY <1>1, <1>2, <2>3, <2>5, StatusTable
    <3>2. Promise!Step(c, "pending", {"failed"})
      BY <1>0, <1>1, <2>1, <2>3, <3>1, StatusMove
    <3>3. Promise!Abandon(c)
      BY <2>1, <2>2, <3>2
      DEF Promise!Abandon, Promise!directory, Promise!deletion
    <3>4. QED
      BY <3>3 DEF Promise!PutStep
  <2>6. QED
    BY <2>3, <2>4, <2>5
<1>11. CASE Discard(c)
  <2>1. /\ pc[c] \in {"refused", "aborting"}
        /\ pc' = [pc EXCEPT ![c] = IF pc[c] = "refused" THEN "exists" ELSE "failed"]
        /\ UNCHANGED <<at, source, tree, left, file, linked>>
        /\ \A t \in Trees : t # c => entries'[t] = entries[t]
    BY <1>0, <1>11 DEF Discard, Goto, inner, TypeOK
  <2>2. ~Free => entries'[at] = entries[at]
    BY <1>0, <1>3, <2>1 DEF TypeOK, Free, Private
  <2>3. UNCHANGED <<Visible, Found>>
    BY <2>1, <2>2, VisibleStays DEF Found, FilesIn
  <2>4. CASE pc[c] = "refused"
    <3>0. /\ pc' = [pc EXCEPT ![c] = "exists"] /\ pc'[c] = "exists"
          /\ UNCHANGED <<source, file, linked>>
      BY <1>2, <2>1, <2>4
    <3>1. CallStatus(c) = "beaten" /\ CallStatus(c)' \in {"exists", "failed"}
      BY <1>1, <2>4, <3>0, StatusTable
    <3>2. Promise!Step(c, "beaten", {"exists", "failed"})
      BY <1>0, <1>1, <3>0, <3>1, StatusMove
    <3>3. Promise!Confirm(c, Promise!Exists)
      BY <2>1, <2>3, <3>2
      DEF Promise!Confirm, Promise!directory, Promise!deletion
    <3>4. QED
      BY <3>3 DEF Promise!PutStep
  <2>5. CASE pc[c] = "aborting"
    <3>0. /\ pc' = [pc EXCEPT ![c] = "failed"] /\ pc'[c] = "failed"
          /\ UNCHANGED <<source, file, linked>>
      BY <1>2, <2>1, <2>5
    <3>1. CallStatus(c) = "pending" /\ CallStatus(c)' = "failed"
      BY <1>1, <2>5, <3>0, StatusTable
    <3>2. Promise!Step(c, "pending", {"failed"})
      BY <1>0, <1>1, <3>0, <3>1, StatusMove
    <3>3. Promise!Abandon(c)
      BY <2>1, <2>3, <3>2
      DEF Promise!Abandon, Promise!directory, Promise!deletion
    <3>4. QED
      BY <3>3 DEF Promise!PutStep
  <2>6. QED
    BY <2>1, <2>4, <2>5
<1>12. QED
  BY <1>5, <1>6, <1>7, <1>8, <1>9, <1>10, <1>11 DEF PutDirectory

LEMMA DeleteKeepsPromise ==
  ASSUME IInv, NEW d \in Deletes, DeleteTree(d)
  PROVE  [Promise!Next]_Promise!vars
<1>0. TypeOK
  BY DEF IInv
<1>1. /\ d \in Trees \cup Deletes /\ d \notin Inner
      /\ CallStatus(d) = StatusAt[pc[d]]
      /\ CallStatus(d)' = StatusAt[pc'[d]]
  BY CallsAssumption, OwnStatus DEF CallStatus, Trees
<1>2. \A p : pc' = [pc EXCEPT ![d] = p] => pc'[d] = p
  BY <1>0, <1>1 DEF TypeOK
<1>3. SUFFICES UNCHANGED Promise!vars \/ Promise!DeleteStep(d)
  BY DEF Promise!Next
<1>4. ASSUME CallStatus(d) \in {"pending", "opened"},
             pc' = [pc EXCEPT ![d] = "failed"],
             UNCHANGED <<at, source, entries, tree, left, file, linked>>
      PROVE  Promise!DeleteStep(d)
  <2>1. CallStatus(d)' = "failed"
    BY <1>1, <1>2, <1>4, StatusTable
  <2>2. \/ Promise!Step(d, "pending", {"failed"})
        \/ Promise!Step(d, "opened", {"failed"})
    BY <1>0, <1>1, <1>4, <2>1, StatusMove
  <2>3. Promise!Abandon(d)
    BY <1>4, <2>2
    DEF Promise!Abandon, Promise!directory, Promise!deletion, Visible, Found,
        Free, FilesIn
  <2>4. QED
    BY <2>3 DEF Promise!DeleteStep
<1>5. ASSUME CallStatus(d) \in {"pending", "opened"}, Free,
             NEW p \in {"missing", "vanished"}, pc' = [pc EXCEPT ![d] = p],
             p = "missing" => CallStatus(d) = "pending",
             UNCHANGED <<at, source, entries, tree, left, file, linked>>
      PROVE  Promise!DeleteStep(d)
  <2>1. CallStatus(d)' = p
    <3>1. pc'[d] = p
      BY <1>2, <1>5
    <3>2. QED
      BY <1>1, <3>1, StatusTable
  <2>2. \/ Promise!Step(d, "pending", {"missing", "vanished"})
        \/ Promise!Step(d, "opened", {"vanished"})
    <3>1. CASE CallStatus(d) = "pending"
      BY <1>0, <1>1, <1>5, <2>1, <3>1, StatusMove
    <3>2. CASE CallStatus(d) = "opened"
      <4>1. CallStatus(d)' \in {"vanished"}
        BY <1>5, <2>1, <3>2
      <4>2. QED
        BY <1>0, <1>1, <1>5, <3>2, <4>1, StatusMove
    <3>3. QED
      BY <1>5, <3>1, <3>2
  <2>3. Promise!Miss(d)
    BY <1>5, <2>2
    DEF Promise!Miss, Promise!Exists, Promise!directory, Promise!deletion,
        Visible, Found, Free, FilesIn
  <2>4. QED
    BY <2>3 DEF Promise!DeleteStep
<1>6. CASE ExistingPath(d)
  <2>1. /\ pc[d] = "idle" /\ CallStatus(d) = "pending"
        /\ UNCHANGED <<at, source, entries, tree, left, file, linked>>
    BY <1>1, <1>6, StatusTable DEF ExistingPath, inner
  <2>2. CASE Free
    <3>1. pc' = [pc EXCEPT ![d] = "missing"]
      BY <1>6, <2>2 DEF ExistingPath, Goto
    <3>2. QED
      BY <1>5, <2>1, <2>2, <3>1
  <2>3. CASE ~Free
    <3>1. pc' = [pc EXCEPT ![d] = "found"]
      BY <1>6, <2>3 DEF ExistingPath, Goto
    <3>2. CallStatus(d)' = CallStatus(d)
      BY <1>1, <1>2, <2>1, <3>1, StatusTable
    <3>3. UNCHANGED <<Visible, Found>>
      BY <2>1 DEF Visible, Found, Free, FilesIn
    <3>4. QED
      BY <1>0, <1>1, <2>1, <3>1, <3>2, <3>3, Unnoticed
  <2>4. QED
    BY <2>2, <2>3
<1>7. CASE OpenTree(d)
  <2>1. /\ pc[d] = "found" /\ CallStatus(d) = "pending"
        /\ UNCHANGED <<at, source, entries, file, linked>>
    BY <1>1, <1>7, StatusTable DEF OpenTree, inner
  <2>2. CASE Free
    <3>1. pc' = [pc EXCEPT ![d] = "vanished"] /\ UNCHANGED <<tree, left>>
      BY <1>7, <2>2 DEF OpenTree, Goto
    <3>2. QED
      BY <1>5, <2>1, <2>2, <3>1
  <2>3. CASE ~Free
    <3>1. /\ pc' = [pc EXCEPT ![d] = "emptying"]
          /\ tree' = [tree EXCEPT ![d] = at]
          /\ left' = [left EXCEPT ![d] = entries[at]]
      BY <1>7, <2>3 DEF OpenTree, Goto
    <3>2. CallStatus(d)' = "opened"
      BY <1>1, <1>2, <3>1, StatusTable
    <3>3. Promise!Step(d, "pending", {"opened"})
      BY <1>0, <1>1, <2>1, <3>1, <3>2, StatusMove
    <3>4. Found' = [Found EXCEPT ![d] = Visible]
      BY <1>0, <2>3, <3>1 DEF Found, Visible, TypeOK
    <3>5. Promise!Find(d)
      BY <2>1, <2>3, <3>1, <3>3, <3>4
      DEF Promise!Find, Promise!Exists, Promise!directory, Visible, Free, FilesIn
    <3>6. QED
      BY <3>5 DEF Promise!DeleteStep
  <2>4. QED
    BY <2>2, <2>3
<1>8. CASE UnlinkEntry(d)
  <2>1. /\ pc[d] = "emptying" /\ CallStatus(d) = "opened"
        /\ UNCHANGED <<at, source, tree, file, linked>>
    BY <1>1, <1>8, StatusTable DEF UnlinkEntry, inner
  <2>2. CASE UNCHANGED <<entries, left>> /\ pc' = [pc EXCEPT ![d] = "failed"]
    BY <1>4, <2>1, <2>2
  <2>3. ASSUME NEW f \in left[d], UNCHANGED pc,
               entries' = [entries EXCEPT ![tree[d]] = @ \ {f}],
               left' = [left EXCEPT ![d] = @ \ {f}]
        PROVE  UNCHANGED Promise!vars \/ Promise!DeleteStep(d)
    <3>1. tree[d] \in Trees
      BY <1>0, <2>1 DEF IInv, DeletesInOrder, TypeOK
    <3>2. /\ pc' = [pc EXCEPT ![d] = pc[d]]
          /\ CallStatus(d)' = CallStatus(d)
      BY <1>0, <1>1, <2>3 DEF TypeOK
    <3>3. Visible' = IF tree[d] = at THEN Visible \ {f} ELSE Visible
      <4>1. at \in Trees \cup {NoTree} /\ NoTree \notin Trees
        BY <1>0, CallsAssumption DEF TypeOK
      <4>2. \A t \in Trees :
               entries'[t] = IF tree[d] = t THEN entries[t] \ {f} ELSE entries[t]
        BY <1>0, <2>3, <3>1 DEF TypeOK
      <4>3. QED
        BY <2>1, <3>1, <4>1, <4>2 DEF Visible, Free, FilesIn
    <3>4. Found' = [Found EXCEPT ![d] = @ \ {f}]
      BY <1>0, <2>3 DEF Found, FilesIn, TypeOK
    <3>5. CASE f \in Files
      <4>1. f \in Found[d]
        BY <2>3, <3>5 DEF Found, FilesIn
      <4>2. Promise!Step(d, "opened", {"opened"})
        BY <1>0, <1>1, <2>1, <3>2, StatusMove
      <4>3. Promise!Unlink(d)
        BY <2>1, <3>3, <3>4, <4>1, <4>2 DEF Promise!Unlink
      <4>4. QED
        BY <4>3 DEF Promise!DeleteStep
    <3>6. CASE f \notin Files
      <4>1. UNCHANGED <<Visible, Found>>
        <5>1. f \notin Visible /\ f \notin Found[d]
          BY <3>6 DEF Visible, Found, FilesIn
        <5>2. Found' = [Found EXCEPT ![d] = Found[d]]
          BY <3>4, <5>1
        <5>3. QED
          BY <3>3, <5>1, <5>2 DEF Found
      <4>2. QED
        BY <1>0, <1>1, <2>1, <3>2, <4>1, Unnoticed
    <3>7. QED
      BY <3>5, <3>6
  <2>4. QED
    BY <1>8, <2>2, <2>3 DEF UnlinkEntry, Goto
<1>9. CASE RemoveDirectory(d)
  <2>1. /\ pc[d] = "emptying" /\ CallStatus(d) = "opened" /\ left[d] = {}
        /\ UNCHANGED <<source, entries, tree, left, file, linked>>
    BY <1>1, <1>9, StatusTable DEF RemoveDirectory, inner
  <2>2. CASE Removable(d)
    <3>1. /\ pc' = [pc EXCEPT ![d] = "deleted"] /\ at' = NoTree
          /\ ~Free /\ entries[at] = {}
      BY <1>9, <2>2 DEF RemoveDirectory, Removable, Goto
    <3>2. CallStatus(d)' = "deleted"
      BY <1>1, <1>2, <3>1, StatusTable
    <3>3. Promise!Step(d, "opened", {"deleted"})
      BY <1>0, <1>1, <2>1, <3>1, <3>2, StatusMove
    <3>4. Visible = {} /\ Visible' = {} /\ Found[d] = {} /\ Found' = Found
      BY <2>1, <3>1 DEF Visible, Found, Free, FilesIn
    <3>5. Promise!RemoveDirectory(d)
      BY <2>1, <3>1, <3>3, <3>4
      DEF Promise!RemoveDirectory, Promise!Exists, Promise!deletion, Free
    <3>6. QED
      BY <3>5 DEF Promise!DeleteStep
  <2>3. CASE ~Removable(d)
    <3>1. /\ pc' = [pc EXCEPT ![d] = IF Free THEN "vanished" ELSE "failed"]
          /\ UNCHANGED at
      BY <1>9, <2>3 DEF RemoveDirectory, Goto
    <3>2. CASE Free
      BY <1>5, <2>1, <3>1, <3>2
    <3>3. CASE ~Free
      BY <1>4, <2>1, <3>1, <3>3
    <3>4. QED
      BY <3>2, <3>3
  <2>4. QED
    BY <2>2, <2>3
<1>10. CASE DeleteFault(d)
  <2>1. /\ pc' = [pc EXCEPT ![d] = "failed"]
        /\ UNCHANGED <<at, source, entries, tree, left, file, linked>>
        /\ pc[d] \in {"idle", "found", "emptying"}
    BY <1>10 DEF DeleteFault, Goto, inner
  <2>2. CallStatus(d) \in {"pending", "opened"}
    BY <1>1, <2>1, StatusTable
  <2>3. QED
    BY <1>4, <2>1, <2>2
<1>11. QED
  BY <1>6, <1>7, <1>8, <1>9, <1>10 DEF DeleteTree

LEMMA InnerKeepsPromise ==
  ASSUME IInv, NEW i \in Inner, PutInside(i)
  PROVE  [Promise!Next]_Promise!vars
<1>0. TypeOK
  BY DEF IInv
<1>1. /\ i \in Trees \cup Deletes
      /\ linked[i] = NoTree => CallStatus(i) = StatusAt[pc[i]]
      /\ linked[i] # NoTree => CallStatus(i) = LinkedStatusAt[pc[i]]
      /\ linked'[i] = NoTree => CallStatus(i)' = StatusAt[pc'[i]]
      /\ linked'[i] # NoTree => CallStatus(i)' = LinkedStatusAt[pc'[i]]
  BY DEF CallStatus, Trees
<1>2. /\ \A p : pc' = [pc EXCEPT ![i] = p] => pc'[i] = p
      /\ i \notin Files
  BY <1>0, <1>1, CallsAssumption DEF TypeOK
<1>3. /\ pc[i] \in Unlinked => linked[i] = NoTree
      /\ pc[i] \in Linked => linked[i] # NoTree
  BY DEF IInv, LinksOnce
<1>4. SUFFICES UNCHANGED Promise!vars \/ Promise!InnerStep(i)
  BY DEF Promise!Next
<1>5. ASSUME UNCHANGED <<at, source, entries, tree, left, file, linked>>
      PROVE  UNCHANGED <<Visible, Found>>
  BY <1>5 DEF Visible, Found, Free, FilesIn
<1>6. ASSUME CallStatus(i) = "pending", CallStatus(i)' = "failed",
             NEW p, pc' = [pc EXCEPT ![i] = p],
             UNCHANGED <<at, source, tree, file, linked, Visible, Found>>
      PROVE  Promise!InnerStep(i)
  <2>1. Promise!Step(i, "pending", {"failed"})
    BY <1>0, <1>1, <1>6, StatusMove
  <2>2. Promise!Abandon(i)
    BY <1>6, <2>1 DEF Promise!Abandon, Promise!directory, Promise!deletion
  <2>3. QED
    BY <2>2 DEF Promise!InnerStep
<1>7. ASSUME CallStatus(i) = "pending", CallStatus(i)' \in {"beaten", "exists"},
             Has(file[i]), NEW p, pc' = [pc EXCEPT ![i] = p],
             UNCHANGED <<at, source, entries, tree, left, file, linked>>
      PROVE  Promise!InnerStep(i)
  <2>1. Promise!Step(i, "pending", {"beaten", "exists"})
    BY <1>0, <1>1, <1>7, StatusMove
  <2>2. file[i] \in Visible
    BY <1>0, <1>7 DEF Has, Visible, FilesIn, TypeOK
  <2>3. Promise!Refuse(i, file[i] \in Visible)
    BY <1>5, <1>7, <2>1, <2>2
    DEF Promise!Refuse, Promise!directory, Promise!deletion
  <2>4. QED
    BY <2>3 DEF Promise!InnerStep
<1>8. ASSUME \/ /\ CallStatus(i) = "published"
                /\ \/ CallStatus(i)' = "unreported"
                   \/ CallStatus(i)' = "created" /\ Has(file[i])
             \/ /\ CallStatus(i) = "beaten"
                /\ CallStatus(i)' \in {"exists", "failed"},
             NEW p, pc' = [pc EXCEPT ![i] = p],
             UNCHANGED <<at, source, tree, file, linked, Visible, Found>>
      PROVE  Promise!InnerStep(i)
  <2>1. Has(file[i]) => file[i] \in Visible
    BY <1>0 DEF Has, Visible, FilesIn, TypeOK
  <2> DEFINE answers == Promise!Reports(file[i] \in Visible)
  <2>2. CASE CallStatus(i) = "published"
    <3>1. CallStatus(i)' \in answers
      BY <1>8, <2>1, <2>2 DEF Promise!Reports
    <3>2. Promise!Step(i, "published", answers)
      BY <1>0, <1>1, <1>8, <2>2, <3>1, StatusMove
    <3>3. Promise!Confirm(i, file[i] \in Visible)
      BY <1>8, <3>2 DEF Promise!Confirm, Promise!directory, Promise!deletion
    <3>4. QED
      BY <3>3 DEF Promise!InnerStep
  <2>3. CASE CallStatus(i) = "beaten"
    <3>1. CallStatus(i)' \in {"exists", "failed"}
      BY <1>8, <2>3
    <3>2. Promise!Step(i, "beaten", {"exists", "failed"})
      BY <1>0, <1>1, <1>8, <2>3, <3>1, StatusMove
    <3>3. Promise!Confirm(i, file[i] \in Visible)
      BY <1>8, <3>2 DEF Promise!Confirm, Promise!directory, Promise!deletion
    <3>4. QED
      BY <3>3 DEF Promise!InnerStep
  <2>4. QED
    BY <1>8, <2>2, <2>3
<1>9. CASE EnsureFileAbsent(i)
  <2>1. /\ pc[i] = "idle" /\ linked[i] = NoTree /\ CallStatus(i) = "pending"
        /\ UNCHANGED <<at, source, entries, tree, left, file, linked>>
    BY <1>1, <1>3, <1>9, StatusTable DEF EnsureFileAbsent, inner, Unlinked
  <2>2. CASE Has(file[i])
    <3>1. pc' = [pc EXCEPT ![i] = "exists"]
      BY <1>9, <2>2 DEF EnsureFileAbsent, Goto
    <3>2. CallStatus(i)' = "exists"
      BY <1>1, <1>2, <2>1, <3>1, StatusTable
    <3>3. QED
      BY <1>7, <2>1, <2>2, <3>1, <3>2
  <2>3. CASE ~Has(file[i])
    <3>1. pc' = [pc EXCEPT ![i] = "absent"]
      BY <1>9, <2>3 DEF EnsureFileAbsent, Goto
    <3>2. CallStatus(i)' = CallStatus(i)
      BY <1>1, <1>2, <2>1, <3>1, StatusTable
    <3>3. QED
      BY <1>0, <1>1, <1>5, <2>1, <3>1, <3>2, Unnoticed
  <2>4. QED
    BY <2>2, <2>3
<1>10. CASE MakeParent(i)
  <2>1. /\ pc[i] = "absent" /\ linked[i] = NoTree /\ CallStatus(i) = "pending"
        /\ pc' = [pc EXCEPT ![i] = "parented"]
        /\ at' = IF Free THEN i ELSE at
        /\ UNCHANGED <<source, entries, tree, left, file, linked>>
    BY <1>1, <1>3, <1>10, StatusTable DEF MakeParent, Goto, inner, Unlinked
  <2>2. CallStatus(i)' = CallStatus(i)
    BY <1>1, <1>2, <2>1, StatusTable
  <2>3. Found' = Found
    BY <2>1 DEF Found, FilesIn
  <2>4. CASE Free
    <3>1. Visible = {} /\ Visible' = {}
      <4>1. entries[i] = {} /\ i # NoTree
        BY <1>1, <2>4, CallsAssumption
        DEF IInv, OnlyThereFilled, Public, Free, Trees
      <4>2. QED
        BY <2>1, <2>4, <4>1 DEF Visible, Free, FilesIn
    <3>2. Promise!Step(i, "pending", {"pending"})
      BY <1>0, <1>1, <2>1, <2>2, StatusMove
    <3>3. Promise!MakeDirectory(i)
      BY <2>1, <2>3, <2>4, <3>1, <3>2
      DEF Promise!MakeDirectory, Promise!Exists, Promise!deletion, Free
    <3>4. QED
      BY <3>3 DEF Promise!InnerStep
  <2>5. CASE ~Free
    BY <1>0, <1>1, <1>5, <2>1, <2>2, <2>5, Unnoticed
  <2>6. QED
    BY <2>4, <2>5

<1>11. CASE MkstempInside(i)
  <2>1. /\ pc[i] = "parented" /\ linked[i] = NoTree /\ CallStatus(i) = "pending"
        /\ UNCHANGED <<at, source, tree, left, file, linked>>
    BY <1>1, <1>3, <1>11, StatusTable DEF MkstempInside, inner, Unlinked
  <2>2. CASE Free
    <3>1. pc' = [pc EXCEPT ![i] = "failed"] /\ UNCHANGED entries
      BY <1>11, <2>2 DEF MkstempInside, Goto
    <3>2. CallStatus(i)' = "failed"
      BY <1>1, <1>2, <2>1, <3>1, StatusTable
    <3>3. QED
      BY <1>5, <1>6, <2>1, <3>1, <3>2
  <2>3. CASE ~Free
    <3>1. /\ pc' = [pc EXCEPT ![i] = "staged"]
          /\ entries' = [entries EXCEPT ![at] = @ \cup {i}]
      BY <1>11, <2>3 DEF MkstempInside, Goto
    <3>2. CallStatus(i)' = CallStatus(i)
      BY <1>1, <1>2, <2>1, <3>1, StatusTable
    <3>3. FilesIn(entries'[at]) = FilesIn(entries[at])
      BY <1>0, <1>2, <2>3, <3>1 DEF FilesIn, TypeOK, Free
    <3>4. UNCHANGED <<Visible, Found>>
      BY <2>1, <3>3, VisibleStays DEF Found, FilesIn
    <3>5. QED
      BY <1>0, <1>1, <2>1, <3>1, <3>2, <3>4, Unnoticed
  <2>4. QED
    BY <2>2, <2>3
<1>12. CASE LinkInside(i)
  <2>1. /\ pc[i] = "staged" /\ linked[i] = NoTree /\ CallStatus(i) = "pending"
        /\ UNCHANGED <<at, source, tree, left, file>>
    BY <1>1, <1>3, <1>12, StatusTable DEF LinkInside, Unlinked
  <2>2. CASE CanLinkInside(i)
    <3>1. /\ pc' = [pc EXCEPT ![i] = "linked"]
          /\ entries' = [entries EXCEPT ![at] = @ \cup {file[i]}]
          /\ linked' = [linked EXCEPT ![i] = at]
          /\ ~Free /\ file[i] \notin entries[at]
      BY <1>12, <2>2 DEF LinkInside, CanLinkInside, Has, Goto
    <3>2. /\ at # NoTree /\ at \in Trees /\ file[i] \in Files
          /\ linked'[i] = at /\ \A j \in Inner \ {i} : linked'[j] = linked[j]
      BY <1>0, <3>1 DEF TypeOK, Free
    <3>3. CallStatus(i)' = "published"
      BY <1>1, <1>2, <3>1, <3>2, LinkedStatusTable
    <3>4. Promise!Step(i, "pending", {"published"})
      BY <1>0, <1>1, <2>1, <3>1, <3>2, <3>3, StatusMove
    <3>5. /\ file[i] \notin Visible
          /\ Visible' = Visible \cup {file[i]}
      BY <1>0, <2>1, <3>1, <3>2 DEF Visible, Free, FilesIn, TypeOK
    <3>6. Found' = Found
      BY <2>1 DEF Found, FilesIn
    <3>7. Promise!AddFile(i)
      BY <2>1, <3>2, <3>4, <3>5, <3>6
      DEF Promise!AddFile, Promise!Exists, Promise!deletion
    <3>8. QED
      BY <3>7 DEF Promise!InnerStep
  <2>3. CASE ~CanLinkInside(i) /\ Has(i)
    <3>1. /\ pc' = [pc EXCEPT ![i] = "refused"]
          /\ Has(file[i])
          /\ UNCHANGED <<entries, linked>>
      BY <1>12, <2>3 DEF LinkInside, CanLinkInside, Goto
    <3>2. CallStatus(i)' = "beaten"
      BY <1>1, <1>2, <2>1, <3>1, StatusTable
    <3>3. QED
      BY <1>7, <2>1, <3>1, <3>2
  <2>4. CASE ~CanLinkInside(i) /\ ~Has(i)
    <3>1. /\ pc' = [pc EXCEPT ![i] = "aborting"]
          /\ UNCHANGED <<entries, linked>>
      BY <1>12, <2>4 DEF LinkInside, CanLinkInside, Goto
    <3>2. CallStatus(i)' = CallStatus(i)
      BY <1>1, <1>2, <2>1, <3>1, StatusTable
    <3>3. QED
      BY <1>0, <1>1, <1>5, <2>1, <3>1, <3>2, Unnoticed
  <2>5. QED
    BY <2>2, <2>3, <2>4
<1>13. ASSUME entries' = Without(i),
              UNCHANGED <<at, source, temp, tree, left, file, linked>>
       PROVE  UNCHANGED <<Visible, Found>>
  <2>1. ~Free => FilesIn(entries'[at]) = FilesIn(entries[at])
    BY <1>0, <1>2, <1>13 DEF Without, Has, Free, FilesIn, TypeOK
  <2>2. QED
    BY <1>13, <2>1, VisibleStays DEF Found, FilesIn
<1>14. CASE UnlinkTemporary(i)
  <2>1. /\ pc[i] = "linked" /\ linked[i] # NoTree /\ CallStatus(i) = "published"
        /\ UNCHANGED <<at, source, temp, tree, left, file, linked>>
        /\ UNCHANGED <<Visible, Found>>
    BY <1>1, <1>3, <1>13, <1>14, LinkedStatusTable
    DEF UnlinkTemporary, inner, Linked
  <2>2. PICK p \in {"unlinked", "aborting"} : pc' = [pc EXCEPT ![i] = p]
    BY <1>14 DEF UnlinkTemporary, Goto
  <2>3. pc'[i] = p
    BY <1>2, <2>2
  <2>4. CallStatus(i)' = CallStatus(i)
    BY <1>1, <2>1, <2>3, LinkedStatusTable
  <2>5. QED
    BY <1>0, <1>1, <2>1, <2>2, <2>4, Unnoticed
<1>15. CASE DescribeFile(i)
  <2>1. /\ pc[i] = "unlinked" /\ linked[i] # NoTree
        /\ CallStatus(i) = "published"
        /\ UNCHANGED <<at, source, entries, tree, left, file, linked>>
    BY <1>1, <1>3, <1>15, LinkedStatusTable DEF DescribeFile, inner, Linked
  <2>2. CASE pc' = [pc EXCEPT ![i] = "created"] /\ Has(file[i])
    <3>1. CallStatus(i)' = "created"
      BY <1>1, <1>2, <2>1, <2>2, LinkedStatusTable
    <3>2. QED
      BY <1>5, <1>8, <2>1, <2>2, <3>1
  <2>3. CASE pc' = [pc EXCEPT ![i] = "unreported"]
    <3>1. CallStatus(i)' = "unreported"
      BY <1>1, <1>2, <2>1, <2>3, LinkedStatusTable
    <3>2. QED
      BY <1>5, <1>8, <2>1, <2>3, <3>1
  <2>4. QED
    BY <1>15, <2>2, <2>3 DEF DescribeFile, Goto
<1>16. CASE FaultInside(i)
  <2>1. UNCHANGED <<at, source, entries, tree, left, file, linked>>
    BY <1>16 DEF FaultInside, inner
  <2>2. CASE pc[i] \in {"idle", "absent", "parented"}
    <3>1. pc' = [pc EXCEPT ![i] = "failed"]
      BY <1>16, <2>2 DEF FaultInside, Goto
    <3>2. linked[i] = NoTree /\ pc'[i] = "failed"
      BY <1>2, <1>3, <2>2, <3>1 DEF Unlinked
    <3>3. CallStatus(i) = "pending" /\ CallStatus(i)' = "failed"
      BY <1>1, <2>1, <2>2, <3>2, StatusTable
    <3>4. QED
      BY <1>5, <1>6, <2>1, <3>1, <3>3
  <2>3. CASE pc[i] \in {"staged", "linked"}
    <3>1. pc' = [pc EXCEPT ![i] = "aborting"]
      BY <1>16, <2>3 DEF FaultInside, Goto
    <3>2. CASE pc[i] = "staged"
      <4>1. CallStatus(i)' = CallStatus(i)
        BY <1>1, <1>2, <1>3, <2>1, <3>1, <3>2, StatusTable DEF Unlinked
      <4>2. QED
        BY <1>0, <1>1, <1>5, <2>1, <3>1, <4>1, Unnoticed
    <3>3. CASE pc[i] = "linked"
      <4>1. CallStatus(i)' = CallStatus(i)
        BY <1>1, <1>2, <1>3, <2>1, <3>1, <3>3, LinkedStatusTable DEF Linked
      <4>2. QED
        BY <1>0, <1>1, <1>5, <2>1, <3>1, <4>1, Unnoticed
    <3>4. QED
      BY <2>3, <3>2, <3>3
  <2>4. QED
    BY <1>16, <2>2, <2>3 DEF FaultInside
<1>17. CASE DiscardTemporary(i)
  <2>1. /\ UNCHANGED <<at, source, temp, tree, left, file, linked>>
        /\ UNCHANGED <<Visible, Found>>
    <3>1. UNCHANGED <<at, source, temp, tree, left, file, linked>>
      BY <1>17 DEF DiscardTemporary, inner
    <3>2. entries' = Without(i) \/ UNCHANGED entries
      BY <1>17 DEF DiscardTemporary
    <3>3. QED
      BY <1>5, <1>13, <3>1, <3>2
  <2>2. CASE pc[i] = "refused"
    <3>1. PICK p \in {"exists", "stuck"} : pc' = [pc EXCEPT ![i] = p]
      BY <1>17, <2>2 DEF DiscardTemporary, Goto
    <3>2. pc'[i] = p
      BY <1>2, <3>1
    <3>3. CallStatus(i) = "beaten" /\ CallStatus(i)' \in {"exists", "failed"}
      BY <1>1, <1>3, <2>1, <2>2, <3>2, StatusTable DEF Unlinked
    <3>4. QED
      BY <1>8, <2>1, <3>1, <3>3
  <2>3. CASE pc[i] = "aborting"
    <3>1. PICK p \in {"failed", "stuck"} : pc' = [pc EXCEPT ![i] = p]
      BY <1>17, <2>3 DEF DiscardTemporary, Goto
    <3>2. pc'[i] = p
      BY <1>2, <3>1
    <3>3. CASE linked[i] = NoTree
      <4>1. CallStatus(i) = "pending" /\ CallStatus(i)' = "failed"
        BY <1>1, <2>1, <2>3, <3>2, <3>3, StatusTable
      <4>2. QED
        BY <1>6, <2>1, <3>1, <4>1
    <3>4. CASE linked[i] # NoTree
      <4>1. CallStatus(i) = "published" /\ CallStatus(i)' = "unreported"
        BY <1>1, <2>1, <2>3, <3>2, <3>4, LinkedStatusTable
      <4>2. QED
        BY <1>8, <2>1, <3>1, <4>1
    <3>5. QED
      BY <3>3, <3>4
  <2>4. QED
    BY <1>17, <2>2, <2>3 DEF DiscardTemporary
<1>18. QED
  BY <1>9, <1>10, <1>11, <1>12, <1>14, <1>15, <1>16, <1>17 DEF PutInside

LEMMA PromiseInit == Init => Promise!Init
<1> SUFFICES ASSUME Init PROVE Promise!Init
  OBVIOUS
<1>1. \A c \in Trees \cup Deletes : CallStatus(c) = "pending"
  <2>1. \A c \in Trees \cup Deletes : CallStatus(c) = StatusAt["idle"]
    BY DEF Init, CallStatus
  <2>2. QED
    BY <2>1, StatusTable
<1>2. /\ Statuses = [c \in Trees \cup Deletes |-> "pending"]
      /\ Visible = {}
      /\ Found = [d \in Deletes |-> {}]
  BY <1>1 DEF Init, Statuses, Visible, Found, Free, FilesIn
<1>3. QED
  BY <1>2 DEF Init, Promise!Init, Promise!Calls, Promise!Trees, Trees

LEMMA PromiseStep == IInv /\ [Next]_vars => [Promise!Next]_Promise!vars
<1> SUFFICES ASSUME IInv, [Next]_vars PROVE [Promise!Next]_Promise!vars
  OBVIOUS
<1>1. CASE UNCHANGED vars
  BY <1>1 DEF vars, Promise!vars, Visible, Found, Statuses, CallStatus, Free,
     FilesIn
<1>2. QED
  BY <1>1, PutKeepsPromise, InnerKeepsPromise, DeleteKeepsPromise DEF Next

(* put_directory, put_stream beneath its key and a recursive delete do,    *)
(* step by step, what TreePromise says of the one directory they share.    *)
THEOREM DirectoryCallsAreAtomic == Spec => ActsAtomically
<1>1. QED
  BY InitIInv, NextIInv, PromiseInit, PromiseStep, PTL
  DEF Spec, ActsAtomically, Promise!Spec

=============================================================================
