-------------------------- MODULE LocalBackendProofs --------------------------
(***************************************************************************)
(* Theorems about LocalBackend, for any sets of keys and calls and any     *)
(* object size.                                                            *)
(***************************************************************************)
EXTENDS LocalBackend, TLAPS, FiniteSetTheorems

-----------------------------------------------------------------------------
(* The inductive invariant, in named parts.                                *)

(* A key names a file only through that file's own successful link. *)
EntryOwned ==
    \A k \in Keys : Exists(k) => /\ target[entry[k]] = k
                                 /\ pc[entry[k]] \in Linked

(* From the fsync on, a put's file has every chunk, on the disk as well. *)
OnDisk(c) == Whole(c) /\ flushed[c] = Size

WrittenWhole == \A c \in Puts : pc[c] \in Written => OnDisk(c)

(* A temporary name belongs to a put that still has to unlink it. *)
StagingOwned == \A c \in temp : pc[c] \in Staging

(* Some other put of the same key linked its file. *)
Beaten(c) == \E d \in Puts : d # c /\ target[d] = target[c] /\ pc[d] \in Linked

RefusalJustified ==
    \A c \in Puts : pc[c] \in {"refused", "exists"} => Beaten(c)

(* A published file leaves its key only through a delete that says so. *)
LinkedStays ==
    \A f \in Puts : pc[f] \in Linked =>
        entry[target[f]] = f \/ RemovedFrom(target[f])

DirectoryInv ==
    /\ EntryOwned
    /\ WrittenWhole
    /\ StagingOwned
    /\ RefusalJustified
    /\ LinkedStays

(* Some call opened f or took its size or its time. *)
Seen(f) ==
    \/ \E o \in Opens : f \in held[o]
    \/ \E c \in Describers :
          \/ f = sized[c]
          \/ \E d \in described[c] : f \in {d[1], d[2]}

(* Only published files are seen. *)
SeenLinked == \A f \in Puts : Seen(f) => pc[f] \in Linked

(* Listings only walk the names of keys. *)
NamesVisible == \A l \in Lists : names[l] \subseteq Keys

(* Between the two looks of a description: the first was at its key. *)
Subject(c) == IF c \in Lists THEN child[c] ELSE target[c]

MeasuredKey ==
    \A c \in Describers : pc[c] = "measured" =>
        /\ Subject(c) \in Keys
        /\ sized[c] \in Puts
        /\ target[sized[c]] = Subject(c)

(* Both looks were at that key; a put describes after its link. *)
DescribedKey ==
    /\ \A c \in Describers : \A d \in described[c] :
          /\ target[d[1]] = target[d[2]]
          /\ c \in Puts => target[d[1]] = target[c]
    /\ \A c \in Puts : described[c] # {} => pc[c] \in Linked

LooksInv ==
    /\ SeenLinked
    /\ NamesVisible
    /\ MeasuredKey
    /\ DescribedKey

IInv ==
    /\ TypeOK
    /\ DirectoryInv
    /\ LooksInv

USE DEF files, listing, answers

-----------------------------------------------------------------------------
(* What the two looks do to the variables. *)
LEMMA SizeTypes ==
  ASSUME TypeOK, NEW c \in Describers, NEW name, NEW lost,
         StatSize(c, name, lost)
  PROVE  /\ sized' \in [Describers -> Puts \cup {NoFile}]
         /\ \A d \in Describers : d # c => sized'[d] = sized[d]
         /\ \/ pc' = [pc EXCEPT ![c] = "measured"] /\ sized'[c] # NoFile
            \/ pc' = [pc EXCEPT ![c] = lost]
<1>1. FileOf(name) \in Puts \cup {NoFile}
  BY DEF FileOf, TypeOK
<1>2. QED
  BY <1>1 DEF TypeOK, StatSize, Goto

LEMMA TimeTypes ==
  ASSUME TypeOK, NEW c \in Describers, pc[c] = "measured",
         NEW name, NEW done, NEW lost,
         StatTime(c, name, done, lost)
  PROVE  /\ described' \in [Describers -> SUBSET (Puts \X Puts)]
         /\ \/ pc' = [pc EXCEPT ![c] = done]
            \/ pc' = [pc EXCEPT ![c] = lost]
<1> USE DEF TypeOK
<1>1. FileOf(name) # NoFile => FileOf(name) \in Puts
  BY DEF FileOf
<1>2. sized[c] \in Puts
  OBVIOUS
<1>3. FileOf(name) # NoFile => <<sized[c], FileOf(name)>> \in Puts \X Puts
  BY <1>1, <1>2
<1>4. QED
  BY <1>3 DEF StatTime, Goto

(* The part of the type invariant about places, and one call's move. *)
PlacesTyped ==
    /\ pc \in [Calls -> Places]
    /\ \A c \in Puts : pc[c] \in PutSteps \cup PutEnds
    /\ \A o \in Opens : pc[o] \in OpenPlaces
    /\ \A l \in Lists : pc[l] \in ListPlaces
    /\ \A d \in Deletes : pc[d] \in DeletePlaces
    /\ \A c \in Describers : pc[c] = "measured" => sized[c] # NoFile

LEMMA MoveTypes ==
  ASSUME TypeOK, NEW c \in Calls, NEW place \in Places,
         pc' = [pc EXCEPT ![c] = place],
         c \in Puts => place \in PutSteps \cup PutEnds,
         c \in Opens => place \in OpenPlaces,
         c \in Lists => place \in ListPlaces,
         c \in Deletes => place \in DeletePlaces,
         c \in Describers /\ place = "measured" => sized'[c] # NoFile,
         \A d \in Describers : d # c => sized'[d] = sized[d]
  PROVE  PlacesTyped'
<1>1. /\ pc \in [Calls -> Places]
      /\ PlacesTyped
  BY DEF TypeOK, PlacesTyped
<1>2. \A d \in Calls : pc'[d] = IF d = c THEN place ELSE pc[d]
  BY <1>1
<1>3. /\ Describers \subseteq Calls /\ Puts \subseteq Calls
      /\ Opens \subseteq Calls /\ Lists \subseteq Calls /\ Deletes \subseteq Calls
  BY DEF Describers, Calls, Keyed
<1>4. QED
  BY <1>1, <1>2, <1>3 DEF PlacesTyped

LEMMA TypeStep == TypeOK /\ [Next]_vars => TypeOK'
<1> SUFFICES ASSUME TypeOK, [Next]_vars PROVE TypeOK'
  OBVIOUS
<1> USE CallsDisjoint DEF At, Goto
<1>a. /\ Deletes \subseteq Calls
      /\ Puts \cup Opens \cup Lists = Describers
      /\ Describers \subseteq Calls
      /\ {"linked", "refused", "measured", "created", "unreported", "opened",
          "described", "scanned", "deleted", "vanished"} \subseteq Places
  BY DEF Describers, Calls, Keyed, Places, PutSteps, PutEnds, Ends
<1>1. ASSUME NEW c \in Puts, EnsureAbsent(c) PROVE TypeOK'
  BY <1>1
  DEF TypeOK, Calls, Keyed, Places, EnsureAbsent, PutSteps, PutEnds, Ends
<1>2. ASSUME NEW c \in Puts, Mkstemp(c) PROVE TypeOK'
  BY <1>2 DEF TypeOK, Calls, Keyed, Places, Mkstemp, PutSteps, PutEnds, Ends
<1>3. ASSUME NEW c \in Puts, CopyChunk(c) PROVE TypeOK'
  BY <1>3, SizeIsNat DEF TypeOK, Calls, Keyed, Places, CopyChunk, MoreToCopy
<1>4. ASSUME NEW c \in Puts, Fsync(c) PROVE TypeOK'
  BY <1>4
  DEF TypeOK, Calls, Keyed, Places, Fsync, Synced, PutSteps, PutEnds, Ends
<1>5. ASSUME NEW c \in Puts, Link(c) PROVE TypeOK'
  <2>1. PICK place \in {"linked", "refused"} : pc' = [pc EXCEPT ![c] = place]
    BY <1>5 DEF Link, AfterRefusal
  <2>2. PlacesTyped'
    BY <1>5, <2>1, MoveTypes, <1>a DEF Link, PutSteps
  <2>3. QED
    BY <1>5, <2>2 DEF Link, TypeOK, PlacesTyped, Keyed
<1>6. ASSUME NEW c \in Puts, UnlinkTemporary(c) PROVE TypeOK'
  BY <1>6
  DEF TypeOK, Calls, Keyed, Places, UnlinkTemporary, PutSteps, PutEnds, Ends
<1>7. ASSUME NEW c \in Puts, Discard(c) PROVE TypeOK'
  <2>1. PICK place \in PutEnds : pc' = [pc EXCEPT ![c] = place]
    BY <1>7 DEF Discard, AfterCleanup, AfterFailedCleanup, PutEnds, Littered
  <2>2. PlacesTyped'
    BY <1>7, <2>1, MoveTypes, <1>a
    DEF Discard, Places, Ends, PutEnds, Littered
  <2>3. QED
    BY <1>7, <2>2 DEF Discard, CleanedUp, TypeOK, PlacesTyped
<1>8. ASSUME NEW c \in Puts, DescribeSize(c) \/ DescribeTime(c) PROVE TypeOK'
  <2>1. CASE DescribeSize(c)
    <3>1. PlacesTyped' /\ sized' \in [Describers -> Puts \cup {NoFile}]
      BY <2>1, SizeTypes, MoveTypes, <1>a DEF DescribeSize, PutSteps, PutEnds
    <3>2. QED
      BY <2>1, <3>1 DEF DescribeSize, TypeOK, PlacesTyped
  <2>2. CASE DescribeTime(c)
    <3>1. PlacesTyped' /\ described' \in [Describers -> SUBSET (Puts \X Puts)]
      BY <2>2, TimeTypes, MoveTypes, <1>a DEF DescribeTime, PutSteps, PutEnds
    <3>2. QED
      BY <2>2, <3>1 DEF DescribeTime, TypeOK, PlacesTyped
  <2>3. QED
    BY <1>8, <2>1, <2>2
<1>9. ASSUME NEW c \in Puts, Fault(c) PROVE TypeOK'
  BY <1>9
  DEF TypeOK, Calls, Keyed, Places, Fault, AfterFault, PutSteps, PutEnds, Ends
<1>10. ASSUME NEW c \in Opens \cup Deletes, ExistingPath(c) PROVE TypeOK'
  BY <1>10
  DEF TypeOK, Calls, Keyed, Places, ExistingPath, OpenPlaces, DeletePlaces,
      Ends
<1>11. ASSUME NEW o \in Opens, OpenFound(o) PROVE TypeOK'
  <2>1. PICK place \in {"opened", "vanished"} : pc' = [pc EXCEPT ![o] = place]
    BY <1>11 DEF OpenFound
  <2>2. PlacesTyped'
    BY <1>11, <2>1, MoveTypes, <1>a DEF OpenFound, OpenPlaces
  <2>3. held' \in [Opens -> SUBSET Puts]
    BY <1>11 DEF OpenFound, Exists, TypeOK, Keyed
  <2>4. QED
    BY <1>11, <2>2, <2>3 DEF OpenFound, TypeOK, PlacesTyped
<1>12. ASSUME NEW o \in Opens, MeasureFound(o) \/ DateFound(o) PROVE TypeOK'
  <2>1. CASE MeasureFound(o)
    <3>1. PlacesTyped' /\ sized' \in [Describers -> Puts \cup {NoFile}]
      BY <2>1, SizeTypes, MoveTypes, <1>a DEF MeasureFound, OpenPlaces
    <3>2. QED
      BY <2>1, <3>1 DEF MeasureFound, TypeOK, PlacesTyped
  <2>2. CASE DateFound(o)
    <3>1. PlacesTyped' /\ described' \in [Describers -> SUBSET (Puts \X Puts)]
      BY <2>2, TimeTypes, MoveTypes, <1>a DEF DateFound, OpenPlaces
    <3>2. QED
      BY <2>2, <3>1 DEF DateFound, TypeOK, PlacesTyped
  <2>3. QED
    BY <1>12, <2>1, <2>2
<1>13. ASSUME NEW d \in Deletes, UnlinkFound(d) PROVE TypeOK'
  <2>1. PICK place \in {"deleted", "vanished"} : pc' = [pc EXCEPT ![d] = place]
    BY <1>13 DEF UnlinkFound, AfterLostUnlink
  <2>2. PlacesTyped'
    BY <1>13, <2>1, MoveTypes, <1>a DEF UnlinkFound, DeletePlaces
  <2>3. entry' \in [Keys -> Puts \cup {NoFile}]
    BY <1>13 DEF UnlinkFound, TypeOK
  <2>4. QED
    BY <1>13, <2>2, <2>3 DEF UnlinkFound, TypeOK, PlacesTyped
<1>14. ASSUME NEW l \in Lists, ScanDirectory(l) PROVE TypeOK'
  BY <1>14
  DEF TypeOK, Calls, Keyed, Places, ScanDirectory, Directory, ListPlaces
<1>15. ASSUME NEW l \in Lists, MeasureChild(l) \/ DateChild(l) PROVE TypeOK'
  <2>1. CASE MeasureChild(l)
    <3>1. PICK n \in names[l] :
            /\ StatSize(l, n, "vanished")
            /\ child' = [child EXCEPT ![l] = n]
            /\ names' = [names EXCEPT ![l] = @ \ {n}]
      BY <2>1 DEF MeasureChild
    <3>2. PlacesTyped' /\ sized' \in [Describers -> Puts \cup {NoFile}]
      BY <2>1, <3>1, SizeTypes, MoveTypes, <1>a DEF MeasureChild, ListPlaces
    <3>3. /\ names' \in [Lists -> SUBSET (Keys \cup Puts)]
          /\ child' \in [Lists -> Keys \cup Puts \cup {NoFile}]
      BY <3>1 DEF TypeOK
    <3>4. QED
      BY <2>1, <3>2, <3>3 DEF MeasureChild, TypeOK, PlacesTyped
  <2>2. CASE DateChild(l)
    <3>1. PlacesTyped' /\ described' \in [Describers -> SUBSET (Puts \X Puts)]
      BY <2>2, TimeTypes, MoveTypes, <1>a DEF DateChild, ListPlaces
    <3>2. QED
      BY <2>2, <3>1 DEF DateChild, TypeOK, PlacesTyped
  <2>3. QED
    BY <1>15, <2>1, <2>2
<1>16. ASSUME NEW l \in Lists, ReturnList(l) PROVE TypeOK'
  BY <1>16 DEF TypeOK, Calls, Keyed, Places, ReturnList, ListPlaces, Ends
<1>17. ASSUME NEW c \in Puts, Crash(c) PROVE TypeOK'
  BY <1>17 DEF TypeOK, Calls, Keyed, Places, Crash
<1>18. CASE UNCHANGED vars
  BY <1>18 DEF TypeOK, Calls, Keyed, Places, vars
<1>19. QED
  BY <1>1, <1>2, <1>3, <1>4, <1>5, <1>6, <1>7, <1>8, <1>9, <1>10, <1>11,
     <1>12, <1>13, <1>14, <1>15, <1>16, <1>17, <1>18
  DEF Next, Step, PutStream, OpenOrStat, List, Delete

(* Every action keeps the variables in their types, whatever the calls do: *)
(* a put stays in put places, a reader in reader places, and the chunk     *)
(* counter never passes the size of the source.                            *)
THEOREM TypeCorrect == Spec => []TypeOK
<1>1. Init => TypeOK
  BY SizeIsNat DEF Init, TypeOK, PutSteps, PutEnds, Ends, OpenPlaces,
     ListPlaces, DeletePlaces, Calls, Keyed, Describers, Places
<1>2. QED
  BY <1>1, TypeStep, PTL DEF Spec

-----------------------------------------------------------------------------
LEMMA IInvInit == Init => IInv
<1> SUFFICES ASSUME Init PROVE IInv
  OBVIOUS
<1>1. TypeOK
  BY SizeIsNat DEF Init, TypeOK, PutSteps, PutEnds, Ends, OpenPlaces,
     ListPlaces, DeletePlaces, Calls, Keyed, Describers, Places
<1>2. DirectoryInv
  BY DEF Init, DirectoryInv, EntryOwned, WrittenWhole, StagingOwned,
     RefusalJustified, LinkedStays, Exists, Written, Linked, Calls, Keyed
<1>3. LooksInv
  BY NamesDistinct
  DEF Init, LooksInv, SeenLinked, Seen, NamesVisible, MeasuredKey,
      DescribedKey, Describers, Calls, Keyed
<1>4. QED
  BY <1>1, <1>2, <1>3 DEF IInv

(* A step of a put other than its link moves one call between places, and  *)
(* changes at most that call's temporary name.  It keeps the directory's   *)
(* part of the invariant if it keeps the call's side of it.                *)
LEMMA PutMove ==
  ASSUME IInv, TypeOK', NEW c \in Puts, NEW place \in PutSteps \cup PutEnds,
         pc' = [pc EXCEPT ![c] = place],
         UNCHANGED <<entry, files, target>>,
         temp' \in {temp, temp \cup {c}, temp \ {c}},
         pc[c] \in Linked <=> place \in Linked,
         place \in Written => OnDisk(c),
         c \in temp' => place \in Staging,
         place \in {"refused", "exists"} => Beaten(c)
  PROVE  /\ DirectoryInv'
         /\ \A f \in Puts : pc[f] \in Linked => pc'[f] \in Linked
         /\ \A d \in Calls : d # c => pc'[d] = pc[d]
         /\ pc'[c] = place
<1> USE CallsDisjoint DEF IInv, DirectoryInv, TypeOK, Calls, Keyed
<1>1. \A d \in Calls : d # c => pc'[d] = pc[d]
  OBVIOUS
<1>2. pc'[c] = place
  OBVIOUS
<1>3. \A d \in Puts : pc[d] \in Linked <=> pc'[d] \in Linked
  BY <1>1, <1>2
<1>4. EntryOwned'
  BY <1>3 DEF EntryOwned, Exists
<1>5. WrittenWhole'
  BY <1>1, <1>2 DEF WrittenWhole, OnDisk, Whole
<1>6. StagingOwned'
  BY <1>1, <1>2 DEF StagingOwned
<1>7. \A d \in Puts : Beaten(d) => Beaten(d)'
  BY <1>3 DEF Beaten
<1>8. RefusalJustified'
  BY <1>1, <1>2, <1>7 DEF RefusalJustified
<1>9. \A k : RemovedFrom(k) => RemovedFrom(k)'
  BY <1>1 DEF RemovedFrom
<1>10. LinkedStays'
  BY <1>3, <1>9 DEF LinkedStays
<1>11. QED
  BY <1>1, <1>2, <1>3, <1>4, <1>5, <1>6, <1>8, <1>10

(* A step of a reader or a delete leaves every put where it is. *)
LEMMA OtherMove ==
  ASSUME IInv, TypeOK',
         \A c \in Puts : pc'[c] = pc[c],
         UNCHANGED <<temp, files, target>>,
         \A k \in Keys : \/ entry'[k] = entry[k]
                         \/ entry'[k] = NoFile /\ RemovedFrom(k)',
         \A d \in Deletes : pc[d] = "deleted" => pc'[d] = "deleted"
  PROVE  /\ DirectoryInv'
         /\ \A f \in Puts : pc[f] \in Linked => pc'[f] \in Linked
<1> USE DEF IInv, DirectoryInv, TypeOK
<1>1. EntryOwned'
  BY DEF EntryOwned, Exists
<1>2. WrittenWhole'
  BY DEF WrittenWhole, OnDisk, Whole
<1>3. StagingOwned'
  BY DEF StagingOwned
<1>4. RefusalJustified'
  BY DEF RefusalJustified, Beaten
<1>5. \A k : RemovedFrom(k) => RemovedFrom(k)'
  BY DEF RemovedFrom
<1>6. LinkedStays'
  BY <1>5 DEF LinkedStays, Keyed
<1>7. QED
  BY <1>1, <1>2, <1>3, <1>4, <1>6

(* A step that looks at nothing keeps what was seen. *)
LEMMA LooksKept ==
  ASSUME IInv,
         UNCHANGED <<target, child, answers>>,
         \A f \in Puts : pc[f] \in Linked => pc'[f] \in Linked,
         \A c \in Describers : pc'[c] = "measured" => pc[c] = "measured",
         \A l \in Lists : names'[l] \subseteq Keys
  PROVE  LooksInv'
<1> USE DEF IInv, LooksInv
<1>1. SeenLinked'
  BY DEF SeenLinked, Seen
<1>2. MeasuredKey'
  BY DEF MeasuredKey, Subject
<1>3. DescribedKey'
  BY DEF DescribedKey
<1>4. QED
  BY <1>1, <1>2, <1>3 DEF NamesVisible

(* The first look of a description: at the file a key names, if any. *)
LEMMA SizeLooks ==
  ASSUME IInv, TypeOK', NEW c \in Describers, NEW k \in Keys, NEW lost,
         StatSize(c, k, lost), lost # "measured",
         UNCHANGED <<entry, target, held, described>>,
         \A d \in Lists : d # c => child'[d] = child[d],
         Subject(c)' = k,
         \A f \in Puts : pc[f] \in Linked => pc'[f] \in Linked,
         \A l \in Lists : names'[l] \subseteq Keys
  PROVE  LooksInv'
<1> USE CallsDisjoint
    DEF IInv, LooksInv, TypeOK, Goto, Calls, Keyed, Describers
<1>1. FileOf(k) = entry[k]
  BY DEF FileOf
<1>2. entry[k] # NoFile =>
        entry[k] \in Puts /\ target[entry[k]] = k /\ pc[entry[k]] \in Linked
  BY DEF DirectoryInv, EntryOwned, Exists
<1>3. \A d \in Describers : d # c => /\ pc'[d] = pc[d]
                                     /\ sized'[d] = sized[d]
                                     /\ Subject(d)' = Subject(d)
  BY DEF StatSize, Subject
<1>4. \/ entry[k] # NoFile /\ sized'[c] = entry[k] /\ pc'[c] = "measured"
      \/ sized' = sized /\ pc'[c] = lost
  BY <1>1 DEF StatSize
<1>5. \A f \in Puts :
        Seen(f)' => Seen(f) \/ (f = entry[k] /\ entry[k] # NoFile)
  BY <1>3, <1>4 DEF Seen
<1>6. SeenLinked'
  BY <1>2, <1>5 DEF SeenLinked
<1>7. MeasuredKey'
  BY <1>2, <1>3, <1>4 DEF MeasuredKey
<1>8. DescribedKey'
  BY DEF DescribedKey
<1>9. QED
  BY <1>6, <1>7, <1>8 DEF NamesVisible

(* The second look: at the file the same key names by then, if any. *)
LEMMA TimeLooks ==
  ASSUME IInv, TypeOK', NEW c \in Describers, pc[c] = "measured",
         NEW done, NEW lost,
         StatTime(c, Subject(c), done, lost),
         done # "measured", lost # "measured",
         UNCHANGED <<entry, target, listing, held, sized>>,
         \A f \in Puts : pc[f] \in Linked => pc'[f] \in Linked
  PROVE  LooksInv'
<1> USE CallsDisjoint
    DEF IInv, LooksInv, TypeOK, Goto, Calls, Keyed, Describers
<1> DEFINE k == Subject(c)
           f0 == sized[c]
<1>1. k \in Keys /\ f0 \in Puts /\ target[f0] = k
  BY DEF MeasuredKey
<1>2. FileOf(k) = entry[k]
  BY <1>1 DEF FileOf
<1>3. entry[k] # NoFile =>
        entry[k] \in Puts /\ target[entry[k]] = k /\ pc[entry[k]] \in Linked
  BY <1>1 DEF DirectoryInv, EntryOwned, Exists
<1>4. pc[f0] \in Linked
  BY <1>1 DEF SeenLinked, Seen
<1>5. \A d \in Describers :
         d # c => pc'[d] = pc[d] /\ described'[d] = described[d]
  BY DEF StatTime
<1>6. \/ /\ entry[k] # NoFile
         /\ described'[c] = described[c] \cup {<<f0, entry[k]>>}
      \/ described'[c] = described[c]
  BY <1>2 DEF StatTime
<1>7. pc'[c] # "measured"
  BY DEF StatTime
<1>8. \A f \in Puts :
        Seen(f)' => Seen(f) \/ f = f0 \/ (f = entry[k] /\ entry[k] # NoFile)
  BY <1>5, <1>6 DEF Seen
<1>9. SeenLinked'
  BY <1>3, <1>4, <1>8 DEF SeenLinked
<1>10. \A d \in Describers : Subject(d)' = Subject(d)
  BY DEF Subject
<1>11. MeasuredKey'
  BY <1>5, <1>7, <1>10 DEF MeasuredKey
<1>12. DescribedKey'
  <2>1. \A d \in Describers : \A p \in described'[d] :
           \/ p \in described[d]
           \/ d = c /\ entry[k] # NoFile /\ p = <<f0, entry[k]>>
    BY <1>5, <1>6
  <2>2. c \in Puts => k = target[c] /\ pc[c] \in Linked
    BY DEF Subject, Linked
  <2>3. \A d \in Describers : \A p \in described'[d] :
           /\ target[p[1]] = target[p[2]]
           /\ d \in Puts => target[p[1]] = target[d]
    BY <1>1, <1>3, <2>1, <2>2 DEF DescribedKey
  <2>4. \A d \in Puts : described'[d] # {} => pc[d] \in Linked
    BY <1>5, <2>2 DEF DescribedKey
  <2>5. QED
    BY <2>3, <2>4 DEF DescribedKey
<1>13. NamesVisible'
  BY DEF NamesVisible
<1>14. QED
  BY <1>9, <1>11, <1>12, <1>13

LEMMA IInvStep == IInv /\ [Next]_vars => IInv'
<1> SUFFICES ASSUME IInv, [Next]_vars PROVE IInv'
  OBVIOUS
<1>0. TypeOK'
  BY TypeStep DEF IInv
<1> USE CallsDisjoint DEF At, Goto, Calls, Keyed, Describers
<1>a. NamesVisible
  BY DEF IInv, LooksInv
<1>b. ASSUME NEW c \in Puts, NEW place \in PutSteps \cup PutEnds,
             pc' = [pc EXCEPT ![c] = place],
             UNCHANGED <<entry, files, target, listing, answers>>,
             temp' \in {temp, temp \cup {c}, temp \ {c}},
             pc[c] \in Linked <=> place \in Linked,
             place \in Written => OnDisk(c),
             c \in temp' => place \in Staging,
             place \in {"refused", "exists"} => Beaten(c),
             place # "measured"
      PROVE  IInv'
  <2>1. /\ DirectoryInv'
        /\ \A f \in Puts : pc[f] \in Linked => pc'[f] \in Linked
        /\ \A d \in Calls : d # c => pc'[d] = pc[d]
        /\ pc'[c] = place
    BY <1>0, <1>b, PutMove
  <2>2. LooksInv'
    BY <1>a, <1>b, <2>1, LooksKept DEF NamesVisible
  <2>3. QED
    BY <1>0, <2>1, <2>2 DEF IInv
<1>c. ASSUME \A c \in Puts : pc'[c] = pc[c],
             UNCHANGED <<temp, files, target, child, answers>>,
             \A k \in Keys : \/ entry'[k] = entry[k]
                             \/ entry'[k] = NoFile /\ RemovedFrom(k)',
             \A d \in Deletes : pc[d] = "deleted" => pc'[d] = "deleted",
             \A d \in Describers : pc'[d] = "measured" => pc[d] = "measured",
             \A l \in Lists : names'[l] \subseteq Keys
      PROVE  IInv'
  <2>1. /\ DirectoryInv'
        /\ \A f \in Puts : pc[f] \in Linked => pc'[f] \in Linked
    BY <1>0, <1>c, OtherMove
  <2>2. LooksInv'
    BY <1>c, <2>1, LooksKept
  <2>3. QED
    BY <1>0, <2>1, <2>2 DEF IInv
<1>1. ASSUME NEW c \in Puts, EnsureAbsent(c) PROVE IInv'
  <2>1. Exists(target[c]) => Beaten(c)
    BY <1>1
    DEF EnsureAbsent, Exists, Beaten, IInv, DirectoryInv, EntryOwned, TypeOK,
        Linked
  <2>2. c \notin temp
    BY <1>1
    DEF EnsureAbsent, IInv, DirectoryInv, StagingOwned, Staging, Littered
  <2> DEFINE place == IF Occupied(c) THEN "exists" ELSE "absent"
  <2>3. /\ place \in PutSteps \cup PutEnds
        /\ place \notin Written
        /\ place \notin {"refused", "measured"}
        /\ place = "exists" => Exists(target[c])
    BY DEF PutSteps, PutEnds, Written, Linked, Occupied
  <2>4. /\ pc' = [pc EXCEPT ![c] = place]
        /\ pc[c] = "idle"
        /\ UNCHANGED <<entry, temp, files, target, listing, answers>>
    BY <1>1 DEF EnsureAbsent
  <2> HIDE DEF place
  <2>5. QED
    BY <1>b, <2>1, <2>2, <2>3, <2>4 DEF Linked, Written
<1>2. ASSUME NEW c \in Puts, Mkstemp(c) PROVE IInv'
  BY <1>2, <1>b, "copying" \in PutSteps
  DEF Mkstemp, PutSteps, Linked, Written, Staging
<1>3. ASSUME NEW c \in Puts, CopyChunk(c) PROVE IInv'
  <2>1. pc[c] \notin Written
    BY <1>3 DEF CopyChunk, Written, Linked
  <2>2. \A d \in Puts : d # c => copied'[d] = copied[d]
    BY <1>3 DEF CopyChunk, IInv, TypeOK
  <2>3. WrittenWhole'
    BY <1>3, <2>1, <2>2
    DEF CopyChunk, IInv, DirectoryInv, WrittenWhole, OnDisk, Whole
  <2>4. DirectoryInv'
    BY <1>3, <2>3
    DEF CopyChunk, IInv, DirectoryInv, EntryOwned, Exists, StagingOwned,
        RefusalJustified, Beaten, LinkedStays, RemovedFrom
  <2>5. LooksInv'
    BY <1>3, <1>a, LooksKept DEF CopyChunk, NamesVisible
  <2>6. QED
    BY <1>0, <2>4, <2>5 DEF IInv
<1>4. ASSUME NEW c \in Puts, Fsync(c) PROVE IInv'
  <2>1. /\ flushed' = [flushed EXCEPT ![c] = Size] /\ Whole(c)
        /\ pc[c] = "copying" /\ pc' = [pc EXCEPT ![c] = "synced"]
        /\ UNCHANGED <<entry, temp, copied, target, listing, answers>>
    BY <1>4 DEF Fsync, SourceRead, Synced, Whole
  <2> USE DEF IInv, DirectoryInv, TypeOK
  <2>2. /\ \A d \in Calls : d # c => pc'[d] = pc[d]
        /\ \A d \in Puts : d # c => flushed'[d] = flushed[d]
        /\ pc'[c] = "synced" /\ flushed'[c] = Size
    BY <2>1
  <2>3. \A d \in Puts : pc'[d] \in Linked <=> pc[d] \in Linked
    BY <2>1, <2>2 DEF Linked
  <2>4. EntryOwned'
    BY <2>1, <2>3 DEF EntryOwned, Exists
  <2>5. WrittenWhole'
    BY <2>1, <2>2 DEF WrittenWhole, OnDisk, Whole
  <2>6. StagingOwned'
    BY <2>1, <2>2 DEF StagingOwned, Staging
  <2>7. RefusalJustified'
    BY <2>1, <2>2, <2>3 DEF RefusalJustified, Beaten
  <2>8. LinkedStays'
    BY <2>1, <2>2, <2>3 DEF LinkedStays, RemovedFrom
  <2>9. LooksInv'
    BY <1>a, <2>1, <2>2, <2>3, LooksKept DEF NamesVisible
  <2>10. QED
    BY <1>0, <2>4, <2>5, <2>6, <2>7, <2>8, <2>9
<1>5. ASSUME NEW c \in Puts, Link(c), CanLink(c) PROVE IInv'
  <2>1. /\ entry' = [entry EXCEPT ![target[c]] = c]
        /\ entry[target[c]] = NoFile
        /\ pc' = [pc EXCEPT ![c] = "linked"]
        /\ pc[c] = "synced"
        /\ UNCHANGED <<temp, files, target, listing, answers, crashed>>
    BY <1>5 DEF Link, CanLink, Exists
  <2> USE DEF IInv, DirectoryInv, TypeOK
  <2>2. /\ \A d \in Calls : d # c => pc'[d] = pc[d]
        /\ pc'[c] = "linked"
    BY <2>1
  <2>3. \A d \in Puts : pc[d] \in Linked => pc'[d] \in Linked
    BY <2>2 DEF Linked
  <2>4. EntryOwned'
    BY <2>1, <2>2, <2>3, NamesDistinct DEF EntryOwned, Exists, Linked
  <2>5. WrittenWhole'
    BY <2>1, <2>2 DEF WrittenWhole, OnDisk, Whole, Written
  <2>6. StagingOwned'
    BY <2>1, <2>2 DEF StagingOwned, Staging
  <2>7. RefusalJustified'
    BY <2>1, <2>2, <2>3 DEF RefusalJustified, Beaten
  <2>8. LinkedStays'
    <3>1. \A k : RemovedFrom(k) => RemovedFrom(k)'
      BY <2>1, <2>2 DEF RemovedFrom
    <3>2. \A f \in Puts : entry[target[f]] = f => entry'[target[f]] = f
      BY <2>1, NamesDistinct
    <3>3. entry'[target[c]] = c
      BY <2>1
    <3>4. QED
      BY <2>1, <2>2, <3>1, <3>2, <3>3 DEF LinkedStays
  <2>9. LooksInv'
    BY <1>a, <2>1, <2>2, <2>3, LooksKept DEF NamesVisible
  <2>10. QED
    BY <1>0, <2>4, <2>5, <2>6, <2>7, <2>8, <2>9
<1>6. ASSUME NEW c \in Puts, Link(c), ~CanLink(c) PROVE IInv'
  <2>1. Beaten(c)
    BY <1>6
    DEF Link, CanLink, Exists, Beaten, IInv, DirectoryInv, EntryOwned, TypeOK,
        Linked
  <2>2. QED
    BY <1>6, <1>b, <2>1
    DEF Link, AfterRefusal, PutSteps, Linked, Written, Staging
<1>7. ASSUME NEW c \in Puts, UnlinkTemporary(c) PROVE IInv'
  <2>1. OnDisk(c)
    BY <1>7
    DEF UnlinkTemporary, IInv, DirectoryInv, WrittenWhole, Written, Linked
  <2>2. QED
    BY <1>7, <1>b, <2>1
    DEF UnlinkTemporary, PutSteps, Linked, Staging
<1>8. ASSUME NEW c \in Puts, Discard(c) PROVE IInv'
  <2>1. pc[c] \in Written => OnDisk(c)
    BY DEF IInv, DirectoryInv, WrittenWhole
  <2>2. pc[c] = "refused" => Beaten(c)
    BY DEF IInv, DirectoryInv, RefusalJustified
  <2>3. QED
    BY <1>8, <1>b, <2>1, <2>2
    DEF Discard, CleanedUp, AfterCleanup, AfterFailedCleanup, PutEnds,
        Littered, Linked, Written, Staging
<1>9. ASSUME NEW c \in Puts, DescribeSize(c) \/ DescribeTime(c) PROVE IInv'
  <2>1. OnDisk(c) /\ c \notin temp /\ target[c] \in Keys /\ c \notin Lists
    BY <1>9
    DEF DescribeSize, DescribeTime, IInv, DirectoryInv, WrittenWhole, Written,
        Linked, StagingOwned, Staging, Littered, TypeOK
  <2>2. PICK place \in {"measured", "created", "unreported"} :
          pc' = [pc EXCEPT ![c] = place]
    BY <1>9 DEF DescribeSize, DescribeTime, StatSize, StatTime
  <2>3. /\ place \in PutSteps \cup PutEnds
        /\ place \in Linked /\ pc[c] \in Linked
        /\ place \notin {"refused", "exists"}
    BY <1>9, <2>2 DEF DescribeSize, DescribeTime, PutSteps, PutEnds, Linked
  <2>4. UNCHANGED <<entry, files, target, listing, held, temp>>
    BY <1>9 DEF DescribeSize, DescribeTime
  <2>5. /\ DirectoryInv'
        /\ \A f \in Puts : pc[f] \in Linked => pc'[f] \in Linked
    BY <1>0, <2>1, <2>2, <2>3, <2>4, PutMove
  <2>6. CASE DescribeSize(c)
    <3>1. Subject(c)' = target[c]
      BY <2>1, <2>4 DEF Subject
    <3>2. LooksInv'
      BY <1>0, <1>a, <2>1, <2>4, <2>5, <2>6, <3>1, SizeLooks
      DEF DescribeSize, NamesVisible
    <3>3. QED
      BY <1>0, <2>5, <3>2 DEF IInv
  <2>7. CASE DescribeTime(c)
    <3>1. Subject(c) = target[c]
      BY <2>1 DEF Subject
    <3>2. LooksInv'
      BY <1>0, <2>4, <2>5, <2>7, <3>1, TimeLooks DEF DescribeTime
    <3>3. QED
      BY <1>0, <2>5, <3>2 DEF IInv
  <2>8. QED
    BY <1>9, <2>6, <2>7
<1>10. ASSUME NEW c \in Puts, Fault(c) PROVE IInv'
  <2>1. pc[c] \in Written => OnDisk(c)
    BY DEF IInv, DirectoryInv, WrittenWhole
  <2>2. c \in temp => pc[c] \in Staging
    BY DEF IInv, DirectoryInv, StagingOwned
  <2>3. QED
    BY <1>10, <1>b, <2>1, <2>2
    DEF Fault, AfterFault, PutSteps, PutEnds, Littered, Linked, Written,
        Staging
<1>11. ASSUME NEW c \in Opens \cup Deletes, ExistingPath(c) PROVE IInv'
  BY <1>11, <1>a, <1>c DEF ExistingPath, IInv, TypeOK, NamesVisible
<1>12. ASSUME NEW o \in Opens, OpenFound(o) PROVE IInv'
  <2>1. /\ \A d \in Calls : d # o => pc'[d] = pc[d]
        /\ pc'[o] \in {"opened", "vanished"}
        /\ UNCHANGED <<entry, temp, files, target, listing, sized, described>>
        /\ \A p \in Opens : \A f \in held'[p] :
              f \in held[p] \/ \E k \in Keys : Exists(k) /\ f = entry[k]
    BY <1>12 DEF OpenFound, IInv, TypeOK
  <2>2. /\ DirectoryInv'
        /\ \A f \in Puts : pc[f] \in Linked => pc'[f] \in Linked
    BY <1>0, <2>1, OtherMove
  <2>3. \A f \in Puts : Seen(f)' => Seen(f) \/ pc[f] \in Linked
    BY <2>1 DEF Seen, IInv, DirectoryInv, EntryOwned
  <2>4. SeenLinked'
    BY <2>2, <2>3 DEF SeenLinked, IInv, LooksInv
  <2>5. MeasuredKey' /\ DescribedKey' /\ NamesVisible'
    BY <2>1, <2>2
    DEF IInv, LooksInv, MeasuredKey, DescribedKey, NamesVisible, Subject
  <2>6. QED
    BY <1>0, <2>2, <2>4, <2>5 DEF IInv, LooksInv
<1>13. ASSUME NEW o \in Opens, MeasureFound(o) \/ DateFound(o) PROVE IInv'
  <2>1. o \notin Lists /\ o \notin Puts /\ target[o] \in Keys
    BY DEF IInv, TypeOK
  <2>2. /\ \A d \in Calls : d # o => pc'[d] = pc[d]
        /\ UNCHANGED <<entry, temp, files, target, listing, held>>
    BY <1>13 DEF MeasureFound, DateFound, StatSize, StatTime, IInv, TypeOK
  <2>3. /\ DirectoryInv'
        /\ \A f \in Puts : pc[f] \in Linked => pc'[f] \in Linked
    BY <1>0, <2>1, <2>2, OtherMove
  <2>4. CASE MeasureFound(o)
    <3>1. Subject(o)' = target[o]
      BY <2>1, <2>2 DEF Subject
    <3>2. LooksInv'
      BY <1>0, <1>a, <2>1, <2>2, <2>3, <2>4, <3>1, SizeLooks
      DEF MeasureFound, NamesVisible
    <3>3. QED
      BY <1>0, <2>3, <3>2 DEF IInv
  <2>5. CASE DateFound(o)
    <3>1. Subject(o) = target[o]
      BY <2>1 DEF Subject
    <3>2. LooksInv'
      BY <1>0, <2>2, <2>3, <2>5, <3>1, TimeLooks DEF DateFound
    <3>3. QED
      BY <1>0, <2>3, <3>2 DEF IInv
  <2>6. QED
    BY <1>13, <2>4, <2>5
<1>14. ASSUME NEW d \in Deletes, UnlinkFound(d) PROVE IInv'
  <2>1. /\ \A c \in Calls : c # d => pc'[c] = pc[c]
        /\ pc[d] = "found" /\ pc'[d] \in {"deleted", "vanished"}
        /\ UNCHANGED <<temp, files, target, listing, answers>>
    BY <1>14 DEF UnlinkFound, AfterLostUnlink, IInv, TypeOK
  <2>2. \A k \in Keys : \/ entry'[k] = entry[k]
                        \/ entry'[k] = NoFile /\ RemovedFrom(k)'
    BY <1>14, <2>1 DEF UnlinkFound, RemovedFrom, IInv, TypeOK
  <2>3. QED
    BY <1>a, <1>c, <2>1, <2>2 DEF NamesVisible
<1>15. ASSUME NEW l \in Lists, ScanDirectory(l) PROVE IInv'
  <2>1. \A m \in Lists : names'[m] \subseteq Keys
    BY <1>15, <1>a
    DEF ScanDirectory, Directory, Hidden, IInv, TypeOK, NamesVisible
  <2>2. QED
    BY <1>15, <1>c, <2>1 DEF ScanDirectory, IInv, TypeOK
<1>16. ASSUME NEW l \in Lists, MeasureChild(l) \/ DateChild(l) PROVE IInv'
  <2>1. /\ \A d \in Calls : d # l => pc'[d] = pc[d]
        /\ UNCHANGED <<entry, temp, files, target, held>>
    BY <1>16 DEF MeasureChild, DateChild, StatSize, StatTime, IInv, TypeOK
  <2>2. /\ DirectoryInv'
        /\ \A f \in Puts : pc[f] \in Linked => pc'[f] \in Linked
    BY <1>0, <2>1, OtherMove
  <2>3. CASE MeasureChild(l)
    <3>1. PICK n \in names[l] :
            /\ StatSize(l, n, "vanished")
            /\ child' = [child EXCEPT ![l] = n]
            /\ names' = [names EXCEPT ![l] = @ \ {n}]
      BY <2>3 DEF MeasureChild
    <3>2. n \in Keys
      BY <1>a DEF NamesVisible
    <3>3. Subject(l)' = n /\ \A m \in Lists : m # l => child'[m] = child[m]
      BY <3>1 DEF Subject, IInv, TypeOK
    <3>4. \A m \in Lists : names'[m] \subseteq Keys
      BY <1>a, <3>1 DEF NamesVisible, IInv, TypeOK
    <3>5. UNCHANGED described
      BY <2>3 DEF MeasureChild
    <3>6. LooksInv'
      BY <1>0, <2>1, <2>2, <3>1, <3>2, <3>3, <3>4, <3>5, SizeLooks
    <3>7. QED
      BY <1>0, <2>2, <3>6 DEF IInv
  <2>4. CASE DateChild(l)
    <3>1. Subject(l) = child[l]
      BY DEF Subject
    <3>2. LooksInv'
      BY <1>0, <2>1, <2>2, <2>4, <3>1, TimeLooks DEF DateChild
    <3>3. QED
      BY <1>0, <2>2, <3>2 DEF IInv
  <2>5. QED
    BY <1>16, <2>3, <2>4
<1>17. ASSUME NEW l \in Lists, ReturnList(l) PROVE IInv'
  BY <1>17, <1>a, <1>c DEF ReturnList, IInv, TypeOK, NamesVisible
<1>18. ASSUME NEW c \in Puts, Crash(c) PROVE IInv'
  BY <1>18, <1>a, <1>c DEF Crash, NamesVisible
<1>19. CASE UNCHANGED vars
  BY <1>19, <1>a, <1>c DEF vars, NamesVisible
<1>20. QED
  BY <1>1, <1>2, <1>3, <1>4, <1>5, <1>6, <1>7, <1>8, <1>9, <1>10, <1>11,
     <1>12, <1>13, <1>14, <1>15, <1>16, <1>17, <1>18, <1>19
  DEF Next, Step, PutStream, OpenOrStat, List, Delete

LEMMA Invariance == Spec => []IInv
  BY IInvInit, IInvStep, PTL DEF Spec

-----------------------------------------------------------------------------
(* Nobody ever sees a partial file: os.link is only reached after the      *)
(* whole source was copied, and only linked files can be named, opened or  *)
(* listed.                                                                 *)
THEOREM ObjectsComplete == Spec => []CompleteObjects
<1>1. IInv => CompleteObjects
  <2> SUFFICES ASSUME IInv PROVE CompleteObjects
    OBVIOUS
  <2> USE DEF IInv, TypeOK, DirectoryInv, LooksInv
  <2>1. \A f \in Puts : pc[f] \in Linked => Whole(f)
    BY DEF WrittenWhole, OnDisk, Written
  <2>2. \A k \in Keys : Exists(k) => Whole(entry[k])
    BY <2>1 DEF EntryOwned, Exists
  <2>3. \A o \in Opens : \A f \in held[o] : Whole(f)
    BY <2>1 DEF SeenLinked, Seen
  <2>4. \A c \in Describers : sized[c] # NoFile => Whole(sized[c])
    BY <2>1 DEF SeenLinked, Seen
  <2>5. \A c \in Describers :
           \A d \in described[c] : Whole(d[1]) /\ Whole(d[2])
    BY <2>1 DEF SeenLinked, Seen
  <2>6. QED
    BY <2>2, <2>3, <2>4, <2>5 DEF CompleteObjects
<1>2. QED
  BY <1>1, Invariance, PTL

(* A power failure at any moment leaves nothing under a key, or a whole    *)
(* file: whatever was ever linked had been synced in full, and nothing     *)
(* writes to it again.                                                     *)
THEOREM PowerFailuresLeaveWhole == Spec => []PowerFailureLeavesWhole
<1>1. IInv => PowerFailureLeavesWhole
  BY DEF IInv, DirectoryInv, WrittenWhole, OnDisk, PowerFailureLeavesWhole,
     LinkedPuts, Written
<1>2. QED
  BY <1>1, Invariance, PTL

(* A put that returned or raised left no temporary file, unless the        *)
(* removal itself raised.                                                  *)
THEOREM StagingAlwaysCleaned == Spec => []StagingCleaned
<1>1. IInv => StagingCleaned
  BY DEF IInv, TypeOK, DirectoryInv, StagingOwned, StagingCleaned, Ended,
     Ends, PutEnds, Littered, Staging
<1>2. QED
  BY <1>1, Invariance, PTL

(* "Already exists" is only answered to a put that another put beat. *)
THEOREM RefusalsJustified == Spec => []ExistsJustified
<1>1. IInv => ExistsJustified
  BY DEF IInv, DirectoryInv, RefusalJustified, ExistsJustified, Beaten,
     LinkedPuts
<1>2. QED
  BY <1>1, Invariance, PTL

(* Both looks of a description find a published file under one key, and a  *)
(* published file is still there unless a delete of its key succeeded: so  *)
(* without such a delete both found the same file, and a put's own.        *)
THEOREM DescriptionsOfOne == Spec => []DescribesOne
<1>1. IInv => DescribesOne
  <2> SUFFICES ASSUME IInv, NEW c \in Describers, NEW d \in described[c]
               PROVE  LET k == target[d[1]]
                      IN  /\ target[d[2]] = k
                          /\ d[1] = d[2] \/ RemovedFrom(k)
                          /\ c \in Puts => /\ k = target[c]
                                           /\ d = <<c, c>> \/ RemovedFrom(k)
    BY DEF DescribesOne
  <2> USE DEF IInv, TypeOK, DirectoryInv, LooksInv
  <2>1. /\ d[1] \in Puts /\ d[2] \in Puts
        /\ d = <<d[1], d[2]>>
    OBVIOUS
  <2>2. pc[d[1]] \in Linked /\ pc[d[2]] \in Linked
    BY <2>1 DEF SeenLinked, Seen
  <2>3. /\ target[d[1]] = target[d[2]]
        /\ c \in Puts => target[d[1]] = target[c] /\ pc[c] \in Linked
    BY DEF DescribedKey
  <2>4. QED
    BY <2>1, <2>2, <2>3 DEF LinkedStays
<1>2. QED
  BY <1>1, Invariance, PTL

-----------------------------------------------------------------------------
(* Counting objects.  FinitelyMany: only finitely many calls are made.     *)

FinitelyMany == IsFiniteSet(Puts) /\ IsFiniteSet(Deletes)

Removals(k) == {d \in Deletes : target[d] = k /\ pc[d] = "deleted"}

LEMMA CountsAreNat ==
  ASSUME FinitelyMany, NEW k
  PROVE  /\ IsFiniteSet(LinkedPuts(k)) /\ Cardinality(LinkedPuts(k)) \in Nat
         /\ IsFiniteSet(Removals(k)) /\ Cardinality(Removals(k)) \in Nat
<1>1. LinkedPuts(k) \in SUBSET Puts /\ Removals(k) \in SUBSET Deletes
  BY DEF LinkedPuts, Removals
<1>2. IsFiniteSet(LinkedPuts(k)) /\ IsFiniteSet(Removals(k))
  BY <1>1, FS_Subset DEF FinitelyMany
<1>3. QED
  BY <1>2, FS_CardinalityType

(* A step that publishes nothing and removes nothing keeps the balance. *)
LEMMA BalanceKept ==
  ASSUME OneDeletePerObject,
         UNCHANGED <<entry, target>>,
         \A c \in Puts : pc'[c] \in Linked <=> pc[c] \in Linked,
         \A d \in Deletes : pc'[d] = "deleted" <=> pc[d] = "deleted"
  PROVE  OneDeletePerObject'
<1>1. \A k : LinkedPuts(k)' = LinkedPuts(k)
  BY DEF LinkedPuts
<1>2. \A k : {d \in Deletes : target[d] = k /\ pc[d] = "deleted"}'
               = {d \in Deletes : target[d] = k /\ pc[d] = "deleted"}
  OBVIOUS
<1>3. \A k \in Keys : Exists(k)' <=> Exists(k)
  BY DEF Exists
<1>4. QED
  BY <1>1, <1>2, <1>3 DEF OneDeletePerObject

(* os.link adds one published object to a key that had none. *)
LEMMA BalanceLink ==
  ASSUME FinitelyMany, TypeOK, OneDeletePerObject,
         NEW c \in Puts, Link(c), CanLink(c)
  PROVE  OneDeletePerObject'
<1> USE CallsDisjoint DEF TypeOK, Keyed, Calls
<1>1. /\ ~Exists(target[c])
      /\ entry' = [entry EXCEPT ![target[c]] = c]
      /\ pc' = [pc EXCEPT ![c] = "linked"]
      /\ pc[c] = "synced"
      /\ target' = target
      /\ target[c] \in Keys
  BY DEF Link, CanLink, At, Goto
<1> SUFFICES ASSUME NEW k \in Keys
             PROVE  Cardinality(LinkedPuts(k)') =
                      Cardinality(Removals(k)') + (IF Exists(k)' THEN 1 ELSE 0)
  BY DEF OneDeletePerObject, Removals
<1>2. Cardinality(LinkedPuts(k)) =
        Cardinality(Removals(k)) + (IF Exists(k) THEN 1 ELSE 0)
  BY DEF OneDeletePerObject, Removals
<1>3. Removals(k)' = Removals(k)
  BY <1>1 DEF Removals
<1>4. CASE k = target[c]
  <2>1. LinkedPuts(k)' = LinkedPuts(k) \cup {c} /\ c \notin LinkedPuts(k)
    BY <1>1, <1>4 DEF LinkedPuts, Linked
  <2>2. Exists(k)' /\ ~Exists(k)
    BY <1>1, <1>4, NamesDistinct DEF Exists
  <2>3. Cardinality(LinkedPuts(k)') = Cardinality(LinkedPuts(k)) + 1
    <3>1. IsFiniteSet(LinkedPuts(k))
      BY CountsAreNat
    <3> HIDE DEF TypeOK
    <3>2. QED
      BY <2>1, <3>1, FS_AddElement
  <2>4. Cardinality(LinkedPuts(k)) = Cardinality(Removals(k))
    BY <1>2, <2>2, CountsAreNat
  <2>5. QED
    BY <1>3, <2>2, <2>3, <2>4
<1>5. CASE k # target[c]
  <2>1. LinkedPuts(k)' = LinkedPuts(k)
    BY <1>1, <1>5 DEF LinkedPuts
  <2>2. Exists(k)' <=> Exists(k)
    BY <1>1, <1>5 DEF Exists
  <2>3. QED
    BY <1>2, <1>3, <2>1, <2>2
<1>6. QED
  BY <1>4, <1>5

(* path.unlink removes one object and is counted by the delete it is in. *)
LEMMA BalanceUnlink ==
  ASSUME FinitelyMany, TypeOK, OneDeletePerObject,
         NEW d \in Deletes, UnlinkFound(d), Exists(target[d])
  PROVE  OneDeletePerObject'
<1> USE CallsDisjoint DEF TypeOK, Keyed, Calls
<1>1. /\ entry' = [entry EXCEPT ![target[d]] = NoFile]
      /\ pc' = [pc EXCEPT ![d] = "deleted"]
      /\ pc[d] = "found"
      /\ target' = target
      /\ target[d] \in Keys
  BY DEF UnlinkFound, At, Goto
<1> SUFFICES ASSUME NEW k \in Keys
             PROVE  Cardinality(LinkedPuts(k)') =
                      Cardinality(Removals(k)') + (IF Exists(k)' THEN 1 ELSE 0)
  BY DEF OneDeletePerObject, Removals
<1>2. Cardinality(LinkedPuts(k)) =
        Cardinality(Removals(k)) + (IF Exists(k) THEN 1 ELSE 0)
  BY DEF OneDeletePerObject, Removals
<1>3. LinkedPuts(k)' = LinkedPuts(k)
  BY <1>1 DEF LinkedPuts
<1>4. CASE k = target[d]
  <2>1. Removals(k)' = Removals(k) \cup {d} /\ d \notin Removals(k)
    BY <1>1, <1>4 DEF Removals
  <2>2. ~Exists(k)' /\ Exists(k)
    BY <1>1, <1>4 DEF Exists
  <2>3. Cardinality(Removals(k)') = Cardinality(Removals(k)) + 1
    <3>1. IsFiniteSet(Removals(k))
      BY CountsAreNat
    <3> HIDE DEF TypeOK
    <3>2. QED
      BY <2>1, <3>1, FS_AddElement
  <2>4. QED
    BY <1>2, <1>3, <2>2, <2>3, CountsAreNat
<1>5. CASE k # target[d]
  <2>1. Removals(k)' = Removals(k)
    BY <1>1, <1>5 DEF Removals
  <2>2. Exists(k)' <=> Exists(k)
    BY <1>1, <1>5 DEF Exists
  <2>3. QED
    BY <1>2, <1>3, <2>1, <2>2
<1>6. QED
  BY <1>4, <1>5

LEMMA BalanceStep ==
  ASSUME FinitelyMany
  PROVE  TypeOK /\ OneDeletePerObject /\ [Next]_vars => OneDeletePerObject'
<1> SUFFICES ASSUME TypeOK, OneDeletePerObject, [Next]_vars
             PROVE  OneDeletePerObject'
  OBVIOUS
<1> USE CallsDisjoint DEF TypeOK, Keyed, Calls, At, Goto
<1>1. ASSUME NEW c \in Puts, NEW place,
             pc' = [pc EXCEPT ![c] = place], UNCHANGED <<entry, target>>,
             place \in Linked <=> pc[c] \in Linked
      PROVE  OneDeletePerObject'
  BY <1>1, BalanceKept
<1>2. ASSUME NEW c \in Puts, PutStream(c) \/ Fault(c) PROVE OneDeletePerObject'
  <2>1. CASE EnsureAbsent(c)
    BY <1>1, <2>1 DEF EnsureAbsent, Linked
  <2>2. CASE Mkstemp(c)
    BY <1>1, <2>2 DEF Mkstemp, Linked
  <2>3. CASE CopyChunk(c)
    BY <2>3, BalanceKept DEF CopyChunk
  <2>4. CASE Fsync(c)
    BY <1>1, <2>4 DEF Fsync, Linked
  <2>5. CASE Link(c)
    <3>1. CASE CanLink(c)
      BY <2>5, <3>1, BalanceLink
    <3>2. CASE ~CanLink(c)
      BY <1>1, <2>5, <3>2 DEF Link, AfterRefusal, Linked
    <3>3. QED
      BY <3>1, <3>2
  <2>6. CASE UnlinkTemporary(c)
    BY <1>1, <2>6 DEF UnlinkTemporary, Linked
  <2>7. CASE Discard(c)
    BY <1>1, <2>7 DEF Discard, AfterCleanup, AfterFailedCleanup, Linked
  <2>8. CASE DescribeSize(c) \/ DescribeTime(c)
    BY <1>1, <2>8 DEF DescribeSize, DescribeTime, StatSize, StatTime, Linked
  <2>9. CASE Fault(c)
    BY <1>1, <2>9 DEF Fault, AfterFault, Linked
  <2>10. QED
    BY <1>2, <2>1, <2>2, <2>3, <2>4, <2>5, <2>6, <2>7, <2>8, <2>9
    DEF PutStream
<1>3. ASSUME NEW c \in Opens \cup Deletes, ExistingPath(c)
      PROVE  OneDeletePerObject'
  <2>1. pc[c] = "idle" /\ UNCHANGED <<entry, target>>
    BY <1>3 DEF ExistingPath
  <2>2. PICK place \in {"found", "missing"} : pc' = [pc EXCEPT ![c] = place]
    BY <1>3 DEF ExistingPath
  <2>3. \A p \in Puts : pc'[p] = pc[p]
    BY <2>2
  <2>4. \A d \in Deletes : pc'[d] = "deleted" <=> pc[d] = "deleted"
    BY <2>1, <2>2
  <2>5. QED
    BY <2>1, <2>3, <2>4, BalanceKept
<1>4. ASSUME NEW d \in Deletes, UnlinkFound(d) PROVE OneDeletePerObject'
  <2>1. CASE Exists(target[d])
    BY <1>4, <2>1, BalanceUnlink
  <2>2. CASE ~Exists(target[d])
    BY <1>4, <2>2, BalanceKept DEF UnlinkFound, AfterLostUnlink
  <2>3. QED
    BY <2>1, <2>2
<1>5. ASSUME NEW r \in Opens \cup Lists,
             \/ OpenFound(r) \/ MeasureFound(r) \/ DateFound(r)
             \/ List(r)
      PROVE  OneDeletePerObject'
  <2>1. /\ UNCHANGED <<entry, target>>
        /\ \E p : pc' \in {pc, [pc EXCEPT ![r] = p]}
    BY <1>5
    DEF OpenFound, MeasureFound, DateFound, List, ScanDirectory, MeasureChild,
        DateChild, ReturnList, StatSize, StatTime
  <2>2. QED
    BY <2>1, BalanceKept
<1>6. ASSUME NEW c \in Puts, Crash(c) PROVE OneDeletePerObject'
  BY <1>6, BalanceKept DEF Crash
<1>7. CASE UNCHANGED vars
  BY <1>7, BalanceKept DEF vars
<1>8. QED
  BY <1>2, <1>3, <1>4, <1>5, <1>6, <1>7
  DEF Next, Step, OpenOrStat, Delete

(* Objects are conserved: at any time a key's published objects are those  *)
(* that a delete claimed and the one that is there.  Two racing deletes    *)
(* never both report the removal of one object.                            *)
THEOREM ObjectsConserved ==
  ASSUME FinitelyMany
  PROVE  Spec => []OneDeletePerObject
<1>1. Init => OneDeletePerObject
  <2> SUFFICES ASSUME Init, NEW k \in Keys
               PROVE  Cardinality(LinkedPuts(k)) = Cardinality(Removals(k))
                        + (IF Exists(k) THEN 1 ELSE 0)
    BY DEF OneDeletePerObject, Removals
  <2>1. LinkedPuts(k) = {} /\ Removals(k) = {} /\ ~Exists(k)
    BY DEF Init, LinkedPuts, Removals, Exists, Linked, Calls, Keyed
  <2>2. QED
    BY <2>1, FS_EmptySet
<1>2. QED
  BY <1>1, BalanceStep, TypeCorrect, PTL DEF Spec

-----------------------------------------------------------------------------
(* No step re-points a key from one file to another: only os.link and      *)
(* unlink change the directory's keys, and os.link needs the name free.    *)
THEOREM NeverOverwrites == Spec => NoOverwrite
<1> DEFINE Kept == \A k \in Keys : Exists(k) => entry'[k] \in {entry[k], NoFile}
<1>1. TypeOK /\ [Next]_vars => Kept
  <2> SUFFICES ASSUME TypeOK, [Next]_vars PROVE Kept
    OBVIOUS
  <2>1. ASSUME NEW c \in Puts, Link(c) PROVE Kept
    BY <2>1 DEF Link, CanLink, Exists, TypeOK
  <2>2. ASSUME NEW d \in Deletes, UnlinkFound(d) PROVE Kept
    BY <2>2 DEF UnlinkFound, TypeOK
  <2>3. CASE UNCHANGED entry
    BY <2>3
  <2>4. UNCHANGED entry \/ (\E c \in Puts : Link(c))
                        \/ (\E d \in Deletes : UnlinkFound(d))
    BY DEF Next, Step, PutStream, OpenOrStat, List, Delete, EnsureAbsent,
       Mkstemp, CopyChunk, Fsync, UnlinkTemporary, Discard, DescribeSize,
       DescribeTime, Fault, ExistingPath, OpenFound, MeasureFound, DateFound,
       ScanDirectory, MeasureChild, DateChild, ReturnList, Crash, vars
  <2>5. QED
    BY <2>1, <2>2, <2>3, <2>4
<1>2. QED
  BY <1>1, TypeCorrect, PTL DEF Spec, NoOverwrite

-----------------------------------------------------------------------------
(* The refinement.  CallStatus is a case distinction on pc: what it is for *)
(* each kind of call, and how it moves when one call moves.                *)

LEMMA StatusAt ==
  ASSUME TypeOK, NEW c \in Calls
  PROVE  /\ c \notin Lists => CallStatus[c] = StatusOf[pc[c]]
         /\ c \in Lists =>
              CallStatus[c] = IF pc[c] = "vanished" THEN "failed"
                                                    ELSE StatusOf[pc[c]]
  BY DEF CallStatus

LEMMA StatusValues ==
  /\ StatusOf["idle"] = "pending"
  /\ StatusOf["absent"] = "pending"
  /\ StatusOf["copying"] = "pending"
  /\ StatusOf["synced"] = "pending"
  /\ StatusOf["aborting"] = "pending"
  /\ StatusOf["found"] = "pending"
  /\ StatusOf["scanned"] = "pending"
  /\ StatusOf["linked"] = "published"
  /\ StatusOf["unlinked"] = "published"
  /\ StatusOf["faulted"] = "published"
  /\ StatusOf["refused"] = "beaten"
  /\ StatusOf["exists"] = "exists"
  /\ StatusOf["vanished"] = "vanished"
  /\ StatusOf["missing"] = "missing"
  /\ StatusOf["created"] = "created"
  /\ StatusOf["failed"] = "failed"
  /\ StatusOf["unreported"] = "unreported"
  /\ StatusOf["littered"] = "failed"
  /\ StatusOf["unreportedLittered"] = "unreported"
  /\ StatusOf["measured"] = "measured"
  /\ StatusOf["opened"] = "opened"
  /\ StatusOf["described"] = "described"
  /\ StatusOf["listed"] = "listed"
  /\ StatusOf["deleted"] = "deleted"
  BY DEF StatusOf, Places, PutSteps, StillPending, Answers, Littered, Ends,
     PutEnds

LEMMA StatusMove ==
  ASSUME TypeOK, NEW c \in Calls, NEW p, NEW s,
         pc' = [pc EXCEPT ![c] = p], s = StatusOf[p],
         c \notin Lists \/ p # "vanished"
  PROVE  CallStatus' = [CallStatus EXCEPT ![c] = s]
<1>1. \A d \in Calls : pc'[d] = IF d = c THEN p ELSE pc[d]
  BY DEF TypeOK
<1>2. CallStatus' =
        [d \in Calls |-> IF d \in Lists /\ pc'[d] = "vanished" THEN "failed"
                                                             ELSE StatusOf[pc'[d]]]
  BY DEF CallStatus
<1>3. \A d \in Calls : CallStatus'[d] =
                         [CallStatus EXCEPT ![c] = s][d]
  BY <1>1, <1>2 DEF CallStatus
<1>4. QED
  BY <1>2, <1>3 DEF CallStatus

(* A move between two places with the same status does not show. *)
LEMMA StatusStays ==
  ASSUME TypeOK, NEW c \in Calls \ Lists, NEW p, pc' = [pc EXCEPT ![c] = p],
         StatusOf[p] = StatusOf[pc[c]]
  PROVE  CallStatus' = CallStatus
<1>1. CallStatus' = [CallStatus EXCEPT ![c] = CallStatus[c]]
  BY StatusMove, StatusAt
<1>2. QED
  BY <1>1 DEF CallStatus

(* A list call that loses a child fails. *)
LEMMA ListLost ==
  ASSUME TypeOK, NEW l \in Lists, pc' = [pc EXCEPT ![l] = "vanished"]
  PROVE  CallStatus' = [CallStatus EXCEPT ![l] = "failed"]
<1>1. \A c \in Calls : pc'[c] = IF c = l THEN "vanished" ELSE pc[c]
  BY DEF TypeOK
<1>2. CallStatus' =
        [d \in Calls |-> IF d \in Lists /\ pc'[d] = "vanished" THEN "failed"
                                                             ELSE StatusOf[pc'[d]]]
  BY DEF CallStatus
<1>3. \A d \in Calls : CallStatus'[d] = [CallStatus EXCEPT ![l] = "failed"][d]
  BY <1>1, <1>2 DEF CallStatus
<1>4. QED
  BY <1>2, <1>3 DEF CallStatus

(* What the two looks mean to the promise. *)
LEMMA SizeTaken ==
  ASSUME TypeOK, NEW c \in Describers, NEW k \in Keys, NEW lost,
         StatSize(c, k, lost), Exists(k),
         UNCHANGED <<entry, target, held, described>>
  PROVE  Store!TakeSize(c, k)
<1>1. FileOf(k) = entry[k] /\ entry[k] # NoFile
  BY DEF FileOf, Exists
<1>2. /\ pc' = [pc EXCEPT ![c] = "measured"]
      /\ sized' = [sized EXCEPT ![c] = entry[k]]
  BY <1>1 DEF StatSize, Goto
<1>3. CallStatus' = [CallStatus EXCEPT ![c] = "measured"]
  <2>1. c \in Calls /\ StatusOf["measured"] = "measured"
    BY StatusValues DEF Calls, Keyed, Describers
  <2>2. QED
    BY <1>2, <2>1, StatusMove
<1>4. QED
  BY <1>1, <1>2, <1>3 DEF Store!TakeSize, Store!Present, Store!Answer

LEMMA TimeTaken ==
  ASSUME TypeOK, NEW c \in Describers, NEW k \in Keys, NEW done, NEW lost,
         pc[c] = "measured", StatTime(c, k, done, lost), Exists(k),
         done # "vanished",
         UNCHANGED <<entry, target, held, sized>>
  PROVE  Store!TakeTime(c, k, StatusOf[done])
<1>1. FileOf(k) = entry[k] /\ entry[k] # NoFile
  BY DEF FileOf, Exists
<1>2. /\ pc' = [pc EXCEPT ![c] = done]
      /\ described' = [described EXCEPT ![c] = @ \cup {<<sized[c], entry[k]>>}]
  BY <1>1 DEF StatTime, Goto
<1>3. CallStatus' = [CallStatus EXCEPT ![c] = StatusOf[done]]
  BY <1>2, StatusMove DEF Calls, Keyed, Describers
<1>4. CallStatus[c] = "measured"
  BY StatusAt, StatusValues DEF Calls, Keyed, Describers
<1>5. QED
  BY <1>1, <1>2, <1>3, <1>4
  DEF Store!TakeTime, Store!Measured, Store!Present, Store!Answer

(* A look that finds nothing only moves the call. *)
LEMMA NotTaken ==
  ASSUME NEW c, NEW k \in Keys, NEW done, NEW lost, ~Exists(k),
         \/ StatSize(c, k, lost) /\ UNCHANGED described
         \/ StatTime(c, k, done, lost) /\ UNCHANGED sized
  PROVE  pc' = [pc EXCEPT ![c] = lost] /\ UNCHANGED <<sized, described>>
<1>1. FileOf(k) = NoFile
  BY DEF FileOf, Exists
<1>2. QED
  BY <1>1 DEF StatSize, StatTime, Goto

LEMMA StoreInit == Init => Store!Init
<1> SUFFICES ASSUME Init PROVE Store!Init
  OBVIOUS
<1>1. \A c \in Calls : pc[c] = "idle"
  BY DEF Init
<1>2. CallStatus = [c \in Calls |-> "pending"]
  BY <1>1, StatusValues DEF CallStatus
<1>3. QED
  BY <1>2 DEF Init, Store!Init, Store!Calls, Store!Keyed, Store!Describers,
     Calls, Keyed, Describers

LEMMA StoreStep == IInv /\ [Next]_vars => [Store!Next]_(Store!vars)
<1> SUFFICES ASSUME IInv, [Next]_vars PROVE Store!Next \/ UNCHANGED Store!vars
  OBVIOUS
<1>0. TypeOK
  BY DEF IInv
<1> USE <1>0, CallsDisjoint
    DEF At, Goto, Calls, Keyed, Exists, Store!Present, Store!Pending,
        Store!Answer, Store!vars, Store!answers
<1>1. ASSUME NEW c \in Puts, EnsureAbsent(c) PROVE Store!Next \/ UNCHANGED Store!vars
  <2>1. CallStatus[c] = "pending"
    BY <1>1, StatusAt, StatusValues DEF EnsureAbsent
  <2>2. CASE Exists(target[c])
    <3>1. CallStatus' = [CallStatus EXCEPT ![c] = "exists"]
      <4>1. pc' = [pc EXCEPT ![c] = "exists"]
        BY <1>1, <2>2 DEF EnsureAbsent, Occupied
      <4>2. c \in Calls /\ StatusOf["exists"] = "exists"
        BY StatusValues
      <4>3. QED
        BY <4>1, <4>2, StatusMove
    <3>2. Store!Refuse(c)
      BY <1>1, <2>1, <2>2, <3>1 DEF EnsureAbsent, Store!Refuse
    <3>3. QED
      BY <3>2 DEF Store!Next, Store!PutStep
  <2>3. CASE ~Exists(target[c])
    BY <1>1, <2>3, StatusStays, StatusValues DEF EnsureAbsent, Occupied
  <2>4. QED
    BY <2>2, <2>3
<1>2. ASSUME NEW c \in Puts, Mkstemp(c) PROVE UNCHANGED Store!vars
  BY <1>2, StatusStays, StatusValues DEF Mkstemp
<1>3. ASSUME NEW c \in Puts, CopyChunk(c) PROVE UNCHANGED Store!vars
  BY <1>3 DEF CopyChunk, CallStatus
<1>4. ASSUME NEW c \in Puts, Fsync(c) PROVE UNCHANGED Store!vars
  BY <1>4, StatusStays, StatusValues DEF Fsync
<1>5. ASSUME NEW c \in Puts, Link(c) PROVE Store!Next \/ UNCHANGED Store!vars
  <2>1. CallStatus[c] = "pending"
    BY <1>5, StatusAt, StatusValues DEF Link
  <2>2. CASE CanLink(c)
    <3>1. CallStatus' = [CallStatus EXCEPT ![c] = "published"]
      <4>1. pc' = [pc EXCEPT ![c] = "linked"]
        BY <1>5, <2>2 DEF Link
      <4>2. c \in Calls /\ StatusOf["linked"] = "published"
        BY StatusValues
      <4>3. QED
        BY <4>1, <4>2, StatusMove
    <3>2. Store!Publish(c)
      BY <1>5, <2>1, <2>2, <3>1 DEF Link, CanLink, Store!Publish
    <3>3. QED
      BY <3>2 DEF Store!Next, Store!PutStep
  <2>3. CASE ~CanLink(c)
    <3>1. CallStatus' = [CallStatus EXCEPT ![c] = "beaten"]
      <4>1. pc' = [pc EXCEPT ![c] = "refused"]
        BY <1>5, <2>3 DEF Link, AfterRefusal
      <4>2. c \in Calls /\ StatusOf["refused"] = "beaten"
        BY StatusValues
      <4>3. QED
        BY <4>1, <4>2, StatusMove
    <3>2. Store!Refuse(c)
      BY <1>5, <2>1, <2>3, <3>1 DEF Link, CanLink, Store!Refuse
    <3>3. QED
      BY <3>2 DEF Store!Next, Store!PutStep
  <2>4. QED
    BY <2>2, <2>3
<1>6. ASSUME NEW c \in Puts, UnlinkTemporary(c) PROVE UNCHANGED Store!vars
  BY <1>6, StatusStays, StatusValues DEF UnlinkTemporary
<1>7. ASSUME NEW c \in Puts, Discard(c) PROVE Store!Next
  <2>0. PICK p \in {AfterCleanup(pc[c]), AfterFailedCleanup(pc[c])} :
          pc' = [pc EXCEPT ![c] = p]
    BY <1>7 DEF Discard
  <2>1. CallStatus' = [CallStatus EXCEPT ![c] = StatusOf[p]]
    BY <2>0, StatusMove
  <2>2. CASE pc[c] = "refused"
    <3>1. CallStatus[c] = "beaten"
      BY <2>2, StatusAt, StatusValues
    <3>2. StatusOf[p] \in {"exists", "failed"}
      BY <2>0, <2>2, StatusValues DEF AfterCleanup, AfterFailedCleanup
    <3>3. Store!Confirm(c)
      BY <1>7, <2>1, <3>1, <3>2 DEF Discard, Store!Confirm
    <3>4. QED
      BY <3>3 DEF Store!Next, Store!PutStep
  <2>3. CASE pc[c] = "aborting"
    <3>1. CallStatus[c] = "pending"
      BY <2>3, StatusAt, StatusValues
    <3>2. StatusOf[p] = "failed"
      BY <2>0, <2>3, StatusValues DEF AfterCleanup, AfterFailedCleanup
    <3>3. Store!Abandon(c)
      BY <1>7, <2>1, <3>1, <3>2 DEF Discard, Store!Abandon
    <3>4. QED
      BY <3>3 DEF Store!Next, Store!PutStep
  <2>4. CASE pc[c] = "faulted"
    <3>1. CallStatus[c] = "published"
      BY <2>4, StatusAt, StatusValues
    <3>2. StatusOf[p] = "unreported"
      BY <2>0, <2>4, StatusValues DEF AfterCleanup, AfterFailedCleanup
    <3>3. Store!Confirm(c)
      BY <1>7, <2>1, <3>1, <3>2 DEF Discard, Store!Confirm
    <3>4. QED
      BY <3>3 DEF Store!Next, Store!PutStep
  <2>5. QED
    BY <1>7, <2>2, <2>3, <2>4 DEF Discard
<1>8. ASSUME NEW c \in Puts, DescribeSize(c) \/ DescribeTime(c) PROVE Store!Next
  <2>0. target[c] \in Keys /\ c \in Describers /\ c \notin Lists
    BY DEF Describers, TypeOK
  <2>1. CallStatus[c] \in {"published", "measured"}
    BY <1>8, StatusAt, StatusValues DEF DescribeSize, DescribeTime
  <2>2. CASE DescribeSize(c) /\ Exists(target[c])
    <3>1. Store!TakeSize(c, target[c])
      BY <2>0, <2>2, SizeTaken DEF DescribeSize
    <3>2. CallStatus[c] = "published"
      BY <2>2, StatusAt, StatusValues DEF DescribeSize
    <3>3. QED
      BY <3>1, <3>2 DEF Store!MeasureStored, Store!Next, Store!PutStep
  <2>3. CASE DescribeTime(c) /\ Exists(target[c])
    <3>1. Store!TakeTime(c, target[c], StatusOf["created"])
      BY <2>0, <2>3, TimeTaken DEF DescribeTime
    <3>2. QED
      BY <3>1, StatusValues DEF Store!DateStored, Store!Next, Store!PutStep
  <2>4. CASE ~Exists(target[c])
    <3>1. /\ pc' = [pc EXCEPT ![c] = "unreported"]
          /\ UNCHANGED <<sized, described>>
      BY <1>8, <2>0, <2>4, NotTaken DEF DescribeSize, DescribeTime
    <3>2. CallStatus' = [CallStatus EXCEPT ![c] = "unreported"]
      <4>1. c \in Calls /\ StatusOf["unreported"] = "unreported"
        BY StatusValues
      <4>2. QED
        BY <3>1, <4>1, StatusMove
    <3>3. Store!Confirm(c)
      BY <1>8, <2>1, <3>1, <3>2 DEF DescribeSize, DescribeTime, Store!Confirm
    <3>4. QED
      BY <3>3 DEF Store!Next, Store!PutStep
  <2>5. QED
    BY <1>8, <2>2, <2>3, <2>4
<1>9. ASSUME NEW c \in Puts, Fault(c) PROVE Store!Next \/ UNCHANGED Store!vars
  <2>1. CASE pc[c] \in {"idle", "absent"}
    <3>1. CallStatus[c] = "pending"
      BY <2>1, StatusAt, StatusValues
    <3>2. CallStatus' = [CallStatus EXCEPT ![c] = "failed"]
      <4>1. pc' = [pc EXCEPT ![c] = "failed"]
        BY <1>9, <2>1 DEF Fault, AfterFault
      <4>2. c \in Calls /\ StatusOf["failed"] = "failed"
        BY StatusValues
      <4>3. QED
        BY <4>1, <4>2, StatusMove
    <3>3. Store!Abandon(c)
      BY <1>9, <3>1, <3>2 DEF Fault, Store!Abandon
    <3>4. QED
      BY <3>3 DEF Store!Next, Store!PutStep
  <2>2. CASE pc[c] \in {"copying", "synced", "linked"}
    <3>1. \/ pc[c] \in {"copying", "synced"} /\ pc' = [pc EXCEPT ![c] = "aborting"]
          \/ pc[c] = "linked" /\ pc' = [pc EXCEPT ![c] = "faulted"]
      BY <1>9, <2>2 DEF Fault, AfterFault
    <3>2. CallStatus' = CallStatus
      BY <3>1, StatusStays, StatusValues
    <3>3. QED
      BY <1>9, <3>2 DEF Fault
  <2>3. CASE pc[c] \in {"unlinked", "measured"}
    <3>1. CallStatus[c] \in {"published", "measured"}
      BY <2>3, StatusAt, StatusValues
    <3>2. CallStatus' = [CallStatus EXCEPT ![c] = "unreported"]
      <4>1. pc' = [pc EXCEPT ![c] = "unreported"]
        BY <1>9, <2>3 DEF Fault, AfterFault
      <4>2. c \in Calls /\ StatusOf["unreported"] = "unreported"
        BY StatusValues
      <4>3. QED
        BY <4>1, <4>2, StatusMove
    <3>3. Store!Confirm(c)
      BY <1>9, <3>1, <3>2 DEF Fault, Store!Confirm
    <3>4. QED
      BY <3>3 DEF Store!Next, Store!PutStep
  <2>4. QED
    BY <1>9, <2>1, <2>2, <2>3 DEF Fault
<1>10. ASSUME NEW c \in Opens \cup Deletes, ExistingPath(c)
       PROVE  Store!Next \/ UNCHANGED Store!vars
  <2>1. CallStatus[c] = "pending"
    BY <1>10, StatusAt, StatusValues DEF ExistingPath
  <2>2. CASE Exists(target[c])
    BY <1>10, <2>2, StatusStays, StatusValues DEF ExistingPath
  <2>3. CASE ~Exists(target[c])
    <3>1. CallStatus' = [CallStatus EXCEPT ![c] = "missing"]
      <4>1. pc' = [pc EXCEPT ![c] = "missing"]
        BY <1>10, <2>3 DEF ExistingPath
      <4>2. c \in Calls /\ StatusOf["missing"] = "missing"
        BY StatusValues
      <4>3. QED
        BY <4>1, <4>2, StatusMove
    <3>2. Store!Miss(c)
      BY <1>10, <2>1, <2>3, <3>1 DEF ExistingPath, Store!Miss
    <3>3. QED
      BY <3>2 DEF Store!Next
  <2>4. QED
    BY <2>2, <2>3
<1>11. ASSUME NEW o \in Opens, OpenFound(o) PROVE Store!Next
  <2>1. CallStatus[o] = "pending"
    BY <1>11, StatusAt, StatusValues DEF OpenFound
  <2>2. CASE Exists(target[o])
    <3>1. CallStatus' = [CallStatus EXCEPT ![o] = "opened"]
      <4>1. pc' = [pc EXCEPT ![o] = "opened"]
        BY <1>11, <2>2 DEF OpenFound
      <4>2. o \in Calls /\ StatusOf["opened"] = "opened"
        BY StatusValues
      <4>3. QED
        BY <4>1, <4>2, StatusMove
    <3>2. Store!Observe(o)
      BY <1>11, <2>1, <2>2, <3>1 DEF OpenFound, Store!Observe
    <3>3. QED
      BY <3>2 DEF Store!Next
  <2>3. CASE ~Exists(target[o])
    <3>1. CallStatus' = [CallStatus EXCEPT ![o] = "vanished"]
      <4>1. pc' = [pc EXCEPT ![o] = "vanished"]
        BY <1>11, <2>3 DEF OpenFound
      <4>2. o \in Calls /\ StatusOf["vanished"] = "vanished"
        BY StatusValues
      <4>3. QED
        BY <4>1, <4>2, StatusMove
    <3>2. Store!Miss(o)
      BY <1>11, <2>1, <2>3, <3>1 DEF OpenFound, Store!Miss
    <3>3. QED
      BY <3>2 DEF Store!Next
  <2>4. QED
    BY <2>2, <2>3
<1>12. ASSUME NEW o \in Opens, MeasureFound(o) \/ DateFound(o) PROVE Store!Next
  <2>0. target[o] \in Keys /\ o \in Describers /\ o \notin Lists
    BY DEF Describers, TypeOK
  <2>1. CASE MeasureFound(o) /\ Exists(target[o])
    <3>1. Store!TakeSize(o, target[o])
      BY <2>0, <2>1, SizeTaken DEF MeasureFound
    <3>2. CallStatus[o] = "pending"
      BY <2>1, StatusAt, StatusValues DEF MeasureFound
    <3>3. QED
      BY <3>1, <3>2 DEF Store!Measure, Store!Next
  <2>2. CASE DateFound(o) /\ Exists(target[o])
    <3>1. Store!TakeTime(o, target[o], StatusOf["described"])
      BY <2>0, <2>2, TimeTaken DEF DateFound
    <3>2. QED
      BY <3>1, StatusValues DEF Store!Date, Store!Next
  <2>3. CASE ~Exists(target[o])
    <3>1. /\ pc' = [pc EXCEPT ![o] = "vanished"]
          /\ UNCHANGED <<sized, described>>
      BY <1>12, <2>0, <2>3, NotTaken DEF MeasureFound, DateFound
    <3>2. CallStatus' = [CallStatus EXCEPT ![o] = "vanished"]
      <4>1. o \in Calls /\ StatusOf["vanished"] = "vanished"
        BY StatusValues
      <4>2. QED
        BY <2>0, <3>1, <4>1, StatusMove
    <3>3. CallStatus[o] \in {"pending", "measured"}
      BY <1>12, StatusAt, StatusValues DEF MeasureFound, DateFound
    <3>4. Store!Miss(o)
      BY <1>12, <2>3, <3>1, <3>2, <3>3
      DEF MeasureFound, DateFound, Store!Miss, Store!Measured
    <3>5. QED
      BY <3>4 DEF Store!Next
  <2>4. QED
    BY <1>12, <2>1, <2>2, <2>3
<1>13. ASSUME NEW d \in Deletes, UnlinkFound(d) PROVE Store!Next
  <2>1. CallStatus[d] = "pending"
    BY <1>13, StatusAt, StatusValues DEF UnlinkFound
  <2>2. CASE Exists(target[d])
    <3>1. CallStatus' = [CallStatus EXCEPT ![d] = "deleted"]
      <4>1. pc' = [pc EXCEPT ![d] = "deleted"]
        BY <1>13, <2>2 DEF UnlinkFound
      <4>2. d \in Calls /\ StatusOf["deleted"] = "deleted"
        BY StatusValues
      <4>3. QED
        BY <4>1, <4>2, StatusMove
    <3>2. Store!Remove(d)
      BY <1>13, <2>1, <2>2, <3>1 DEF UnlinkFound, Store!Remove
    <3>3. QED
      BY <3>2 DEF Store!Next
  <2>3. CASE ~Exists(target[d])
    <3>1. CallStatus' = [CallStatus EXCEPT ![d] = "vanished"]
      <4>1. pc' = [pc EXCEPT ![d] = "vanished"]
        BY <1>13, <2>3 DEF UnlinkFound, AfterLostUnlink
      <4>2. d \in Calls /\ StatusOf["vanished"] = "vanished"
        BY StatusValues
      <4>3. QED
        BY <4>1, <4>2, StatusMove
    <3>2. Store!Miss(d)
      BY <1>13, <2>1, <2>3, <3>1 DEF UnlinkFound, Store!Miss
    <3>3. QED
      BY <3>2 DEF Store!Next
  <2>4. QED
    BY <2>2, <2>3
<1>14. ASSUME NEW l \in Lists, ScanDirectory(l) PROVE UNCHANGED Store!vars
  <2>1. CallStatus' = [CallStatus EXCEPT ![l] = "pending"]
    <3>1. pc' = [pc EXCEPT ![l] = "scanned"]
      BY <1>14 DEF ScanDirectory
    <3>2. l \in Calls /\ StatusOf["scanned"] = "pending"
      BY StatusValues
    <3>3. QED
      BY <3>1, <3>2, StatusMove
  <2>2. CallStatus[l] = "pending"
    BY <1>14, StatusAt, StatusValues DEF ScanDirectory
  <2>3. CallStatus' = CallStatus
    BY <2>1, <2>2 DEF CallStatus
  <2>4. QED
    BY <1>14, <2>3 DEF ScanDirectory
<1>15. ASSUME NEW l \in Lists, MeasureChild(l) \/ DateChild(l) PROVE Store!Next
  <2>0. l \in Describers
    BY DEF Describers
  <2>1. CASE MeasureChild(l)
    <3>1. PICK k \in names[l] : StatSize(l, k, "vanished")
      BY <2>1 DEF MeasureChild
    <3>2. k \in Keys
      BY DEF IInv, LooksInv, NamesVisible
    <3>3. CallStatus[l] = "pending"
      BY <2>1, StatusAt, StatusValues DEF MeasureChild
    <3>4. CASE Exists(k)
      <4>1. Store!TakeSize(l, k)
        BY <2>0, <2>1, <3>1, <3>2, <3>4, SizeTaken DEF MeasureChild
      <4>2. QED
        BY <3>2, <3>3, <4>1 DEF Store!MeasureChild, Store!Next
    <3>5. CASE ~Exists(k)
      <4>1. /\ pc' = [pc EXCEPT ![l] = "vanished"]
            /\ UNCHANGED <<sized, described>>
        BY <2>1, <3>1, <3>2, <3>5, NotTaken DEF MeasureChild
      <4>2. Store!LoseChild(l)
        BY <2>1, <3>2, <3>3, <3>5, <4>1, ListLost
        DEF MeasureChild, Store!LoseChild
      <4>3. QED
        BY <4>2 DEF Store!Next
    <3>6. QED
      BY <3>4, <3>5
  <2>2. CASE DateChild(l)
    <3>1. child[l] \in Keys /\ target[sized[l]] = child[l]
      BY <2>0, <2>2 DEF DateChild, IInv, LooksInv, MeasuredKey, Subject
    <3>2. CallStatus[l] = "measured"
      BY <2>2, StatusAt, StatusValues DEF DateChild
    <3>3. CASE Exists(child[l])
      <4>1. Store!TakeTime(l, child[l], StatusOf["scanned"])
        BY <2>0, <2>2, <3>1, <3>3, TimeTaken DEF DateChild
      <4>2. QED
        BY <3>1, <4>1, StatusValues DEF Store!DateChild, Store!Next
    <3>4. CASE ~Exists(child[l])
      <4>1. /\ pc' = [pc EXCEPT ![l] = "vanished"]
            /\ UNCHANGED <<sized, described>>
        BY <2>2, <3>1, <3>4, NotTaken DEF DateChild
      <4>2. Store!LoseChild(l)
        BY <2>2, <3>1, <3>2, <3>4, <4>1, ListLost
        DEF DateChild, Store!LoseChild, Store!Measured
      <4>3. QED
        BY <4>2 DEF Store!Next
    <3>5. QED
      BY <3>3, <3>4
  <2>3. QED
    BY <1>15, <2>1, <2>2
<1>16. ASSUME NEW l \in Lists, ReturnList(l) PROVE Store!Next
  <2>1. CallStatus[l] = "pending"
    BY <1>16, StatusAt, StatusValues DEF ReturnList
  <2>2. CallStatus' = [CallStatus EXCEPT ![l] = "listed"]
    <3>1. pc' = [pc EXCEPT ![l] = "listed"]
      BY <1>16 DEF ReturnList
    <3>2. l \in Calls /\ StatusOf["listed"] = "listed"
      BY StatusValues
    <3>3. QED
      BY <3>1, <3>2, StatusMove
  <2>3. Store!Listed(l)
    BY <1>16, <2>1, <2>2 DEF ReturnList, Store!Listed
  <2>4. QED
    BY <2>3 DEF Store!Next
<1>17. ASSUME NEW c \in Puts, Crash(c) PROVE UNCHANGED Store!vars
  BY <1>17 DEF Crash, CallStatus
<1>18. CASE UNCHANGED vars
  BY <1>18 DEF vars, CallStatus
<1>19. QED
  BY <1>1, <1>2, <1>3, <1>4, <1>5, <1>6, <1>7, <1>8, <1>9, <1>10, <1>11,
     <1>12, <1>13, <1>14, <1>15, <1>16, <1>17, <1>18
  DEF Next, Step, PutStream, OpenOrStat, List, Delete

(* The system-call interleavings of the backend implement the one-step     *)
(* promise of ObjectStore: every step of any call is one ObjectStore step  *)
(* or invisible.                                                           *)
THEOREM BackendImplementsStore == Spec => Implements
<1>1. Spec => [](IInv)
  BY Invariance
<1>2. QED
  BY <1>1, StoreInit, StoreStep, PTL DEF Spec, Implements, Store!Spec

=============================================================================
