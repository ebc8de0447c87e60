----------------------------- MODULE BlobGcProofs -----------------------------
(***************************************************************************)
(* Theorems about BlobGc: for any objects, profiles, publishers and grace  *)
(* period, and any number of collectors.  Only the last theorem needs a    *)
(* single collector.                                                       *)
(***************************************************************************)
EXTENDS BlobGc, TLAPS

LEMMA TypeStep == TypeOK /\ [Next]_vars => TypeOK'
<1> SUFFICES ASSUME TypeOK, [Next]_vars PROVE TypeOK'
  OBVIOUS
<1> USE IdsAssumption, TimeAssumption
    DEF TypeOK, Times, storeVars, pubVars, gcVars, historyVars, PubGoto, GcGoto
<1>1. CASE Tick
  BY <1>1 DEF Tick
<1>2. ASSUME NEW p \in Publishers, Publish(p) PROVE TypeOK'
  <2>1. CASE CheckKey(p)
    BY <2>1 DEF CheckKey, PubPlaces
  <2>2. CASE Stage(p)
    BY <2>2 DEF Stage, PubPlaces
  <2>3. CASE LinkBlob(p)
    <3>1. want[p] \in Ids /\ stamp[p] \in Times
      OBVIOUS
    <3>2. mtime' \in [Ids -> Times \cup {Absent}]
      <4>1. mtime' = [mtime EXCEPT ![want[p]] = stamp[p]] \/ mtime' = mtime
        BY <2>3 DEF LinkBlob
      <4>2. mtime \in [Ids -> Times \cup {Absent}]
        OBVIOUS
      <4> HIDE DEF TypeOK, Times
      <4>3. QED
        BY <3>1, <4>1, <4>2
    <3>3. sound' \in [Ids -> BOOLEAN]
      <4>1. sound' = [sound EXCEPT ![want[p]] = TRUE] \/ sound' = sound
        BY <2>3 DEF LinkBlob
      <4>2. sound \in [Ids -> BOOLEAN]
        OBVIOUS
      <4> HIDE DEF TypeOK
      <4>3. QED
        BY <4>1, <4>2
    <3>4. fresh' \in [Publishers -> BOOLEAN]
      <4>1. fresh' = [fresh EXCEPT ![p] = TRUE] \/ fresh' = fresh
        BY <2>3 DEF LinkBlob
      <4>2. fresh \in [Publishers -> BOOLEAN]
        OBVIOUS
      <4> HIDE DEF TypeOK
      <4>3. QED
        BY <4>1, <4>2
    <3>5. pub' \in [Publishers -> PubPlaces]
      <4>1. \/ pub' = [pub EXCEPT ![p] = "linked"]
            \/ pub' = [pub EXCEPT ![p] = "verify"]
        BY <2>3 DEF LinkBlob
      <4>2. pub \in [Publishers -> PubPlaces]
        OBVIOUS
      <4> HIDE DEF TypeOK
      <4>3. QED
        BY <4>1, <4>2 DEF PubPlaces
    <3>6. UNCHANGED <<now, prefix, live, want, stamp, gc, refs, clock, bound,
                      todo, planned, cur, outcome, promised, settled, shared>>
      BY <2>3 DEF LinkBlob
    <3>7. QED
      BY <3>2, <3>3, <3>4, <3>5, <3>6
  <2>4. CASE DescribeBlob(p)
    BY <2>4 DEF DescribeBlob, PubPlaces
  <2>5. CASE VerifyExisting(p)
    BY <2>5 DEF VerifyExisting, PubPlaces
  <2>6. CASE PublishFails(p)
    BY <2>6 DEF PublishFails, PubPlaces
  <2>7. CASE Record(p)
    BY <2>7 DEF Record, PubPlaces
  <2>8. QED
    BY <1>2, <2>1, <2>2, <2>3, <2>4, <2>5, <2>6, <2>7 DEF Publish
<1>3. ASSUME NEW i \in Ids, Forget(i) PROVE TypeOK'
  BY <1>3 DEF Forget
<1>4. ASSUME NEW g \in Collectors, CollectForPlan(g) PROVE TypeOK'
  BY <1>4 DEF CollectForPlan, GcPlaces
<1>5. ASSUME NEW g \in Collectors, StartPlan(g) PROVE TypeOK'
  BY <1>5 DEF StartPlan, GcPlaces
<1>6. ASSUME NEW g \in Collectors, Plan(g) PROVE TypeOK'
  <2>1. ASSUME NEW r \in Profiles, WalkProfile(g, r) PROVE TypeOK'
    <3>1. bound' \in [Collectors -> SUBSET Profiles]
      BY <2>1 DEF WalkProfile
    <3>2. todo' \in [Collectors -> SUBSET Ids]
      <4> DEFINE its == {i \in Ids : ProfileOf[i] = r}
      <4>1. its \in SUBSET Ids
        OBVIOUS
      <4>2. todo' = todo \/ todo' = [todo EXCEPT ![g] = its]
        BY <2>1 DEF WalkProfile
      <4> HIDE DEF its
      <4>3. QED
        BY <4>1, <4>2
    <3>3. gc' \in [Collectors -> GcPlaces]
      BY <2>1 DEF WalkProfile, GcPlaces
    <3>4. QED
      BY <2>1, <3>1, <3>2, <3>3 DEF WalkProfile
  <2>2. ASSUME NEW i \in Ids, VisitObject(g, i) PROVE TypeOK'
    <3>1. IsCandidate(g, i) => mtime[i] \in Times
      BY DEF IsCandidate, Present
    <3>2. IsCandidate(g, i) =>
            [planned[g] EXCEPT ![i] = mtime[i]] \in [Ids -> Times \cup {Absent}]
      BY <3>1
    <3>3. planned' \in [Collectors -> [Ids -> Times \cup {Absent}]]
      <4>1. CASE IsCandidate(g, i)
        BY <2>2, <3>2, <4>1 DEF VisitObject
      <4>2. CASE ~IsCandidate(g, i)
        BY <2>2, <4>2 DEF VisitObject
      <4>3. QED
        BY <4>1, <4>2
    <3>4. todo' \in [Collectors -> SUBSET Ids]
      BY <2>2 DEF VisitObject
    <3>5. QED
      BY <2>2, <3>3, <3>4 DEF VisitObject
  <2>3. CASE FinishPlan(g)
    BY <2>3 DEF FinishPlan, GcPlaces
  <2>4. QED
    BY <1>6, <2>1, <2>2, <2>3 DEF Plan
<1>7. ASSUME NEW g \in Collectors, CollectForExecute(g) PROVE TypeOK'
  BY <1>7 DEF CollectForExecute, ExecuteRefs, GcPlaces
<1>8. ASSUME NEW g \in Collectors, StartExecute(g) PROVE TypeOK'
  BY <1>8 DEF StartExecute, Candidates, GcPlaces, Outcomes
<1>9. ASSUME NEW g \in Collectors, Execute(g) PROVE TypeOK'
  <2>1. ASSUME NEW i \in Ids, PassOver(g, i) PROVE TypeOK'
    BY <2>1 DEF PassOver, Reported, Remaining, Outcomes
  <2>2. ASSUME NEW i \in Ids, Approve(g, i) PROVE TypeOK'
    BY <2>2 DEF Approve, GcPlaces
  <2>3. CASE Delete(g)
    <3>1. PICK o \in {"deleted", "absent", "failed"} :
            /\ mtime' \in {mtime, [mtime EXCEPT ![cur[g]] = Absent]}
            /\ outcome' = [outcome EXCEPT ![g][cur[g]] = o]
      BY <2>3 DEF Delete, Reported
    <3>2. outcome' \in [Collectors -> [Ids -> Outcomes]]
      BY <3>1 DEF Outcomes
    <3>3. mtime' \in [Ids -> Times \cup {Absent}]
      BY <3>1
    <3>4. QED
      BY <2>3, <3>2, <3>3 DEF Delete, Remaining, GcPlaces
  <2>4. CASE FinishExecute(g)
    BY <2>4 DEF FinishExecute, GcPlaces
  <2>5. QED
    BY <1>9, <2>1, <2>2, <2>3, <2>4 DEF Execute
<1>10. ASSUME NEW g \in Collectors, Die(g) PROVE TypeOK'
  BY <1>10 DEF Die, GcPlaces
<1>11. CASE UNCHANGED vars
  BY <1>11 DEF vars
<1>12. QED
  BY <1>1, <1>2, <1>3, <1>4, <1>5, <1>6, <1>7, <1>8, <1>9, <1>10, <1>11
  DEF Next

LEMMA TypeInit == Init => TypeOK
  BY IdsAssumption, TimeAssumption
  DEF Init, TypeOK, Times, PubPlaces, GcPlaces, Outcomes, Present

(* Every variable keeps its type: publishers, collectors and the clock     *)
(* never leave their places, and an mtime is always a past tick or Absent. *)
THEOREM TypeCorrect == Spec => []TypeOK
  BY TypeInit, TypeStep, PTL DEF Spec

-----------------------------------------------------------------------------
(* Any number of collectors.                                               *)

(* Content is never damaged after the start, and every reference that a    *)
(* publisher returned was checked against the stored bytes.                *)
SoundInv ==
    /\ \A i \in live : sound[i]
    /\ \A p \in Publishers : pub[p] \in {"linked", "returned"} => sound[want[p]]

(* A settled reference is in the snapshot of everybody who is executing,   *)
(* and what is about to be deleted is not in the snapshot of its deleter.  *)
SettledInv ==
    /\ \A i \in settled : Present(i) /\ i \in live
    /\ \A i \in settled : \A g \in Collectors :
          gc[g] \in Executing => i \in refs[g]
    /\ \A g \in Collectors : gc[g] = "deleting" => cur[g] \notin refs[g]

LEMMA SoundStep == TypeOK /\ SoundInv /\ [Next]_vars => SoundInv'
<1> SUFFICES ASSUME TypeOK, SoundInv, [Next]_vars PROVE SoundInv'
  OBVIOUS
<1> USE IdsAssumption DEF TypeOK, SoundInv
<1>1. ASSUME NEW p \in Publishers, LinkBlob(p) PROVE SoundInv'
  <2>1. /\ \A i \in Ids : sound[i] => sound'[i]
        /\ \A q \in Publishers : q # p => pub'[q] = pub[q]
        /\ pub'[p] # "returned"
        /\ pub'[p] = "linked" => sound'[want[p]]
        /\ UNCHANGED <<live, want>>
    BY <1>1 DEF LinkBlob, PubGoto
  <2>2. QED
    BY <2>1
<1>2. ASSUME NEW p \in Publishers, Publish(p), ~LinkBlob(p) PROVE SoundInv'
  <2>1. UNCHANGED <<sound, want>>
    BY <1>2 DEF Publish, CheckKey, Stage, DescribeBlob, VerifyExisting,
       PublishFails, Record, storeVars, pubVars
  <2>2. \A q \in Publishers : q # p => pub'[q] = pub[q]
    BY <1>2 DEF Publish, CheckKey, Stage, DescribeBlob, VerifyExisting,
       PublishFails, Record, PubGoto
  <2>3. pub'[p] \in {"linked", "returned"} => sound[want[p]]
    BY <1>2 DEF Publish, CheckKey, Stage, DescribeBlob, VerifyExisting,
       PublishFails, Record, PubGoto, SameContent
  <2>4. \A i \in live' : sound[i]
    BY <1>2 DEF Publish, CheckKey, Stage, DescribeBlob, VerifyExisting,
       PublishFails, Record
  <2>5. QED
    BY <2>1, <2>2, <2>3, <2>4
<1>3. ASSUME NEW i \in Ids, Forget(i) PROVE SoundInv'
  BY <1>3 DEF Forget, storeVars, pubVars
<1>4. ASSUME UNCHANGED <<sound, live, pub, want>> PROVE SoundInv'
  BY <1>4
<1>5. \/ UNCHANGED <<sound, live, pub, want>>
      \/ \E p \in Publishers : Publish(p)
      \/ \E i \in Ids : Forget(i)
  BY DEF Next, Tick, CollectForPlan, StartPlan, Plan, WalkProfile, VisitObject,
     FinishPlan, CollectForExecute, StartExecute, Execute, PassOver, Approve,
     Delete, FinishExecute, Die, vars, storeVars, pubVars
<1>6. QED
  BY <1>1, <1>2, <1>3, <1>4, <1>5

(* Publishing onto an object whose bytes are not what its key says fails,  *)
(* and the deletions of any number of collectors do not change that: no    *)
(* live reference stands for wrong bytes.                                  *)
THEOREM ReferencesDenoteTheirDigest == Spec => []RefsDenoteTheirDigest
<1>1. Init => SoundInv
  BY DEF Init, SoundInv
<1>2. SoundInv => RefsDenoteTheirDigest
  BY DEF SoundInv, RefsDenoteTheirDigest
<1>3. QED
  BY <1>1, <1>2, SoundStep, TypeCorrect, PTL DEF Spec

(* Steps other than a publication's link and a delete leave every object   *)
(* as it is.                                                               *)
LEMMA ObjectsStay ==
  ASSUME [Next]_vars,
         ~\E p \in Publishers : LinkBlob(p),
         ~\E g \in Collectors : Delete(g)
  PROVE  UNCHANGED mtime
  BY DEF Next, Tick, Publish, CheckKey, Stage, DescribeBlob, VerifyExisting,
     PublishFails, Record, Forget, CollectForPlan, StartPlan, Plan, WalkProfile,
     VisitObject, FinishPlan, CollectForExecute, StartExecute, Execute,
     PassOver, Approve, FinishExecute, Die, vars, storeVars

(* Only an object with a CAS key ever passes the checks of execute.        *)
CurIsCas == \A g \in Collectors : gc[g] = "deleting" => cur[g] \in CasIds

LEMMA CurIsCasStep == TypeOK /\ CurIsCas /\ [Next]_vars => CurIsCas'
<1> SUFFICES ASSUME TypeOK, CurIsCas, [Next]_vars PROVE CurIsCas'
  OBVIOUS
<1> USE DEF TypeOK, CurIsCas, GcGoto
<1>1. ASSUME NEW g \in Collectors, NEW i \in Ids, Approve(g, i) PROVE CurIsCas'
  <2>1. i \in CasIds
    BY <1>1 DEF Approve, Skipped, IsCas
  <2>2. QED
    BY <1>1, <2>1 DEF Approve
<1>2. ASSUME NEW g \in Collectors, Delete(g) PROVE CurIsCas'
  BY <1>2 DEF Delete
<1>3. ASSUME UNCHANGED cur,
             \A h \in Collectors : gc'[h] = "deleting" => gc[h] = "deleting"
      PROVE  CurIsCas'
  BY <1>3
<1>4. \/ \E g \in Collectors : Delete(g)
      \/ \E g \in Collectors : \E i \in Ids : Approve(g, i)
      \/ /\ UNCHANGED cur
         /\ \A h \in Collectors : gc'[h] = "deleting" => gc[h] = "deleting"
  BY DEF Next, Tick, Publish, CheckKey, Stage, LinkBlob, DescribeBlob,
     VerifyExisting, PublishFails, Record, Forget, CollectForPlan, StartPlan,
     Plan, WalkProfile, VisitObject, FinishPlan, CollectForExecute,
     StartExecute, Execute, PassOver, FinishExecute, Die, vars, gcVars
<1>5. QED
  BY <1>1, <1>2, <1>3, <1>4

(* Objects that are no Blobs survive every plan of every collector.        *)
THEOREM OtherObjectsUntouched == Spec => OnlyCasObjectsRemoved
<1> DEFINE Kept == \A i \in Ids \ CasIds : mtime'[i] = mtime[i]
<1>1. Init => CurIsCas
  BY DEF Init, CurIsCas
<1>2. TypeOK /\ CurIsCas /\ [Next]_vars => Kept
  <2> SUFFICES ASSUME TypeOK, CurIsCas, [Next]_vars PROVE Kept
    OBVIOUS
  <2>1. ASSUME NEW p \in Publishers, LinkBlob(p) PROVE Kept
    BY <2>1 DEF LinkBlob, TypeOK
  <2>2. ASSUME NEW g \in Collectors, Delete(g) PROVE Kept
    BY <2>2 DEF Delete, CurIsCas, TypeOK
  <2>3. UNCHANGED mtime \/ (\E p \in Publishers : LinkBlob(p))
                         \/ (\E g \in Collectors : Delete(g))
    BY ObjectsStay
  <2>4. QED
    BY <2>1, <2>2, <2>3
<1>3. QED
  BY <1>1, <1>2, CurIsCasStep, TypeCorrect, PTL
  DEF Spec, OnlyCasObjectsRemoved

LEMMA SettledStep == TypeOK /\ SettledInv /\ [Next]_vars => SettledInv'
<1> SUFFICES ASSUME TypeOK, SettledInv, [Next]_vars PROVE SettledInv'
  OBVIOUS
<1> USE IdsAssumption, TimeAssumption
    DEF TypeOK, SettledInv, Executing, GcGoto, storeVars, pubVars, gcVars,
        historyVars, Times
<1>1. CASE Tick
  BY <1>1 DEF Tick, Present
<1>2. ASSUME NEW p \in Publishers, Publish(p) PROVE SettledInv'
  <2>1. CASE LinkBlob(p)
    <3>1. \A i \in Ids : Present(i) => Present(i)'
      BY <2>1 DEF LinkBlob, Present
    <3>2. QED
      BY <2>1, <3>1 DEF LinkBlob
  <2>2. CASE Record(p)
    BY <2>2 DEF Record, Quiet, Present
  <2>3. QED
    BY <1>2, <2>1, <2>2 DEF Publish, CheckKey, Stage, DescribeBlob,
       VerifyExisting, PublishFails, Present
<1>3. ASSUME NEW i \in Ids, Forget(i) PROVE SettledInv'
  BY <1>3 DEF Forget, Present
<1>4. ASSUME NEW g \in Collectors, CollectForPlan(g) PROVE SettledInv'
  BY <1>4 DEF CollectForPlan, Present
<1>5. ASSUME NEW g \in Collectors, StartPlan(g) PROVE SettledInv'
  BY <1>5 DEF StartPlan, Present
<1>6. ASSUME NEW g \in Collectors, Plan(g) PROVE SettledInv'
  <2>1. UNCHANGED <<mtime, live, settled, refs, cur>>
    BY <1>6 DEF Plan, WalkProfile, VisitObject, FinishPlan
  <2>2. \A h \in Collectors : gc'[h] \in Executing => gc'[h] = gc[h]
    BY <1>6 DEF Plan, WalkProfile, VisitObject, FinishPlan
  <2>3. QED
    BY <2>1, <2>2 DEF Present
<1>7. ASSUME NEW g \in Collectors, CollectForExecute(g) PROVE SettledInv'
  BY <1>7 DEF CollectForExecute, ExecuteRefs, Present
<1>8. ASSUME NEW g \in Collectors, StartExecute(g) PROVE SettledInv'
  BY <1>8 DEF StartExecute, Present
<1>9. ASSUME NEW g \in Collectors, Execute(g) PROVE SettledInv'
  <2>1. ASSUME NEW i \in Ids, PassOver(g, i) PROVE SettledInv'
    BY <2>1 DEF PassOver, Present
  <2>2. ASSUME NEW i \in Ids, Approve(g, i) PROVE SettledInv'
    <3>1. i \notin refs[g]
      BY <2>2 DEF Approve, Skipped, NowReferenced
    <3>2. QED
      BY <2>2, <3>1 DEF Approve, Present
  <2>3. CASE Delete(g)
    <3>1. cur[g] \notin settled
      BY <2>3 DEF Delete
    <3>2. \A i \in settled : Present(i)'
      BY <2>3, <3>1 DEF Delete, Present
    <3>3. QED
      BY <2>3, <3>2 DEF Delete
  <2>4. CASE FinishExecute(g)
    BY <2>4 DEF FinishExecute, Present
  <2>5. QED
    BY <1>9, <2>1, <2>2, <2>3, <2>4 DEF Execute
<1>10. ASSUME NEW g \in Collectors, Die(g) PROVE SettledInv'
  BY <1>10 DEF Die, Present
<1>11. CASE UNCHANGED vars
  BY <1>11 DEF vars, Present
<1>12. QED
  BY <1>1, <1>2, <1>3, <1>4, <1>5, <1>6, <1>7, <1>8, <1>9, <1>10, <1>11
  DEF Next

(* The second look at the references works: a reference recorded while     *)
(* nobody was executing a plan is safe from every plan, old or new, of any *)
(* number of collectors.                                                   *)
THEOREM SettledReferencesResolve == Spec => []SettledRefsResolve
<1>1. Init => SettledInv
  BY DEF Init, SettledInv
<1>2. SettledInv => SettledRefsResolve
  BY DEF SettledInv, SettledRefsResolve
<1>3. QED
  BY <1>1, <1>2, SettledStep, TypeCorrect, PTL DEF Spec

-----------------------------------------------------------------------------
(* The books of an execution: a candidate has an outcome exactly when the  *)
(* loop is past it, and the loop only ever has candidates ahead.           *)
Booked(g) ==
    /\ \A i \in Ids : i \in todo[g] => planned[g][i] # Absent
    /\ \A i \in Ids : outcome[g][i] # "none" <=>
                        planned[g][i] # Absent /\ i \notin todo[g]

AccountInv ==
    \A g \in Collectors :
        /\ gc[g] \in {"executing", "deleting", "done"} => Booked(g)
        /\ gc[g] = "deleting" => cur[g] \in todo[g]
        /\ gc[g] = "done" => todo[g] = {}

(* A step that leaves the books alone and starts or ends no loop. *)
LEMMA AccountKept ==
  ASSUME AccountInv, UNCHANGED <<planned, outcome, cur, todo>>,
         \A g \in Collectors :
            gc'[g] \in {gc[g], "collected", "planning", "planned", "raised",
                        "refreshed", "dead"}
  PROVE  AccountInv'
  BY DEF AccountInv, Booked

(* One candidate gets its outcome and leaves the loop. *)
LEMMA AccountOne ==
  ASSUME TypeOK, AccountInv, NEW g \in Collectors, NEW i \in todo[g],
         NEW o \in Outcomes \ {"none"},
         gc[g] \in {"executing", "deleting"},
         outcome' = [outcome EXCEPT ![g][i] = o],
         todo' = [todo EXCEPT ![g] = @ \ {i}],
         planned' = planned,
         gc' = [gc EXCEPT ![g] = "executing"],
         \A h \in Collectors : h # g => cur'[h] = cur[h]
  PROVE  AccountInv'
<1> USE DEF TypeOK
<1>1. i \in Ids /\ Booked(g)
  BY DEF AccountInv
<1>2. \A h \in Collectors : h # g =>
         /\ gc'[h] = gc[h]
         /\ outcome'[h] = outcome[h]
         /\ todo'[h] = todo[h]
  OBVIOUS
<1>3. /\ gc'[g] = "executing"
      /\ todo'[g] = todo[g] \ {i}
      /\ outcome'[g] = [outcome[g] EXCEPT ![i] = o]
  OBVIOUS
<1>4. outcome[g] \in [Ids -> Outcomes]
  OBVIOUS
<1>5. Booked(g)'
  BY <1>1, <1>3, <1>4 DEF Booked
<1>6. \A h \in Collectors : h # g => (Booked(h)' <=> Booked(h))
  BY <1>2 DEF Booked
<1>7. QED
  BY <1>2, <1>3, <1>5, <1>6 DEF AccountInv

LEMMA AccountStep == TypeOK /\ AccountInv /\ [Next]_vars => AccountInv'
<1> SUFFICES ASSUME TypeOK, AccountInv, [Next]_vars PROVE AccountInv'
  OBVIOUS
<1> USE DEF GcGoto, storeVars, pubVars, gcVars, historyVars
<1>1. CASE Tick
  BY <1>1, AccountKept DEF Tick
<1>2. ASSUME NEW p \in Publishers, Publish(p) PROVE AccountInv'
  BY <1>2, AccountKept
  DEF Publish, CheckKey, Stage, LinkBlob, DescribeBlob, VerifyExisting,
      PublishFails, Record
<1>3. ASSUME NEW i \in Ids, Forget(i) PROVE AccountInv'
  BY <1>3, AccountKept DEF Forget
<1>4. ASSUME NEW g \in Collectors,
             CollectForPlan(g) \/ StartPlan(g) \/ FinishPlan(g)
               \/ CollectForExecute(g) \/ Die(g)
      PROVE  AccountInv'
  <2>1. UNCHANGED <<planned, outcome, cur, todo>>
    BY <1>4 DEF CollectForPlan, StartPlan, FinishPlan, CollectForExecute, Die
  <2>2. PICK place \in {"collected", "planning", "planned", "refreshed",
                        "dead"} : gc' = [gc EXCEPT ![g] = place]
    BY <1>4 DEF CollectForPlan, StartPlan, FinishPlan, CollectForExecute, Die
  <2>3. \A h \in Collectors : gc'[h] \in {gc[h], place}
    BY <2>2 DEF TypeOK
  <2>4. QED
    BY <2>1, <2>3, AccountKept
<1>5. ASSUME NEW g \in Collectors, NEW r \in Profiles, WalkProfile(g, r)
      PROVE  AccountInv'
  <2>1. /\ gc[g] = "planning"
        /\ gc'[g] \in {"planning", "raised"}
        /\ \A h \in Collectors : h # g =>
              gc'[h] = gc[h] /\ todo'[h] = todo[h]
        /\ UNCHANGED <<planned, outcome, cur>>
    BY <1>5 DEF WalkProfile, TypeOK
  <2>2. QED
    BY <2>1 DEF AccountInv, Booked
<1>6. ASSUME NEW g \in Collectors, NEW i \in Ids, VisitObject(g, i)
      PROVE  AccountInv'
  <2>1. /\ gc[g] = "planning"
        /\ \A h \in Collectors : h # g =>
              planned'[h] = planned[h] /\ todo'[h] = todo[h]
        /\ UNCHANGED <<gc, outcome, cur>>
    BY <1>6 DEF VisitObject, TypeOK
  <2>2. QED
    BY <2>1 DEF AccountInv, Booked
<1>7. ASSUME NEW g \in Collectors, StartExecute(g) PROVE AccountInv'
  <2>1. /\ gc'[g] = "executing"
        /\ todo'[g] = Candidates(g)
        /\ outcome'[g] = [i \in Ids |-> "none"]
        /\ planned' = planned
        /\ \A h \in Collectors : h # g =>
              /\ gc'[h] = gc[h]
              /\ todo'[h] = todo[h]
              /\ outcome'[h] = outcome[h]
              /\ cur'[h] = cur[h]
    BY <1>7 DEF StartExecute, TypeOK
  <2>2. Booked(g)'
    BY <2>1 DEF Booked, Candidates
  <2>3. \A h \in Collectors : h # g => (Booked(h)' <=> Booked(h))
    BY <2>1 DEF Booked
  <2>4. QED
    BY <2>1, <2>2, <2>3 DEF AccountInv
<1>8. ASSUME NEW g \in Collectors, Execute(g) PROVE AccountInv'
  <2>1. ASSUME NEW i \in Ids, PassOver(g, i) PROVE AccountInv'
    <3>1. PICK o \in Outcomes \ {"none"} :
             outcome' = [outcome EXCEPT ![g][i] = o]
      BY <2>1 DEF PassOver, Reported, Outcomes
    <3>2. /\ gc[g] = "executing" /\ i \in todo[g]
          /\ todo' = [todo EXCEPT ![g] = @ \ {i}]
          /\ gc' = [gc EXCEPT ![g] = "executing"]
          /\ UNCHANGED <<planned, cur>>
      BY <2>1 DEF PassOver, Remaining, TypeOK
    <3>3. QED
      BY <3>1, <3>2, AccountOne
  <2>2. ASSUME NEW i \in Ids, Approve(g, i) PROVE AccountInv'
    <3>1. /\ gc[g] = "executing" /\ i \in todo[g]
          /\ gc'[g] = "deleting" /\ cur'[g] = i
          /\ \A h \in Collectors : h # g => gc'[h] = gc[h] /\ cur'[h] = cur[h]
          /\ UNCHANGED <<planned, outcome, todo>>
      BY <2>2 DEF Approve, TypeOK
    <3>2. QED
      BY <3>1 DEF AccountInv, Booked
  <2>3. CASE Delete(g)
    <3>1. PICK o \in Outcomes \ {"none"} :
             outcome' = [outcome EXCEPT ![g][cur[g]] = o]
      BY <2>3 DEF Delete, Reported, Outcomes
    <3>2. /\ gc[g] = "deleting"
          /\ todo' = [todo EXCEPT ![g] = @ \ {cur[g]}]
          /\ gc' = [gc EXCEPT ![g] = "executing"]
          /\ planned' = planned
          /\ \A h \in Collectors : h # g => cur'[h] = cur[h]
      BY <2>3 DEF Delete, Remaining, TypeOK
    <3>3. cur[g] \in todo[g]
      BY <3>2 DEF AccountInv
    <3>4. QED
      BY <3>1, <3>2, <3>3, AccountOne
  <2>4. CASE FinishExecute(g)
    <3>1. /\ gc[g] = "executing" /\ todo[g] = {}
          /\ gc'[g] = "done"
          /\ \A h \in Collectors : h # g => gc'[h] = gc[h]
          /\ UNCHANGED <<planned, outcome, todo, cur>>
      BY <2>4 DEF FinishExecute, TypeOK
    <3>2. QED
      BY <3>1 DEF AccountInv, Booked
  <2>5. QED
    BY <1>8, <2>1, <2>2, <2>3, <2>4 DEF Execute
<1>9. CASE UNCHANGED vars
  BY <1>9, AccountKept DEF vars
<1>10. QED
  BY <1>1, <1>2, <1>3, <1>4, <1>5, <1>6, <1>7, <1>8, <1>9 DEF Next, Plan

(* The report of a finished execution covers the plan, the whole plan and  *)
(* nothing else, however many collectors run and whatever fails: a         *)
(* candidate leaves the loop only with an outcome.                         *)
THEOREM CandidatesAccounted == Spec => []EveryCandidateAccounted
<1>1. Init => AccountInv
  BY DEF Init, AccountInv
<1>2. AccountInv => EveryCandidateAccounted
  BY DEF AccountInv, Booked, EveryCandidateAccounted, Candidates
<1>3. QED
  BY <1>1, <1>2, AccountStep, TypeCorrect, PTL DEF Spec

-----------------------------------------------------------------------------
(* The grace period, for objects that no two collectors shared.            *)

(* Time stamps are past, and what is planned was old when it was planned.  *)
AgesPast ==
    /\ \A p \in Publishers : stamp[p] <= now
    /\ \A g \in Collectors : clock[g] <= now
    /\ \A g \in Collectors : \A i \in Ids :
          planned[g][i] # Absent => planned[g][i] + Grace <= now

(* Within the grace period of its own write, a publisher's object is there. *)
FreshInv ==
    /\ \A p \in Publishers :
          pub[p] \in {"idle", "stage", "link", "verify"} => ~fresh[p]
    /\ \A p \in Publishers :
          /\ pub[p] \in {"linked", "returned"}
          /\ fresh[p]
          /\ InGrace(stamp[p])
          /\ want[p] \notin shared
          => mtime[want[p]] = stamp[p]

(* A collector that is alone in deleting an object still has before it     *)
(* what it checked: the planned object, unreferenced and old.              *)
DeletingInv ==
    \A g \in Collectors : gc[g] = "deleting" =>
        /\ cur[g] \in Ids \ refs[g]
        /\ cur[g] \notin shared =>
              /\ Present(cur[g])
              /\ mtime[cur[g]] = planned[g][cur[g]]
              /\ mtime[cur[g]] + Grace <= clock[g]

(* Collectors that are about to delete one object share it. *)
SharedInv ==
    \A g, h \in Collectors :
        /\ gc[g] = "deleting" /\ gc[h] = "deleting"
        /\ cur[g] = cur[h] /\ cur[g] \notin shared
        => g = h

(* If the plan names the very object a promised reference stands for, the  *)
(* second snapshot has that reference.                                     *)
PromisedInv ==
    /\ promised \subseteq live
    /\ \A i \in promised \ shared : Present(i)
    /\ \A i \in promised \ shared : \A g \in Collectors :
          gc[g] \in Executing /\ planned[g][i] = mtime[i] => i \in refs[g]

GraceInv ==
    TypeOK /\ AgesPast /\ FreshInv /\ DeletingInv /\ SharedInv /\ PromisedInv

LEMMA GraceInit == Init => GraceInv
<1> SUFFICES ASSUME Init PROVE GraceInv
  OBVIOUS
<1>1. TypeOK
  BY TypeInit
<1>2. QED
  BY <1>1, GraceAssumption
  DEF Init, GraceInv, AgesPast, FreshInv, DeletingInv, SharedInv,
      PromisedInv

LEMMA AgesStep == TypeOK /\ AgesPast /\ [Next]_vars => AgesPast'
<1> SUFFICES ASSUME TypeOK, AgesPast, [Next]_vars PROVE AgesPast'
  OBVIOUS
<1> USE IdsAssumption, TimeAssumption, GraceAssumption
    DEF TypeOK, AgesPast, Times, storeVars, pubVars, gcVars
<1>1. CASE Tick
  BY <1>1 DEF Tick
<1>2. ASSUME NEW p \in Publishers, Stage(p) PROVE AgesPast'
  BY <1>2 DEF Stage
<1>3. ASSUME NEW g \in Collectors,
             clock' = [clock EXCEPT ![g] = now],
             UNCHANGED <<now, stamp, planned>>
      PROVE  AgesPast'
  BY <1>3
<1>4. ASSUME NEW g \in Collectors, NEW i \in Ids, VisitObject(g, i)
      PROVE  AgesPast'
  <2>1. CASE IsCandidate(g, i)
    <3>1. mtime[i] \in Nat /\ mtime[i] + Grace <= now
      BY <2>1 DEF IsCandidate, Present, TooRecent
    <3>2. planned' = [planned EXCEPT ![g][i] = mtime[i]]
      BY <1>4, <2>1 DEF VisitObject
    <3>3. \A h \in Collectors : \A j \in Ids :
             planned'[h][j] = IF h = g /\ j = i THEN mtime[i] ELSE planned[h][j]
      BY <3>2
    <3>4. QED
      BY <1>4, <3>1, <3>3 DEF VisitObject
  <2>2. CASE ~IsCandidate(g, i)
    BY <1>4, <2>2 DEF VisitObject
  <2>3. QED
    BY <2>1, <2>2
<1>5. CASE UNCHANGED <<now, stamp, clock, planned>>
  BY <1>5
<1>6. \/ Tick
      \/ \E p \in Publishers : Stage(p)
      \/ \E g \in Collectors : /\ clock' = [clock EXCEPT ![g] = now]
                               /\ UNCHANGED <<now, stamp, planned>>
      \/ \E g \in Collectors : \E i \in Ids : VisitObject(g, i)
      \/ UNCHANGED <<now, stamp, clock, planned>>
  BY DEF Next, Publish, CheckKey, LinkBlob, DescribeBlob, VerifyExisting,
     PublishFails, Record, Forget, CollectForPlan, StartPlan, Plan, WalkProfile,
     FinishPlan, CollectForExecute, StartExecute, Execute, PassOver, Approve,
     Delete, FinishExecute, Die, vars
<1>7. QED
  BY <1>1, <1>2, <1>3, <1>4, <1>5, <1>6

(* What is shared stays so. *)
LEMMA SharedStays == [Next]_vars => shared \subseteq shared'
  BY DEF Next, Tick, Publish, CheckKey, Stage, LinkBlob, DescribeBlob,
     VerifyExisting, PublishFails, Record, Forget, CollectForPlan, StartPlan,
     Plan, WalkProfile, VisitObject, FinishPlan, CollectForExecute,
     StartExecute, Execute, PassOver, Approve, Delete, FinishExecute, Die,
     vars, historyVars

(* An unshared object that a delete removes is out of the grace period.    *)
LEMMA RemovedIsOld ==
  ASSUME GraceInv, NEW g \in Collectors, Delete(g), NEW i \in Ids,
         mtime'[i] # mtime[i], i \notin shared
  PROVE  i = cur[g] /\ mtime'[i] = Absent /\ ~InGrace(mtime[i])
<1> USE TimeAssumption, GraceAssumption DEF GraceInv, TypeOK, Times
<1>1. i = cur[g] /\ mtime'[i] = Absent
  BY DEF Delete
<1>2. gc[g] = "deleting"
  BY DEF Delete
<1>3. mtime[i] \in Nat /\ mtime[i] + Grace <= clock[g] /\ clock[g] <= now
  BY <1>1, <1>2 DEF DeletingInv, AgesPast, Present
<1>4. QED
  BY <1>1, <1>3 DEF InGrace

LEMMA FreshStep == GraceInv /\ [Next]_vars => FreshInv'
<1> SUFFICES ASSUME GraceInv, [Next]_vars PROVE FreshInv'
  OBVIOUS
<1> USE IdsAssumption, TimeAssumption DEF GraceInv, TypeOK, FreshInv, Times
<1>1. ASSUME NEW p \in Publishers, Publish(p) PROVE FreshInv'
  <2> USE DEF PubGoto, storeVars, pubVars
  <2>1. \A q \in Publishers :
           q # p => pub'[q] = pub[q] /\ fresh'[q] = fresh[q] /\ stamp'[q] = stamp[q]
    BY <1>1 DEF Publish, CheckKey, Stage, LinkBlob, DescribeBlob,
       VerifyExisting, PublishFails, Record
  <2>2. UNCHANGED <<now, want, shared>>
    BY <1>1 DEF Publish, CheckKey, Stage, LinkBlob, DescribeBlob,
       VerifyExisting, PublishFails, Record, historyVars
  <2>3. \A j \in Ids : Present(j) => mtime'[j] = mtime[j]
    BY <1>1 DEF Publish, CheckKey, Stage, LinkBlob, DescribeBlob,
       VerifyExisting, PublishFails, Record, Present
  <2>4. FreshInv /\ \A q \in Publishers : want[q] \in Ids /\ stamp[q] # Absent
    OBVIOUS
  <2>5. \A q \in Publishers : mtime[want[q]] = stamp[q] => Present(want[q])
    BY <2>4 DEF Present
  <2>6. CASE LinkBlob(p)
    <3>1. /\ pub'[p] \in {"linked", "verify"}
          /\ pub'[p] = "linked" => mtime'[want[p]] = stamp[p]
          /\ pub'[p] = "verify" => ~fresh'[p]
          /\ UNCHANGED stamp
      BY <2>6 DEF LinkBlob
    <3> HIDE DEF GraceInv, TypeOK, PubGoto, storeVars, pubVars
    <3>2. QED
      BY <2>1, <2>2, <2>3, <2>4, <2>5, <3>1 DEF InGrace
  <2>7. CASE Stage(p)
    <3>1. pub'[p] = "link" /\ ~fresh'[p]
      BY <2>7 DEF Stage
    <3> HIDE DEF GraceInv, TypeOK, PubGoto, storeVars, pubVars
    <3>2. QED
      BY <2>1, <2>2, <2>3, <2>4, <2>5, <3>1 DEF InGrace
  <2>8. CASE ~LinkBlob(p) /\ ~Stage(p)
    <3>1. /\ pub'[p] \in {"idle", "stage", "link", "verify"} => ~fresh'[p]
          /\ pub'[p] \in {"linked", "returned"} /\ fresh'[p] =>
               pub[p] \in {"linked", "returned"} /\ fresh[p]
          /\ UNCHANGED stamp
      BY <1>1, <2>8 DEF Publish, CheckKey, DescribeBlob, VerifyExisting,
         PublishFails, Record
    <3> HIDE DEF GraceInv, TypeOK, PubGoto, storeVars, pubVars
    <3>2. QED
      BY <2>1, <2>2, <2>3, <2>4, <2>5, <3>1 DEF InGrace
  <2>9. QED
    BY <2>6, <2>7, <2>8
<1>2. ASSUME NEW g \in Collectors, Delete(g) PROVE FreshInv'
  <2>1. UNCHANGED <<now, pub, want, stamp, fresh, shared>>
    BY <1>2 DEF Delete, pubVars, historyVars
  <2>2. \A j \in Ids \ shared : InGrace(mtime[j]) => mtime'[j] = mtime[j]
    BY <1>2, RemovedIsOld
  <2>3. QED
    BY <2>1, <2>2 DEF InGrace
<1>3. CASE Tick
  <2>1. \A p \in Publishers : InGrace(stamp[p])' => InGrace(stamp[p])
    BY <1>3, GraceAssumption DEF Tick, InGrace, pubVars
  <2>2. QED
    BY <1>3, <2>1 DEF Tick, storeVars, pubVars, historyVars
<1>4. CASE UNCHANGED <<now, mtime, pub, want, stamp, fresh>>
  BY <1>4, SharedStays DEF InGrace
<1>5. \/ \E p \in Publishers : Publish(p)
      \/ \E g \in Collectors : Delete(g)
      \/ Tick
      \/ UNCHANGED <<now, mtime, pub, want, stamp, fresh>>
  BY DEF Next, Forget, CollectForPlan, StartPlan, Plan, WalkProfile,
     VisitObject, FinishPlan, CollectForExecute, StartExecute, Execute,
     PassOver, Approve, FinishExecute, Die, vars, storeVars, pubVars
<1>6. QED
  BY <1>1, <1>2, <1>3, <1>4, <1>5

LEMMA DeletingStep == GraceInv /\ [Next]_vars => DeletingInv'
<1> SUFFICES ASSUME GraceInv, [Next]_vars PROVE DeletingInv'
  OBVIOUS
<1> USE IdsAssumption, TimeAssumption, SharedStays
    DEF GraceInv, TypeOK, DeletingInv, Times, GcGoto, Present
<1>1. ASSUME NEW p \in Publishers, LinkBlob(p) PROVE DeletingInv'
  <2>1. UNCHANGED <<gc, cur, refs, planned, clock>>
    BY <1>1 DEF LinkBlob, gcVars
  <2>2. \A j \in Ids : Present(j) => mtime'[j] = mtime[j]
    BY <1>1 DEF LinkBlob
  <2>3. QED
    BY <2>1, <2>2
<1>2. ASSUME NEW g \in Collectors, Delete(g) PROVE DeletingInv'
  <2>1. gc[g] = "deleting" /\ gc'[g] = "executing"
    BY <1>2 DEF Delete
  <2>2. UNCHANGED <<refs, planned, clock>>
    BY <1>2 DEF Delete
  <2>3. \A h \in Collectors : h # g => gc'[h] = gc[h] /\ cur'[h] = cur[h]
    BY <1>2 DEF Delete
  <2>4. \A j \in Ids : j # cur[g] => mtime'[j] = mtime[j]
    BY <1>2 DEF Delete
  <2>5. \A h \in Collectors :
           /\ gc'[h] = "deleting"
           /\ cur[h] \notin shared
           => mtime'[cur[h]] = mtime[cur[h]]
    BY <2>1, <2>3, <2>4 DEF SharedInv
  <2>6. QED
    BY <2>1, <2>2, <2>3, <2>5
<1>3. ASSUME NEW g \in Collectors, NEW i \in Ids, Approve(g, i) PROVE DeletingInv'
  <2>1. /\ i \notin refs[g]
        /\ mtime[i] # Absent
        /\ mtime[i] = planned[g][i]
        /\ ~TooRecent(mtime[i], clock[g])
    BY <1>3 DEF Approve, Skipped, NowReferenced, ObjectChanged
  <2>2. mtime[i] + Grace <= clock[g]
    BY <2>1, GraceAssumption DEF TooRecent
  <2>3. cur'[g] = i /\ UNCHANGED <<mtime, refs, planned, clock>>
    BY <1>3 DEF Approve, storeVars
  <2>4. \A h \in Collectors : h # g => gc'[h] = gc[h] /\ cur'[h] = cur[h]
    BY <1>3 DEF Approve
  <2>5. QED
    BY <2>1, <2>2, <2>3, <2>4
<1> DEFINE Leaves(g) ==
             /\ gc'[g] # "deleting"
             /\ \A h \in Collectors \ {g} :
                   /\ gc'[h] = gc[h] /\ cur'[h] = cur[h] /\ refs'[h] = refs[h]
                   /\ planned'[h] = planned[h] /\ clock'[h] = clock[h]
             /\ UNCHANGED mtime
<1>4. ASSUME NEW g \in Collectors, Leaves(g) PROVE DeletingInv'
  BY <1>4
<1>5. CASE UNCHANGED <<mtime, gc, cur, refs, planned, clock>>
  BY <1>5
<1>6. ASSUME NEW g \in Collectors,
             \/ CollectForPlan(g) \/ StartPlan(g) \/ Plan(g)
             \/ CollectForExecute(g) \/ StartExecute(g)
      PROVE  Leaves(g)
  <2> USE DEF storeVars
  <2>1. CASE CollectForPlan(g)
    BY <2>1 DEF CollectForPlan
  <2>2. CASE StartPlan(g)
    BY <2>2 DEF StartPlan
  <2>3. CASE Plan(g)
    BY <2>3 DEF Plan, WalkProfile, VisitObject, FinishPlan
  <2>4. CASE CollectForExecute(g)
    BY <2>4 DEF CollectForExecute
  <2>5. CASE StartExecute(g)
    BY <2>5 DEF StartExecute
  <2>6. QED
    BY <1>6, <2>1, <2>2, <2>3, <2>4, <2>5
<1>7. ASSUME NEW g \in Collectors,
             (Execute(g) /\ ~Delete(g) /\ ~\E i \in Ids : Approve(g, i)) \/ Die(g)
      PROVE  Leaves(g)
  BY <1>7 DEF Execute, PassOver, FinishExecute, Die, storeVars
<1>8. \/ \E p \in Publishers : LinkBlob(p)
      \/ \E g \in Collectors :
            \/ Delete(g) \/ \E i \in Ids : Approve(g, i)
            \/ CollectForPlan(g) \/ StartPlan(g) \/ Plan(g)
            \/ CollectForExecute(g) \/ StartExecute(g)
            \/ (Execute(g) /\ ~Delete(g) /\ ~\E i \in Ids : Approve(g, i))
            \/ Die(g)
      \/ UNCHANGED <<mtime, gc, cur, refs, planned, clock>>
  BY DEF Next, Tick, Publish, CheckKey, Stage, DescribeBlob, VerifyExisting,
     PublishFails, Record, Forget, vars, storeVars, gcVars
<1> HIDE DEF Leaves, GraceInv, TypeOK, DeletingInv
<1>9. QED
  BY <1>1, <1>2, <1>3, <1>4, <1>5, <1>6, <1>7, <1>8

(* Whoever approves an object that another is deleting makes it shared.    *)
LEMMA SharedStep == GraceInv /\ [Next]_vars => SharedInv'
<1> SUFFICES ASSUME GraceInv, [Next]_vars PROVE SharedInv'
  OBVIOUS
<1> USE SharedStays DEF GraceInv, TypeOK, SharedInv, GcGoto
<1>1. ASSUME NEW g \in Collectors, NEW i \in Ids, Approve(g, i) PROVE SharedInv'
  <2>1. cur'[g] = i
    BY <1>1 DEF Approve
  <2>2. \A h \in Collectors : h # g => gc'[h] = gc[h] /\ cur'[h] = cur[h]
    BY <1>1 DEF Approve
  <2>3. \A h \in Collectors : gc[h] = "deleting" /\ cur[h] = i => i \in shared'
    BY <1>1 DEF Approve
  <2>4. QED
    BY <2>1, <2>2, <2>3
<1>2. ASSUME \A g \in Collectors : gc'[g] = "deleting" =>
                gc[g] = "deleting" /\ cur'[g] = cur[g]
      PROVE  SharedInv'
  BY <1>2
<1>3. \/ \E g \in Collectors : \E i \in Ids : Approve(g, i)
      \/ \A g \in Collectors : gc'[g] = "deleting" =>
            gc[g] = "deleting" /\ cur'[g] = cur[g]
  BY DEF Next, Tick, Publish, CheckKey, Stage, LinkBlob, DescribeBlob,
     VerifyExisting, PublishFails, Record, Forget, CollectForPlan, StartPlan,
     Plan, WalkProfile, VisitObject, FinishPlan, CollectForExecute,
     StartExecute, Execute, PassOver, Delete, FinishExecute, Die, vars, gcVars
<1>4. QED
  BY <1>1, <1>2, <1>3

LEMMA PromisedStep == GraceInv /\ [Next]_vars => PromisedInv'
<1> SUFFICES ASSUME GraceInv, [Next]_vars PROVE PromisedInv'
  OBVIOUS
<1> USE IdsAssumption, TimeAssumption, SharedStays
    DEF GraceInv, TypeOK, PromisedInv, Executing, Times, GcGoto
<1>1. ASSUME NEW p \in Publishers, Record(p) PROVE PromisedInv'
  <2>1. /\ UNCHANGED <<mtime, gc, planned, refs, shared>>
        /\ live' = live \cup {want[p]}
        /\ promised' \in {promised, promised \cup {want[p]}}
    BY <1>1 DEF Record, storeVars, gcVars
  <2>2. CASE fresh[p] /\ InGrace(stamp[p]) /\ want[p] \notin shared
    <3>1. mtime[want[p]] = stamp[p]
      BY <1>1, <2>2 DEF Record, FreshInv
    <3>2. stamp[p] \in Nat /\ now < stamp[p] + Grace
      BY <2>2, GraceAssumption DEF InGrace
    <3>3. \A g \in Collectors : planned[g][want[p]] # mtime[want[p]]
      BY <3>1, <3>2, GraceAssumption DEF AgesPast
    <3>4. Present(want[p])
      BY <3>1, <3>2 DEF Present
    <3>5. QED
      BY <2>1, <3>3, <3>4 DEF Present
  <2>3. CASE ~(fresh[p] /\ InGrace(stamp[p])) \/ want[p] \in shared
    BY <1>1, <2>1, <2>3 DEF Record, Present
  <2>4. QED
    BY <2>2, <2>3
<1>2. ASSUME NEW i \in Ids, Forget(i) PROVE PromisedInv'
  BY <1>2 DEF Forget, storeVars, gcVars, Present
<1>3. ASSUME NEW p \in Publishers, LinkBlob(p) PROVE PromisedInv'
  <2>1. \A j \in Ids : Present(j) => mtime'[j] = mtime[j]
    BY <1>3 DEF LinkBlob, Present
  <2>2. QED
    BY <1>3, <2>1 DEF LinkBlob, gcVars, historyVars, Present
<1>4. ASSUME NEW g \in Collectors, Delete(g) PROVE PromisedInv'
  <2>1. gc[g] = "deleting" /\ cur[g] \notin refs[g]
    BY <1>4 DEF Delete, DeletingInv
  <2>2. cur[g] \notin promised \ shared
    BY <2>1 DEF DeletingInv
  <2>3. \A j \in promised \ shared : mtime'[j] = mtime[j]
    BY <1>4, <2>2, RemovedIsOld
  <2>4. /\ UNCHANGED <<live, promised, planned, refs, shared>>
        /\ \A h \in Collectors : gc'[h] \in Executing => gc[h] \in Executing
    BY <1>4 DEF Delete, historyVars
  <2>5. QED
    BY <2>3, <2>4 DEF Present
<1>5. ASSUME NEW g \in Collectors, CollectForExecute(g) PROVE PromisedInv'
  BY <1>5 DEF CollectForExecute, ExecuteRefs, storeVars, historyVars, Present
<1>6. ASSUME NEW g \in Collectors, gc'[g] \notin Executing,
             \A h \in Collectors : h # g => gc'[h] = gc[h] /\ refs'[h] = refs[h]
                                            /\ planned'[h] = planned[h],
             UNCHANGED <<mtime, live, promised>>
      PROVE  PromisedInv'
  BY <1>6 DEF Present
<1>7. ASSUME UNCHANGED <<mtime, live, promised, refs, planned>>,
             \A h \in Collectors : gc'[h] \in Executing => gc[h] \in Executing
      PROVE  PromisedInv'
  BY <1>7 DEF Present
<1> DEFINE Outside(g) ==
             /\ gc'[g] \notin Executing
             /\ \A h \in Collectors : h # g => gc'[h] = gc[h] /\ refs'[h] = refs[h]
                                               /\ planned'[h] = planned[h]
             /\ UNCHANGED <<mtime, live, promised>>
           Inside ==
             /\ UNCHANGED <<mtime, live, promised, refs, planned>>
             /\ \A h \in Collectors : gc'[h] \in Executing => gc[h] \in Executing
<1> USE DEF storeVars, pubVars, gcVars, historyVars
<1>8. ASSUME NEW g \in Collectors,
             CollectForPlan(g) \/ StartPlan(g) \/ Plan(g)
      PROVE  Outside(g)
  <2>1. CASE CollectForPlan(g)
    BY <2>1 DEF CollectForPlan
  <2>2. CASE StartPlan(g)
    BY <2>2 DEF StartPlan
  <2>3. CASE Plan(g)
    BY <2>3 DEF Plan, WalkProfile, VisitObject, FinishPlan
  <2>4. QED
    BY <1>8, <2>1, <2>2, <2>3
<1>9. ASSUME NEW g \in Collectors,
             StartExecute(g) \/ (Execute(g) /\ ~Delete(g)) \/ Die(g)
      PROVE  Inside
  BY <1>9 DEF StartExecute, Execute, PassOver, Approve, FinishExecute, Die
<1>10. ASSUME NEW p \in Publishers, Publish(p), ~Record(p), ~LinkBlob(p)
       PROVE  Inside
  BY <1>10 DEF Publish, CheckKey, Stage, DescribeBlob, VerifyExisting,
     PublishFails
<1>11. ASSUME Tick \/ UNCHANGED vars PROVE Inside
  BY <1>11 DEF Tick, vars
<1> HIDE DEF storeVars, pubVars, gcVars, historyVars
<1>12. QED
  BY <1>1, <1>2, <1>3, <1>4, <1>5, <1>6, <1>7, <1>8, <1>9, <1>10, <1>11
  DEF Next, Publish, Execute

LEMMA GraceStep == GraceInv /\ [Next]_vars => GraceInv'
  BY TypeStep, AgesStep, FreshStep, DeletingStep, SharedStep, PromisedStep
  DEF GraceInv

LEMMA GraceInvariance == Spec => []GraceInv
  BY GraceInit, GraceStep, PTL DEF Spec

(* With any number of collectors, a reference recorded within the grace    *)
(* period of the write it came from resolves until it is dropped, even if  *)
(* it is recorded in the middle of an execution, as long as no two         *)
(* collectors were about to delete its object at one time: a plan is at    *)
(* least a grace period older than any file it can name, so the second     *)
(* snapshot came later.                                                    *)
THEOREM FreshReferencesResolve == Spec => []FreshRefsResolve
<1>1. GraceInv => FreshRefsResolve
  BY DEF GraceInv, PromisedInv, FreshRefsResolve
<1>2. QED
  BY <1>1, GraceInvariance, PTL

LEMMA UnsharedAged ==
  ASSUME GraceInv, [Next]_vars, NEW i \in Ids \ shared
  PROVE  Aged(i)
<1> SUFFICES ASSUME Present(i), mtime'[i] = Absent PROVE ~InGrace(mtime[i])
  BY DEF Aged
<1>1. CASE \E g \in Collectors : Delete(g)
  BY <1>1, RemovedIsOld DEF Present
<1>2. CASE \E p \in Publishers : LinkBlob(p)
  BY <1>2, IdsAssumption, TimeAssumption
  DEF LinkBlob, Present, GraceInv, TypeOK, Times
<1>3. QED
  BY <1>1, <1>2, ObjectsStay DEF Present

(* No object younger than the grace period is removed, unless two          *)
(* collectors were about to delete it at one time.                         *)
THEOREM GraceIsKept == Spec => GraceProtectsUnshared
<1>1. GraceInv /\ [Next]_vars => [\A i \in Ids \ shared : Aged(i)]_vars
  BY UnsharedAged
<1>2. QED
  BY <1>1, GraceInvariance, PTL DEF Spec, GraceProtectsUnshared

-----------------------------------------------------------------------------
(* One collector shares nothing: the documented grace period holds.        *)

OneCollectorOnly == \A g, h \in Collectors : g = h

LEMMA NothingShared ==
  ASSUME OneCollectorOnly
  PROVE  Spec => [](shared = {})
<1>1. Init => shared = {}
  BY DEF Init
<1>2. shared = {} /\ [Next]_vars => (shared = {})'
  <2> SUFFICES ASSUME shared = {}, [Next]_vars PROVE shared' = {}
    OBVIOUS
  <2>1. ASSUME NEW g \in Collectors, NEW i \in Ids, Approve(g, i)
        PROVE  shared' = {}
    <3>1. gc[g] = "executing"
      BY <2>1 DEF Approve
    <3>2. ~\E h \in Collectors : gc[h] = "deleting" /\ cur[h] = i
      BY <3>1 DEF OneCollectorOnly
    <3>3. QED
      BY <2>1, <3>2 DEF Approve
  <2>2. CASE UNCHANGED shared
    BY <2>2
  <2>3. (\E g \in Collectors : \E i \in Ids : Approve(g, i)) \/ UNCHANGED shared
    BY DEF Next, Tick, Publish, CheckKey, Stage, LinkBlob, DescribeBlob,
       VerifyExisting, PublishFails, Record, Forget, CollectForPlan, StartPlan,
       Plan, WalkProfile, VisitObject, FinishPlan, CollectForExecute,
       StartExecute, Execute, PassOver, Delete, FinishExecute, Die,
       vars, historyVars
  <2>4. QED
    BY <2>1, <2>2, <2>3
<1>3. QED
  BY <1>1, <1>2, PTL DEF Spec

(* With at most one collector no object younger than the grace period is   *)
(* ever removed: nobody else can replace it between stat and delete.       *)
THEOREM GraceIsKeptByOne ==
  ASSUME OneCollectorOnly
  PROVE  Spec => GraceProtects
<1>1. GraceInv /\ shared = {} /\ [Next]_vars => [\A i \in Ids : Aged(i)]_vars
  BY UnsharedAged
<1>2. Spec => [](shared = {})
  BY NothingShared
<1>3. QED
  BY <1>1, <1>2, GraceInvariance, PTL DEF Spec, GraceProtects

=============================================================================
