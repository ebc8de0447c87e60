------------------------ MODULE StorageRoutingProofs ------------------------
(***************************************************************************)
(* Proofs about StorageRouting, for every set of configurations, contexts, *)
(* profiles and roles, and any bounds.                                     *)
(*                                                                         *)
(* That references resolve rests on Stored: the object of a reference is   *)
(* on the root of the profile the reference recorded.  Only execute could  *)
(* break it, and execute compares identities, which are profile and key.   *)
(* When no two profiles share a root, an object has one identity, and an   *)
(* object that has a reference is not deleted.  That hypothesis cannot be  *)
(* dropped: the run route_rename shows what happens without it.            *)
(***************************************************************************)
EXTENDS StorageRouting, WellFoundedInduction, TLAPS

USE DEF Scopes

(* No two profiles name the same place. *)
DistinctPlaces == \A p, q \in Profiles : PlaceOf[p] = PlaceOf[q] => p = q

-----------------------------------------------------------------------------
(* What resolution returns. *)

LEMMA CandidateRange ==
  ASSUME NEW c \in Configs, Accepted(c), NEW r \in DOMAIN c.roles,
         NEW i \in DOMAIN Candidates(c, r)
  PROVE  Candidates(c, r)[i] \in Profiles
<1>1. Candidates(c, r)[i] \in DOMAIN c.profiles
  BY DEF Accepted
<1>2. DOMAIN c.profiles \subseteq Profiles
  BY ConfigsAssumption
<1> QED BY <1>1, <1>2

LEMMA CandidatesAreNumbered ==
  ASSUME NEW c \in Configs, Accepted(c), NEW r \in DOMAIN c.roles
  PROVE  DOMAIN Candidates(c, r) \subseteq Nat
<1>1. c.roles[r].fallbacks \in Seq(Profiles)
  BY ConfigsAssumption DEF RoleSpecs
<1>2. Primary(c, r) \in DOMAIN c.profiles
  <2>1. 1 \in DOMAIN Candidates(c, r)
    BY <1>1 DEF Candidates
  <2>2. Candidates(c, r)[1] = Primary(c, r)
    BY <1>1 DEF Candidates
  <2> QED BY <2>1, <2>2 DEF Accepted
<1>3. Primary(c, r) \in Profiles
  BY <1>2, ConfigsAssumption
<1>4. Candidates(c, r) \in Seq(Profiles)
  BY <1>1, <1>3 DEF Candidates
<1> QED BY <1>4

LEMMA LeastNumber ==
  ASSUME NEW S, S \subseteq Nat, S # {}
  PROVE  \E i \in S : \A j \in S : i <= j
<1> DEFINE R == OpToRel(<, Nat)
<1>1. IsWellFoundedOn(R, Nat)
  BY NatLessThanWellFounded
<1> HIDE DEF R
<1>2. PICK i \in S : \A j \in S : ~ (<<j, i>> \in R)
  BY <1>1, WFMin
<1>3. \A j \in S : ~ (j < i)
  <2> TAKE j \in S
  <2>1. j \in Nat /\ i \in Nat
    OBVIOUS
  <2>2. R = {ss \in Nat \X Nat : ss[1] < ss[2]}
    BY DEF R, OpToRel
  <2>3. <<j, i>> \notin R
    BY <1>2
  <2> QED BY <2>1, <2>2, <2>3
<1> QED BY <1>3

(* The role's profile is one of its candidates and usable: the least of a  *)
(* non-empty set of numbers exists.                                        *)
LEMMA ResolvedProfile ==
  ASSUME NEW rt \in Runtimes, NEW r, Resolves(rt, r)
  PROVE  Resolved(rt, r) \in Profiles /\ Usable(rt, Resolved(rt, r))
<1> DEFINE U == UsableCandidates(rt, r)
           C == Candidates(rt.config, r)
<1>1. rt.config \in Configs /\ Accepted(rt.config) /\ r \in DOMAIN rt.config.roles
  BY DEF Runtimes, Resolves
<1>2. U \subseteq Nat /\ U # {}
  BY <1>1, CandidatesAreNumbered DEF Resolves, UsableCandidates
<1>3. PICK i \in U : \A j \in U : i <= j
  BY <1>2, LeastNumber
<1>4. \E k \in U : Resolved(rt, r) = C[k]
  BY <1>3 DEF Resolved
<1> QED BY <1>1, <1>4, CandidateRange DEF UsableCandidates
-----------------------------------------------------------------------------
(* The dedup domain, scope by scope. *)

LEMMA DomainByScope ==
  ASSUME NEW ctx, NEW n
  PROVE  /\ DomainOf(ctx, "platform", n) = [kind |-> "platform", token |-> None]
         /\ DomainOf(ctx, "none", n) = [kind |-> "instance", token |-> n]
         /\ DomainOf(ctx, "context", n) = [kind |-> "context", token |-> ctx.id]
         /\ DomainOf(ctx, "tenant", n) =
              IF ctx.system THEN [kind |-> "system", token |-> ctx.id]
              ELSE IF ctx.tenant # None
              THEN [kind |-> "tenant", token |-> ctx.tenant]
              ELSE [kind |-> "principal", token |-> PrincipalOrSelf(ctx)]
BY DEF DomainOf

(* Every domain is a kind and a token. *)
KindOf(ctx, scope) ==
  IF scope = "platform" THEN "platform"
  ELSE IF scope = "none" THEN "instance"
  ELSE IF scope = "context" THEN "context"
  ELSE IF ctx.system THEN "system"
  ELSE IF ctx.tenant # None THEN "tenant" ELSE "principal"

TokenOf(ctx, scope, n) ==
  IF scope = "platform" THEN None
  ELSE IF scope = "none" THEN n
  ELSE IF scope = "context" \/ ctx.system THEN ctx.id
  ELSE IF ctx.tenant # None THEN ctx.tenant ELSE PrincipalOrSelf(ctx)

LEMMA DomainParts ==
  ASSUME NEW ctx, NEW scope \in Scopes, NEW n
  PROVE  DomainOf(ctx, scope, n) =
           [kind |-> KindOf(ctx, scope), token |-> TokenOf(ctx, scope, n)]
<1>1. CASE scope = "platform" BY <1>1, DomainByScope DEF KindOf, TokenOf
<1>2. CASE scope = "none"     BY <1>2, DomainByScope DEF KindOf, TokenOf
<1>3. CASE scope = "context"  BY <1>3, DomainByScope DEF KindOf, TokenOf
<1>4. CASE scope = "tenant"   BY <1>4, DomainByScope DEF KindOf, TokenOf
<1> QED BY <1>1, <1>2, <1>3, <1>4

LEMMA DomainInDomains ==
  ASSUME NEW ctx \in Contexts, NEW scope \in Scopes, NEW n \in Nat
  PROVE  DomainOf(ctx, scope, n) \in Domains
<1>1. KindOf(ctx, scope) \in DomainKinds
  BY DEF KindOf, DomainKinds
<1>2. TokenOf(ctx, scope, n) \in Tokens
  BY DEF TokenOf, Tokens, PrincipalOrSelf
<1> QED BY <1>1, <1>2, DomainParts DEF Domains

(* Equal domains: same scope, and the owner that scope looks at. *)
LEMMA EqualDomains ==
  ASSUME NEW a \in Contexts, NEW b \in Contexts,
         NEW s \in Scopes, NEW t \in Scopes, NEW n, NEW m
  PROVE  DomainOf(a, s, n) = DomainOf(b, t, m) <=>
           /\ s = t
           /\ s = "none" => n = m
           /\ s = "context" => a.id = b.id
           /\ s = "tenant" =>
                /\ a.system = b.system
                /\ a.system => a.id = b.id
                /\ ~ a.system =>
                     /\ a.tenant = b.tenant
                     /\ a.tenant = None =>
                          /\ a.principal = b.principal
                          /\ a.principal = None => a.id = b.id
<1>1. DomainOf(a, s, n) = DomainOf(b, t, m) <=>
        /\ KindOf(a, s) = KindOf(b, t)
        /\ TokenOf(a, s, n) = TokenOf(b, t, m)
  BY DomainParts
<1>2. a.system \in BOOLEAN /\ b.system \in BOOLEAN
  BY ContextsAssumption
<1>3. PrincipalOrSelf(a) = PrincipalOrSelf(b) <=>
        /\ a.principal = b.principal
        /\ a.principal = None => a.id = b.id
  BY ContextsAssumption DEF PrincipalOrSelf
<1>4. CASE s # t
  BY <1>1, <1>2, <1>4 DEF KindOf
<1>5. CASE s = t /\ s # "tenant"
  BY <1>1, <1>5 DEF KindOf, TokenOf
<1>6. CASE s = t /\ s = "tenant"
  BY <1>1, <1>2, <1>3, <1>6 DEF KindOf, TokenOf
<1> QED BY <1>4, <1>5, <1>6
-----------------------------------------------------------------------------
(* What a publication adds. *)

NewFresh(rt, r) ==
  IF rt.config.roles[r].scope = "none" THEN instances + 1 ELSE instances

NewKey(rt, r, ctx, d) ==
  BlobKey(Namespace(rt, r),
          DomainOf(ctx, rt.config.roles[r].scope, NewFresh(rt, r)), d)

NewRef(rt, r, ctx, d) ==
  [role |-> r, profile |-> Resolved(rt, r), key |-> NewKey(rt, r, ctx, d),
   scope |-> rt.config.roles[r].scope, context |-> ctx]

LEMMA PublishAdds ==
  ASSUME TypeOK, NEW rt \in runtimes, NEW r \in DOMAIN rt.config.roles,
         NEW ctx \in Contexts, NEW d \in Digests, Publish(rt, r, ctx, d)
  PROVE  /\ NewRef(rt, r, ctx, d) \in Refs
         /\ refs' = refs \cup {NewRef(rt, r, ctx, d)}
         /\ instances' = NewFresh(rt, r)
         /\ instances' \in 0..MaxInstance
         /\ disk' = [disk EXCEPT ![PlaceOf[Resolved(rt, r)]] =
                       @ \cup {NewKey(rt, r, ctx, d)}]
         /\ UNCHANGED <<runtimes, plan>>
<1>1. rt \in Runtimes /\ rt.config \in Configs /\ Accepted(rt.config)
  BY DEF TypeOK, Runtimes
<1>2. rt.config.roles[r] \in RoleSpecs /\ r \in Roles
  BY <1>1, ConfigsAssumption
<1>3. rt.config.roles[r].scope \in Scopes
  BY <1>1 DEF Accepted
<1>4. Namespace(rt, r) \in Namespaces
  BY <1>2 DEF Namespace, RoleSpecs
<1>5. Resolved(rt, r) \in Profiles
  BY <1>1, ResolvedProfile DEF Publish
<1>6. NewFresh(rt, r) \in 0..MaxInstance
  BY BoundsAssumption DEF TypeOK, Publish, NewFresh
<1>7. DomainOf(ctx, rt.config.roles[r].scope, NewFresh(rt, r)) \in Domains
  BY <1>3, <1>6, DomainInDomains
<1>8. NewKey(rt, r, ctx, d) \in Keys
  BY <1>4, <1>7 DEF NewKey, BlobKey, Keys
<1>9. NewRef(rt, r, ctx, d) \in Refs
  BY <1>2, <1>3, <1>5, <1>8 DEF NewRef, Refs
<1>10. refs' = refs \cup {NewRef(rt, r, ctx, d)}
  BY DEF Publish, NewRef, NewKey, NewFresh
<1>11. instances' = NewFresh(rt, r)
  BY DEF Publish, NewFresh
<1>12. disk' = [disk EXCEPT ![PlaceOf[Resolved(rt, r)]] =
                  @ \cup {NewKey(rt, r, ctx, d)}]
  BY DEF Publish, NewKey, NewFresh
<1>13. UNCHANGED <<runtimes, plan>>
  BY DEF Publish
<1> QED BY <1>6, <1>9, <1>10, <1>11, <1>12, <1>13

LEMMA NextCases ==
  ASSUME Next
  PROVE  \/ \E c \in Configs, providers \in SUBSET Types : Load(c, providers)
         \/ \E rt \in runtimes : Unload(rt)
         \/ \E rt \in runtimes, type \in Types : Register(rt, type)
         \/ \E rt \in runtimes : \E r \in DOMAIN rt.config.roles,
              ctx \in Contexts, d \in Digests : Publish(rt, r, ctx, d)
         \/ \E rt \in runtimes : \E r \in DOMAIN rt.config.roles :
              \E candidates : Plan(rt, r, Profiles, candidates)
         \/ \E rt \in runtimes : \E r \in DOMAIN rt.config.roles,
              gone \in SUBSET plan : Execute(rt, r, gone)
         \/ \E ref \in refs : Drop(ref)
BY DEF Next

-----------------------------------------------------------------------------
LEMMA InitType == Init => TypeOK
BY BoundsAssumption DEF Init, TypeOK

LEMMA StepType == TypeOK /\ [Next]_vars => TypeOK'
<1> SUFFICES ASSUME TypeOK, [Next]_vars PROVE TypeOK'
  OBVIOUS
<1>1. ASSUME NEW c \in Configs, NEW providers \in SUBSET Types,
             Load(c, providers)
      PROVE  TypeOK'
  <2>1. [config |-> c, available |-> providers] \in Runtimes
    BY <1>1 DEF Load, Runtimes
  <2> QED BY <1>1, <2>1 DEF Load, TypeOK
<1>2. ASSUME NEW rt \in runtimes, Unload(rt) PROVE TypeOK'
  BY <1>2 DEF Unload, TypeOK
<1>3. ASSUME NEW rt \in runtimes, NEW type \in Types, Register(rt, type)
      PROVE  TypeOK'
  <2>1. rt \in Runtimes
    BY DEF TypeOK
  <2>2. [rt EXCEPT !.available = @ \cup {type}] \in Runtimes
    BY <2>1 DEF Runtimes
  <2> QED BY <1>3, <2>2 DEF Register, TypeOK
<1>4. ASSUME NEW rt \in runtimes, NEW r \in DOMAIN rt.config.roles,
             NEW ctx \in Contexts, NEW d \in Digests, Publish(rt, r, ctx, d)
      PROVE  TypeOK'
  <2> DEFINE new == NewRef(rt, r, ctx, d)
  <2>1. /\ new \in Refs /\ refs' = refs \cup {new}
        /\ instances' \in 0..MaxInstance
        /\ disk' = [disk EXCEPT ![PlaceOf[Resolved(rt, r)]] =
                      @ \cup {NewKey(rt, r, ctx, d)}]
        /\ UNCHANGED <<runtimes, plan>>
    BY <1>4, PublishAdds
  <2>2. NewKey(rt, r, ctx, d) \in Keys
    <3>1. new.key \in Keys
      BY <2>1 DEF Refs
    <3> QED BY <3>1 DEF NewRef
  <2>3. disk' \in [Roots -> SUBSET Keys]
    BY <2>1, <2>2 DEF TypeOK
  <2> QED BY <2>1, <2>3 DEF TypeOK
<1>5. ASSUME NEW rt \in runtimes, NEW r \in DOMAIN rt.config.roles,
             NEW candidates,
             Plan(rt, r, Profiles, candidates)
      PROVE  TypeOK'
  <2> DEFINE stores == StoresOf(rt, r, Profiles)
  <2>1. stores \subseteq Profiles
    <3>1. rt.config \in Configs /\ Accepted(rt.config)
      BY DEF TypeOK, Runtimes
    <3>2. \A p : Usable(rt, p) => p \in Profiles
      BY <3>1, ConfigsAssumption DEF Usable
    <3> QED BY <3>2 DEF StoresOf
  <2>2. \A p \in stores : disk[PlaceOf[p]] \subseteq Keys
    BY <2>1, PlacesAssumption DEF TypeOK
  <2>3. Garbage(rt, r, stores) \subseteq Identities
    BY <2>1, <2>2 DEF Garbage, Identities
  <2>4. plan' \subseteq Identities
    BY <1>5, <2>3 DEF Plan
  <2> QED BY <1>5, <2>4 DEF Plan, TypeOK
<1>6. ASSUME NEW rt \in runtimes, NEW r \in DOMAIN rt.config.roles,
             NEW gone \in SUBSET plan, Execute(rt, r, gone)
      PROVE  TypeOK'
  <2>1. disk' \in [Roots -> SUBSET Keys]
    BY <1>6 DEF Execute, TypeOK
  <2> QED BY <1>6, <2>1 DEF Execute, TypeOK
<1>7. ASSUME NEW ref \in refs, Drop(ref) PROVE TypeOK'
  BY <1>7 DEF Drop, TypeOK
<1>8. CASE UNCHANGED vars
  BY <1>8 DEF vars, TypeOK
<1> QED BY <1>1, <1>2, <1>3, <1>4, <1>5, <1>6, <1>7, <1>8, NextCases

(* Every runtime alive has a configuration without errors, and every       *)
(* reference and planned identity is made of known parts.                  *)
THEOREM TypeCorrect == Spec => []TypeOK
<1>1. Init => TypeOK
  BY InitType
<1>2. TypeOK /\ [Next]_vars => TypeOK'
  BY StepType
<1> QED BY <1>1, <1>2, PTL DEF Spec
-----------------------------------------------------------------------------
(* The object of a reference is where the reference says. *)

Stored == \A ref \in refs : ref.key \in disk[PlaceOf[ref.profile]]

StoredInv == TypeOK /\ Stored

LEMMA StepStored == DistinctPlaces /\ StoredInv /\ [Next]_vars => StoredInv'
<1> SUFFICES ASSUME DistinctPlaces, StoredInv, [Next]_vars PROVE Stored'
  BY StepType DEF StoredInv
<1>1. ASSUME NEW c \in Configs, NEW providers \in SUBSET Types,
             Load(c, providers)
      PROVE  Stored'
  BY <1>1 DEF Load, StoredInv, Stored
<1>2. ASSUME NEW rt \in runtimes, Unload(rt) PROVE Stored'
  BY <1>2 DEF Unload, StoredInv, Stored
<1>3. ASSUME NEW rt \in runtimes, NEW type \in Types, Register(rt, type)
      PROVE  Stored'
  BY <1>3 DEF Register, StoredInv, Stored
<1>4. ASSUME NEW rt \in runtimes, NEW r \in DOMAIN rt.config.roles,
             NEW ctx \in Contexts, NEW d \in Digests, Publish(rt, r, ctx, d)
      PROVE  Stored'
  <2> DEFINE p == Resolved(rt, r)
             k == NewKey(rt, r, ctx, d)
  <2>1. /\ NewRef(rt, r, ctx, d) \in Refs
        /\ refs' = refs \cup {NewRef(rt, r, ctx, d)}
        /\ disk' = [disk EXCEPT ![PlaceOf[p]] = @ \cup {k}]
    BY <1>4, PublishAdds DEF StoredInv
  <2>2. NewRef(rt, r, ctx, d).profile = p /\ NewRef(rt, r, ctx, d).key = k
    BY DEF NewRef
  <2>3. PlaceOf[p] \in Roots /\ DOMAIN disk = Roots
    BY <2>1, <2>2, PlacesAssumption DEF Refs, StoredInv, TypeOK
  <2> HIDE DEF p, k
  <2>4. k \in disk'[PlaceOf[p]]
    BY <2>1, <2>3
  <2>5. \A root \in Roots : disk[root] \subseteq disk'[root]
    BY <2>1, <2>3
  <2>6. \A ref \in refs : PlaceOf[ref.profile] \in Roots
    BY PlacesAssumption DEF StoredInv, TypeOK, Refs
  <2>7. \A ref \in refs : ref.key \in disk'[PlaceOf[ref.profile]]
    BY <2>5, <2>6 DEF StoredInv, Stored
  <2> QED BY <2>1, <2>2, <2>4, <2>7 DEF Stored
<1>5. ASSUME NEW rt \in runtimes, NEW r \in DOMAIN rt.config.roles,
             NEW candidates,
             Plan(rt, r, Profiles, candidates)
      PROVE  Stored'
  BY <1>5 DEF Plan, StoredInv, Stored
<1>6. ASSUME NEW rt \in runtimes, NEW r \in DOMAIN rt.config.roles,
             NEW gone \in SUBSET plan, Execute(rt, r, gone)
      PROVE  Stored'
  <2> SUFFICES ASSUME NEW ref \in refs
               PROVE  ref.key \in disk'[PlaceOf[ref.profile]]
    BY <1>6 DEF Execute, Stored
  <2>1. /\ ref.profile \in Profiles
        /\ PlaceOf[ref.profile] \in Roots
        /\ ref.key \in disk[PlaceOf[ref.profile]]
    BY PlacesAssumption DEF StoredInv, Stored, TypeOK, Refs
  <2>2. \A id \in gone : id \in Identities /\ id \notin Referenced(r)
    BY <1>6 DEF Execute, StoredInv, TypeOK
  <2>3. <<ref.profile, ref.key>> \in Referenced(r)
    BY DEF Referenced, Identity
  (* an object with the reference's key on the reference's root has the    *)
  (* reference's identity                                                  *)
  <2>4. ~ \E id \in gone : PlaceOf[id[1]] = PlaceOf[ref.profile] /\ id[2] = ref.key
    <3> SUFFICES ASSUME NEW id \in gone, PlaceOf[id[1]] = PlaceOf[ref.profile],
                        id[2] = ref.key
                 PROVE  FALSE
      OBVIOUS
    <3>1. id = <<id[1], id[2]>> /\ id[1] \in Profiles
      BY <2>2 DEF Identities
    <3>2. id[1] = ref.profile
      BY <2>1, <3>1 DEF DistinctPlaces
    <3> QED BY <2>2, <2>3, <3>1, <3>2
  <2>5. disk'[PlaceOf[ref.profile]] =
          {key \in disk[PlaceOf[ref.profile]] :
             ~ \E id \in gone : PlaceOf[id[1]] = PlaceOf[ref.profile] /\ id[2] = key}
    BY <1>6, <2>1 DEF Execute
  <2> QED BY <2>1, <2>4, <2>5
<1>7. ASSUME NEW ref \in refs, Drop(ref) PROVE Stored'
  BY <1>7 DEF Drop, StoredInv, Stored
<1>8. CASE UNCHANGED vars
  BY <1>8 DEF vars, StoredInv, Stored
<1> QED BY <1>1, <1>2, <1>3, <1>4, <1>5, <1>6, <1>7, <1>8, NextCases

(* With one root per profile, a reference resolves through every runtime   *)
(* that has its profile, whatever configurations came and went and         *)
(* whatever plans were made and executed under them.                       *)
THEOREM ReferencesResolve ==
  ASSUME DistinctPlaces
  PROVE  Spec => []RefsResolve
<1>1. Init => StoredInv
  BY InitType DEF Init, StoredInv, Stored
<1>2. StoredInv /\ [Next]_vars => StoredInv'
  BY StepStored
<1>3. StoredInv => RefsResolve
  BY DEF StoredInv, Stored, RefsResolve
<1> QED BY <1>1, <1>2, <1>3, PTL DEF Spec

-----------------------------------------------------------------------------
(* Every reference's key was made from its own context and scope, and each *)
(* write of scope none drew an instance of its own.                        *)

Derived == \A ref \in refs : \E n \in 0..instances :
             ref.key.domain = DomainOf(ref.context, ref.scope, n)

OneInstanceEach ==
  \A a, b \in refs :
    a.scope = "none" /\ b.scope = "none" /\ a.key.domain = b.key.domain => a = b

BoundaryInv == TypeOK /\ Derived /\ OneInstanceEach

LEMMA StepBoundary == BoundaryInv /\ [Next]_vars => BoundaryInv'
<1> SUFFICES ASSUME BoundaryInv, [Next]_vars
             PROVE  Derived' /\ OneInstanceEach'
  BY StepType DEF BoundaryInv
<1> USE DEF BoundaryInv
<1>1. CASE refs' \subseteq refs /\ instances' = instances
  <2>1. Derived'
    BY <1>1 DEF Derived
  <2>2. OneInstanceEach'
    BY <1>1 DEF OneInstanceEach
  <2> QED BY <2>1, <2>2
<1>2. ASSUME NEW rt \in runtimes, NEW r \in DOMAIN rt.config.roles,
             NEW ctx \in Contexts, NEW d \in Digests, Publish(rt, r, ctx, d)
      PROVE  Derived' /\ OneInstanceEach'
  <2> DEFINE new == NewRef(rt, r, ctx, d)
  <2>1. /\ new \in Refs
        /\ refs' = refs \cup {new}
        /\ instances' = NewFresh(rt, r)
        /\ instances' \in 0..MaxInstance
    BY <1>2, PublishAdds
  <2>2. /\ new.scope = rt.config.roles[r].scope /\ new.context = ctx
        /\ new.key.domain = DomainOf(new.context, new.scope, instances')
    BY <2>1 DEF NewRef, NewKey, BlobKey
  <2>3. /\ instances \in Nat /\ instances' \in Nat
        /\ instances <= instances'
        /\ new.scope = "none" => instances' = instances + 1
    BY <2>1, <2>2, BoundsAssumption DEF TypeOK, NewFresh
  <2> HIDE DEF new
  <2>4. Derived'
    <3>1. \A ref \in refs : \E n \in 0..instances' :
            ref.key.domain = DomainOf(ref.context, ref.scope, n)
      BY <2>3 DEF Derived
    <3>2. \E n \in 0..instances' :
            new.key.domain = DomainOf(new.context, new.scope, n)
      BY <2>2, <2>3
    <3> QED BY <2>1, <3>1, <3>2 DEF Derived
  <2>5. ASSUME NEW ref \in refs, ref.scope = "none", new.scope = "none"
        PROVE  ref.key.domain # new.key.domain
    <3>1. PICK n \in 0..instances :
            ref.key.domain = DomainOf(ref.context, "none", n)
      BY <2>5 DEF Derived
    <3>2. ref.key.domain.token = n /\ new.key.domain.token = instances'
      BY <2>2, <2>5, <3>1, DomainByScope
    <3> QED BY <2>3, <2>5, <3>2
  <2>6. OneInstanceEach'
    BY <2>1, <2>5 DEF OneInstanceEach
  <2> QED BY <2>4, <2>6
<1>3. CASE Next
  BY <1>1, <1>2, <1>3, NextCases
     DEF Load, Unload, Register, Plan, Execute, Drop
<1>4. CASE UNCHANGED vars
  BY <1>1, <1>4 DEF vars
<1> QED BY <1>3, <1>4

LEMMA BoundaryHolds == BoundaryInv => DedupBoundary
<1> SUFFICES ASSUME BoundaryInv, NEW a \in refs, NEW b \in refs
             PROVE  a.key = b.key <=> /\ a.key.namespace = b.key.namespace
                                      /\ a.key.digest = b.key.digest
                                      /\ MayShare(a, b)
  BY DEF DedupBoundary
<1>1. a \in Refs /\ b \in Refs
  BY DEF BoundaryInv, TypeOK
<1>2. a.key = b.key <=> /\ a.key.namespace = b.key.namespace
                        /\ a.key.domain = b.key.domain
                        /\ a.key.digest = b.key.digest
  BY <1>1 DEF Refs, Keys
<1>3. PICK n : a.key.domain = DomainOf(a.context, a.scope, n)
  BY DEF BoundaryInv, Derived
<1>4. PICK m : b.key.domain = DomainOf(b.context, b.scope, m)
  BY DEF BoundaryInv, Derived
<1>5. a.scope \in Scopes /\ b.scope \in Scopes
      /\ a.context \in Contexts /\ b.context \in Contexts
  BY <1>1 DEF Refs
<1>6. CASE a.scope = "none" /\ b.scope = "none"
  <2>1. a.key.domain = b.key.domain => a = b
    BY <1>6 DEF BoundaryInv, OneInstanceEach
  <2> QED BY <1>2, <1>6, <2>1 DEF MayShare
<1>7. CASE ~ (a.scope = "none" /\ b.scope = "none")
  <2>1. a.key.domain = b.key.domain <=> MayShare(a, b)
    BY <1>3, <1>4, <1>5, <1>7, EqualDomains DEF MayShare
  <2> QED BY <1>2, <2>1
<1> QED BY <1>6, <1>7

(* Physical reuse follows the table of docs/blobs.md exactly, across every *)
(* reconfiguration of scopes, namespaces and roles.                        *)
THEOREM ReuseWithinBoundary == Spec => []DedupBoundary
<1>1. Init => BoundaryInv
  BY InitType DEF Init, BoundaryInv, Derived, OneInstanceEach
<1>2. BoundaryInv /\ [Next]_vars => BoundaryInv'
  BY StepBoundary
<1>3. BoundaryInv => DedupBoundary
  BY BoundaryHolds
<1> QED BY <1>1, <1>2, <1>3, PTL DEF Spec
=============================================================================
