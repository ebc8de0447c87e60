--------------------------- MODULE StorageRouting ---------------------------
(***************************************************************************)
(* Where Blobs go and how they are found again (config.py, runtime.py,     *)
(* cas.py, blob.py and the profile selection of blob_gc.py).               *)
(*                                                                         *)
(* A runtime is one validated configuration together with the providers    *)
(* its factory has.  Several runtimes live at a time: an old and a new     *)
(* configuration during a deployment, two services over the same storage.  *)
(* A Blob is published through a role: the role resolves to a profile, the *)
(* key is made of the role's namespace, the dedup domain and the digest.   *)
(* It is read through the profile its reference recorded.  Collection      *)
(* plans and executes with the references of the moment.                   *)
(*                                                                         *)
(* Publication, planning and execution are single steps here: LocalBackend *)
(* and BlobGc have their interleavings.  This module has what happens when *)
(* the configuration changes between them.                                 *)
(***************************************************************************)
EXTENDS Naturals, FiniteSets, Sequences

CONSTANTS Profiles,    \* profile names
          Types,       \* profile types configurations mention
          KnownTypes,  \* known_profile_types()
          Roots,       \* physical places
          PlaceOf,     \* the root of each profile; two may share one
          Roles,       \* role names
          Namespaces,  \* role namespaces
          Contexts,    \* resource contexts: id, system, tenant, principal
          Digests,     \* contents, by their digest
          Configs,     \* the configurations an operator may write
          MaxRuntimes, \* bound on the runtimes alive at a time
          MaxBlobs,    \* bound on references held and objects of a root
          MaxInstance, \* bound on the writes of scope "none"
          None         \* no profile, no tenant, no principal

Scopes == {"none", "context", "tenant", "platform"}

ASSUME PlacesAssumption == PlaceOf \in [Profiles -> Roots]

ASSUME BoundsAssumption == {MaxRuntimes, MaxBlobs, MaxInstance} \subseteq Nat

(* A configuration names a type per profile; a role has a primary profile  *)
(* or leaves it to the default, fallbacks, a namespace and a dedup scope.  *)
(* Names, namespaces and roots are already in the form validate wants.     *)
RoleSpecs == [profile : Profiles \cup {None}, fallbacks : Seq(Profiles),
              namespace : Namespaces, scope : Scopes \cup {"other"}]

ASSUME ConfigsAssumption ==
  \A c \in Configs :
    /\ c = [profiles |-> c.profiles, roles |-> c.roles, default |-> c.default]
    /\ DOMAIN c.profiles \subseteq Profiles
    /\ \A p \in DOMAIN c.profiles : c.profiles[p] \in Types
    /\ DOMAIN c.roles \subseteq Roles
    /\ \A r \in DOMAIN c.roles : c.roles[r] \in RoleSpecs
    /\ c.default \in Profiles \cup {None}

(* ResourceContext is external: its ids are not the names of principals. *)
ASSUME ContextsAssumption ==
  \A a, b \in Contexts : /\ a.system \in BOOLEAN
                         /\ a.id # None
                         /\ a.principal = None => b.principal # a.id

VARIABLES runtimes,  \* the runtimes alive
          disk,      \* the Blob keys each root holds
          refs,      \* the references the domain service holds
          plan,      \* the last plan: identities, profile and key
          instances  \* random instance tokens drawn so far

vars == <<runtimes, disk, refs, plan, instances>>

(***************************************************************************)
(* An operator X_Y placed before an operator X is a wrong version of X, a  *)
(* mistake this code could contain; no specification uses it.  Replacing X *)
(* by it must break the property PROJECT.json names.                       *)
(***************************************************************************)

-----------------------------------------------------------------------------
(* Configuration: from_dict's default, validate, the resolver. *)

Primary(c, r) == IF c.roles[r].profile = None THEN c.default
                                              ELSE c.roles[r].profile

Candidates(c, r) == <<Primary(c, r)>> \o c.roles[r].fallbacks

(* validate reports an error unless all of these hold. *)
Accepted(c) ==
  /\ c.default # None => c.default \in DOMAIN c.profiles
  /\ \A p \in DOMAIN c.profiles : c.profiles[p] \in KnownTypes
  /\ \A r \in DOMAIN c.roles :
       /\ Primary(c, r) # None
       /\ \A i \in DOMAIN Candidates(c, r) :
            Candidates(c, r)[i] \in DOMAIN c.profiles
       /\ c.roles[r].scope \in Scopes

(* Profile p is configured and its provider registered. *)
Usable(rt, p) == /\ p \in DOMAIN rt.config.profiles
                 /\ rt.config.profiles[p] \in rt.available

UsableCandidates(rt, r) ==
  {i \in DOMAIN Candidates(rt.config, r) :
     Usable(rt, Candidates(rt.config, r)[i])}

(* The role's first usable candidate; StorageRoleUnavailableError if none. *)
Resolves(rt, r) == r \in DOMAIN rt.config.roles /\ UsableCandidates(rt, r) # {}

Resolved(rt, r) ==
  Candidates(rt.config, r)[CHOOSE i \in UsableCandidates(rt, r) :
                             \A j \in UsableCandidates(rt, r) : i <= j]

Namespace(rt, r) == rt.config.roles[r].namespace

-----------------------------------------------------------------------------
(* Physical identity. *)

DomainKinds == {"platform", "instance", "context", "system", "tenant",
                "principal"}

(* _domain_token is a hash without collisions, so the token stands for the *)
(* name it hides; instance tokens are numbers.                             *)
Tokens == {c.id : c \in Contexts} \cup {c.tenant : c \in Contexts}
            \cup {c.principal : c \in Contexts} \cup Nat \cup {None}

Domains == [kind : DomainKinds, token : Tokens]

Keys == [namespace : Namespaces, domain : Domains, digest : Digests]

PrincipalOrSelf(ctx) == IF ctx.principal # None THEN ctx.principal ELSE ctx.id

DomainOf_OneKind(ctx, scope, fresh) ==
  CASE scope = "platform" -> [kind |-> "platform", token |-> None]
    [] scope = "none"     -> [kind |-> "instance", token |-> fresh]
    [] scope = "context"  -> [kind |-> "context",  token |-> ctx.id]
    [] OTHER ->
         IF ctx.system THEN [kind |-> "system", token |-> ctx.id]
         ELSE IF ctx.tenant # None
         THEN [kind |-> "tenant", token |-> ctx.tenant]
         ELSE [kind |-> "tenant", token |-> PrincipalOrSelf(ctx)]

DomainOf(ctx, scope, fresh) ==
  CASE scope = "platform" -> [kind |-> "platform", token |-> None]
    [] scope = "none"     -> [kind |-> "instance", token |-> fresh]
    [] scope = "context"  -> [kind |-> "context",  token |-> ctx.id]
    [] OTHER ->
         IF ctx.system THEN [kind |-> "system", token |-> ctx.id]
         ELSE IF ctx.tenant # None
         THEN [kind |-> "tenant", token |-> ctx.tenant]
         ELSE [kind |-> "principal", token |-> PrincipalOrSelf(ctx)]

BlobKey(namespace, domain, digest) ==
  [namespace |-> namespace, domain |-> domain, digest |-> digest]

Runtimes == {rt \in [config : Configs, available : SUBSET Types] :
               Accepted(rt.config)}

(* A reference records its role, profile and key; scope and context are    *)
(* history: who published it and within which boundary.                    *)
Refs == [role : Roles, profile : Profiles, key : Keys, scope : Scopes,
         context : Contexts]

Identities == Profiles \X Keys
Identity(ref) == <<ref.profile, ref.key>>

TypeOK == /\ runtimes \subseteq Runtimes
          /\ disk \in [Roots -> SUBSET Keys]
          /\ refs \subseteq Refs
          /\ plan \subseteq Identities
          /\ instances \in 0..MaxInstance

Init == /\ runtimes = {}
        /\ disk = [root \in Roots |-> {}]
        /\ refs = {}
        /\ plan = {}
        /\ instances = 0

-----------------------------------------------------------------------------
Load_Unvalidated(c, providers) ==
  /\ Cardinality(runtimes) < MaxRuntimes
  /\ runtimes' = runtimes \cup {[config |-> c, available |-> providers]}
  /\ UNCHANGED <<disk, refs, plan, instances>>

(* StorageRuntime.from_config: a configuration with errors is refused. *)
Load(c, providers) ==
  /\ Accepted(c)
  /\ Cardinality(runtimes) < MaxRuntimes
  /\ runtimes' = runtimes \cup {[config |-> c, available |-> providers]}
  /\ UNCHANGED <<disk, refs, plan, instances>>

(* The process that had the runtime ends; nothing of it was persistent. *)
Unload(rt) ==
  /\ runtimes' = runtimes \ {rt}
  /\ UNCHANGED <<disk, refs, plan, instances>>

(* StorageBackendFactory.register *)
Register(rt, type) ==
  /\ runtimes' = (runtimes \ {rt})
                   \cup {[rt EXCEPT !.available = @ \cup {type}]}
  /\ UNCHANGED <<disk, refs, plan, instances>>

(* runtime.blobs(role).put_*: resolve the role, then _publish.  The key is *)
(* new on the profile's root, or taken by the same content and reused.     *)
Publish(rt, r, ctx, d) ==
  LET scope  == rt.config.roles[r].scope
      fresh  == IF scope = "none" THEN instances + 1 ELSE instances
      domain == DomainOf(ctx, scope, fresh)
      key    == BlobKey(Namespace(rt, r), domain, d)
      p      == Resolved(rt, r)
      ref    == [role |-> r, profile |-> p, key |-> key,
                 scope |-> scope, context |-> ctx]
  IN /\ Resolves(rt, r)
     /\ fresh <= MaxInstance
     /\ Cardinality(disk[PlaceOf[p]] \cup {key}) <= MaxBlobs
     /\ Cardinality(refs \cup {ref}) <= MaxBlobs
     /\ instances' = fresh
     /\ disk' = [disk EXCEPT ![PlaceOf[p]] = @ \cup {key}]
     /\ refs' = refs \cup {ref}
     /\ UNCHANGED <<runtimes, plan>>

(* The domain service forgets a reference. *)
Drop(ref) == /\ refs' = refs \ {ref}
             /\ UNCHANGED <<runtimes, disk, plan, instances>>

-----------------------------------------------------------------------------
(* Collection. *)

Referenced_SameRole(r) == {Identity(ref) : ref \in {x \in refs : x.role = r}}

(* The references plan and execute compare with: those of every role. *)
Referenced(r) == {Identity(ref) : ref \in refs}

(* _stores: the role's candidates and the profiles of its references, as   *)
(* far as for_profile can bind them; hints adds those of older references. *)
StoresOf(rt, r, hints) ==
  {p \in {Candidates(rt.config, r)[i] : i \in DOMAIN Candidates(rt.config, r)}
           \cup {ref.profile : ref \in {x \in refs : x.role = r}} \cup hints :
     Usable(rt, p)}

Garbage(rt, r, stores) ==
  UNION {{<<p, key>> : key \in {k \in disk[PlaceOf[p]] :
                                  k.namespace = Namespace(rt, r)}} :
           p \in stores}
    \ Referenced(r)

(* plan: objects young enough are protected, so any part of the garbage. *)
Plan(rt, r, hints, candidates) ==
  /\ r \in DOMAIN rt.config.roles
  /\ candidates \subseteq Garbage(rt, r, StoresOf(rt, r, hints))
  /\ plan' = candidates
  /\ UNCHANGED <<runtimes, disk, refs, instances>>

(* The key execute deletes for a candidate.  A candidate planned for       *)
(* another namespace keeps that prefix, is looked up below this role's     *)
(* namespace and is not there.                                             *)
Deletable(rt, r, key) == key.namespace = Namespace(rt, r)

(* execute, by a collector of role r, which need not be the planner's. *)
Execute(rt, r, gone) ==
  /\ r \in DOMAIN rt.config.roles
  /\ gone \subseteq {id \in plan : /\ id \notin Referenced(r)
                                   /\ Usable(rt, id[1])
                                   /\ Deletable(rt, r, id[2])}
  /\ disk' = [root \in Roots |->
                {key \in disk[root] :
                   ~ \E id \in gone : PlaceOf[id[1]] = root /\ id[2] = key}]
  /\ UNCHANGED <<runtimes, refs, plan, instances>>

Next ==
  \/ \E c \in Configs, providers \in SUBSET Types : Load(c, providers)
  \/ \E rt \in runtimes :
       \/ Unload(rt)
       \/ \E type \in Types : Register(rt, type)
       \/ \E r \in DOMAIN rt.config.roles, ctx \in Contexts, d \in Digests :
            Publish(rt, r, ctx, d)
       \* Candidates found with fewer hints are found with all of them too.
       \/ \E r \in DOMAIN rt.config.roles :
            \E candidates \in SUBSET Garbage(rt, r, StoresOf(rt, r, Profiles)) :
              Plan(rt, r, Profiles, candidates)
       \/ \E r \in DOMAIN rt.config.roles, gone \in SUBSET plan :
            Execute(rt, r, gone)
  \/ \E ref \in refs : Drop(ref)

Spec == Init /\ [][Next]_vars

-----------------------------------------------------------------------------
(* A reference resolves wherever its profile can be bound: no change of    *)
(* roles, fallbacks, namespaces, providers or scopes, and no collection    *)
(* through any runtime, takes its object away (docs/architecture.md,       *)
(* "Durable Blob reads": later reads use the recorded profile_name and     *)
(* storage_key, even if the role now resolves elsewhere).                  *)
RefsResolve ==
  \A rt \in runtimes, ref \in refs :
    Usable(rt, ref.profile) => ref.key \in disk[PlaceOf[ref.profile]]

(* The reuse table of docs/blobs.md, written without domains or tokens. *)
MayShare(a, b) ==
  /\ a.scope = b.scope
  /\ a.scope = "none" => a = b
  /\ a.scope = "context" => a.context.id = b.context.id
  /\ a.scope = "tenant" =>
       /\ a.context.system = b.context.system
       /\ a.context.system => a.context.id = b.context.id
       /\ ~ a.context.system =>
            /\ a.context.tenant = b.context.tenant
            /\ a.context.tenant = None =>
                 /\ a.context.principal = b.context.principal
                 /\ a.context.principal = None => a.context.id = b.context.id

(* Two references stand for one stored object exactly when both publishers *)
(* wrote the same content through one namespace and profile, and the scope *)
(* each of them wrote with lets them share it: whatever roles share a      *)
(* namespace, and whatever their scopes were before a reconfiguration.     *)
DedupBoundary ==
  \A a, b \in refs :
    a.profile = b.profile =>
      (a.key = b.key <=> /\ a.key.namespace = b.key.namespace
                         /\ a.key.digest = b.key.digest
                         /\ MayShare(a, b))
=============================================================================
