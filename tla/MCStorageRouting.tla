-------------------------- MODULE MCStorageRouting --------------------------
(* Constants to model-check StorageRouting with. *)
EXTENDS StorageRouting, TLC

CONSTANTS p1, p2, fs, obj, rootA, rootB, source, dataset, n1, n2, u, v,
          c1, c2

Role(profile, fallbacks, namespace, scope) ==
  [profile |-> profile, fallbacks |-> fallbacks, namespace |-> namespace,
   scope |-> scope]

Config(profiles, roles, default) ==
  [profiles |-> profiles, roles |-> roles, default |-> default]

OwnRoots == [p \in Profiles |-> IF p = p1 THEN rootA ELSE rootB]
OneRoot  == [p \in Profiles |-> rootA]

BothTypes == p1 :> fs @@ p2 :> obj

(* An object store with a local fallback; dataset shares the namespace and *)
(* has its profile from the default.                                       *)
Fallback == Config(BothTypes,
                   source :> Role(p2, <<p1>>, n1, "tenant") @@
                   dataset :> Role(None, <<>>, n1, "platform"), p1)

(* The role moved to the local profile, to another namespace and scope. *)
Moved == Config(BothTypes,
                source :> Role(p1, <<>>, n2, "none") @@
                dataset :> Role(p1, <<>>, n1, "context"), None)

(* Neither primary nor default; an unknown fallback; an unknown default. *)
Broken == {Config(BothTypes, source :> Role(None, <<p1>>, n1, "tenant"), None),
           Config(p1 :> fs, source :> Role(p1, <<p2>>, n1, "tenant"), None),
           Config(p1 :> fs, source :> Role(p1, <<>>, n1, "tenant"), p2)}

(* A profile under its old and its new name. *)
Named(p) == Config(p :> fs, source :> Role(p, <<>>, n1, "tenant"), None)

Context(id, system, tenant, principal) ==
  [id |-> id, system |-> system, tenant |-> tenant, principal |-> principal]

RoutingConfigs == {Fallback, Moved} \cup Broken
RenameConfigs  == {Named(p1), Named(p2)}

(* Somebody of the tenant u; a principal of the same name without tenant. *)
OneContext  == {Context(c1, FALSE, u, v)}
TwoContexts == OneContext \cup {Context(c2, FALSE, None, u)}

=============================================================================
