-------------------------- MODULE GuidedCapability --------------------------
(***************************************************************************)
(* runtime/harness_runtime/guided_capability.py: callers discover the      *)
(* capabilities that the binding of the project declares and apply them    *)
(* with the approval of a plan.  apply_capability reads the binding, plans *)
(* from a second reading of it and from HEAD, compares the plan with the   *)
(* approval and hands it to the executor, which is the caller's own.       *)
(*                                                                         *)
(* A binding is read whoever wrote it: it needs the schema, and a graph    *)
(* with the digest of that graph, which anybody can compute.  Of what is   *)
(* in it a plan takes over the scope: the project, the digest of the       *)
(* runtime lock, and the capability with its target and profiles.  The     *)
(* rest of a binding (its credentials, its verification, the list of the   *)
(* managed files) may change and the scope does not.                       *)
(***************************************************************************)
EXTENDS ProjectBinding

CONSTANTS Users,      \* the callers
          Requested,  \* the capabilities they ask for
          Scopes,     \* the scopes there are, with that of each commit's binding
          Altered     \* what the bindings that others wrote make of a capability

ASSUME RequestedAssumption == Requested # {}

\* The capabilities of _capability_graph that are operations; the others are
\* contracts of the runtime, which cannot be applied.
Operations == {"railway.deploy", "vercel.deploy", "n8n.workflow-publish-activation"}

\* The fields of the target identity that the tool gives each of them, and those
\* that validate_provider_identity expects of a provider.
Providers == {"railway", "vercel", "n8n", "api"}
TargetFields ==
    [railway |-> {"project_id", "environment_id", "service_id", "service_name"},
     vercel |-> {"org_id", "project_id", "target"},
     n8n |-> {"instance_host", "workflow_id", "webhook_endpoint_sha256",
              "webhook_path_sha256", "callback_consumer_id"},
     api |-> {"railway_project_id", "railway_environment_id",
              "railway_service_id", "railway_service_name"}]
IdentityFields ==
    [railway |-> {"project_id", "environment_id", "service_id", "service_name"},
     vercel |-> {"org_id", "project_id"},
     n8n |-> {"instance_id", "workflow_id", "contract_id"},
     api |-> {"deployment_id", "database_project_ref", "contract_id"}]
Fields == UNION ({TargetFields[p] : p \in Providers} \cup {IdentityFields[p] : p \in Providers})

Provider(k) ==
    CASE k = "railway.deploy" -> "railway"
      [] k \in {"vercel.deploy", "vercel.revalidate-runtime"} -> "vercel"
      [] k = "deployed-api.db-write-runtime" -> "api"
      [] OTHER -> "n8n"

\* A capability as it is in a binding.
Entries == [scope : Scopes, operation : BOOLEAN, provider : Providers,
            target : SUBSET Fields]

ASSUME AlteredAssumption ==
    /\ Revisions \subseteq Scopes
    /\ None \notin Scopes \cup Providers
    /\ DOMAIN Altered \subseteq Edits \cup {"foreign", "edited"}
    /\ \A c \in DOMAIN Altered : Altered[c] \in [Requested -> Entries]

\* _load_binding, _find_capability.
Loadable(c) == c \in Revisions \cup DOMAIN Altered

Entry(c, k) ==
    IF c \in Revisions
    THEN [scope |-> c, operation |-> k \in Operations, provider |-> Provider(k),
          target |-> TargetFields[Provider(k)]]
    ELSE Altered[c][k]

VARIABLES stage,     \* where each caller is in apply_capability
          request,   \* the capability of its call, its approval and its plan
          drifted    \* history: did the binding or HEAD change during the call

guidedVars == <<stage, request, drifted>>

Plans == [id : Requested, scope : Scopes, snapshot : Revisions]
NoRequest == [id |-> None, approval |-> None, provider |-> None, scope |-> None,
              target |-> {}, snapshot |-> None]

GuidedInit ==
    /\ stage = [u \in Users |-> "idle"]
    /\ request = [u \in Users |-> NoRequest]
    /\ drifted = [u \in Users |-> FALSE]

Stage(u, label, r) ==
    /\ stage' = [stage EXCEPT ![u] = label]
    /\ request' = [request EXCEPT ![u] = r]
    /\ UNCHANGED bindingVars
Raise(u) == Stage(u, "idle", NoRequest)

\* discovery and status: without a client, or when its status command or the
\* sandbox fails, the capability is on hold; nothing changes.
Discover(u) ==
    /\ stage[u] \in {"idle", "ready", "hold"}
    /\ \E k \in Requested :
          LET entry == Entry(file[Binding], k)
          IN  IF Loadable(file[Binding]) /\ entry.target = IdentityFields[entry.provider]
              THEN \E result \in {"ready", "hold"} : Stage(u, result, NoRequest)
              ELSE Raise(u)

\* A call, with any approval: of this capability or another, new or old.
Request(u) ==
    /\ stage[u] \in {"idle", "ready", "hold"}
    /\ \E k \in Requested, p \in Plans :
          Stage(u, "load", [NoRequest EXCEPT !.id = k, !.approval = p])

Load(u) ==
    /\ stage[u] = "load"
    /\ LET entry == Entry(file[Binding], request[u].id)
       IN  IF Loadable(file[Binding]) /\ entry.operation
           THEN Stage(u, "plan", [request[u] EXCEPT !.provider = entry.provider])
           ELSE Raise(u)

Planned(u, entry) ==
    Stage(u, "snapshot",
          [request[u] EXCEPT !.scope = entry.scope, !.target = entry.target])

\* Mutant of LoadAgain: the plan is made of a binding that cannot be loaded.
LoadAgainAnyhow(u) ==
    /\ stage[u] = "plan"
    /\ IF Loadable(file[Binding]) THEN Planned(u, Entry(file[Binding], request[u].id))
       ELSE Planned(u, [scope |-> file[Binding], target |-> {}])

\* plan_capability: the binding, and then HEAD.
LoadAgain(u) ==
    /\ stage[u] = "plan"
    /\ IF Loadable(file[Binding]) THEN Planned(u, Entry(file[Binding], request[u].id))
       ELSE Raise(u)

Snapshot(u) ==
    /\ stage[u] = "snapshot"
    /\ Stage(u, "approve", [request[u] EXCEPT !.snapshot = head])

\* validate_provider_identity: the provider is that of the first reading.
Identified(r) == r.target = IdentityFields[r.provider]

\* Mutant of Approve: the digest of the plan, HEAD in it, is not compared.
ApproveScope(u) ==
    /\ stage[u] = "approve"
    /\ LET r == request[u]
       IN  \/ /\ <<r.approval.id, r.approval.scope>> = <<r.id, r.scope>>
              /\ Identified(r)
              /\ Stage(u, "execute", r)
           \/ Raise(u)

\* _validate_approval; the caller may have no executor for the capability.
Approve(u) ==
    /\ stage[u] = "approve"
    /\ LET r == request[u]
           plan == [id |-> r.id, scope |-> r.scope, snapshot |-> r.snapshot]
       IN  \/ r.approval = plan /\ Identified(r) /\ Stage(u, "execute", r)
           \/ Raise(u)

\* The executor runs and returns, with a receipt of the plan or without.
Execute(u) ==
    /\ stage[u] = "execute"
    /\ Raise(u)

Guide(u) ==
    \/ Discover(u) \/ Request(u)
    \/ Load(u) \/ LoadAgain(u) \/ Snapshot(u) \/ Approve(u) \/ Execute(u)
=============================================================================
