------------------------------- MODULE MCTeam -------------------------------
(***************************************************************************)
(* The mechanisms around the agents of a team: the triggers of the         *)
(* oracles, the registry of a sidecar, the processes of an agent, the      *)
(* workers of nbs-workers and the gates of nbs-hub.                        *)
(* They share no state, so that an instance runs one of them, chosen in    *)
(* the initial state; the others rest in their own.  The audit gate, the   *)
(* phase gate and the documents of nbs-hub are three parts of one module,  *)
(* with the commands of the others that change nothing they keep count of. *)
(***************************************************************************)
EXTENDS Triggers, Registry, Agents, Workers, Hub

VARIABLE part

teamvars == <<part, tvars, rvars, avars, vars, hubvars>>

TeamInit ==
    /\ part \in {"triggers", "registry", "agents", "workers", "audits", "gates", "documents"}
    /\ TInit /\ AInit /\ RInit /\ Init /\ HubInit
    /\ part # "registry" => files = {}

TeamNext ==
    /\ UNCHANGED part
    /\ \/ part = "triggers" /\ TNext
          /\ UNCHANGED <<rvars, avars, vars, hubvars>>
       \/ part = "registry" /\ RNext
          /\ UNCHANGED <<tvars, avars, vars, hubvars>>
       \/ part = "agents" /\ ANext
          /\ UNCHANGED <<tvars, rvars, vars, hubvars>>
       \/ part = "workers" /\ Next
          /\ UNCHANGED <<tvars, rvars, avars, hubvars>>
       \/ part = "audits" /\ HubNext /\ UNCHANGED <<doc, gate, history>>
          /\ UNCHANGED <<tvars, rvars, avars, vars>>
       \/ part = "gates" /\ HubNext /\ UNCHANGED <<doc, unaudited>>
          /\ UNCHANGED <<tvars, rvars, avars, vars>>
       \/ part = "documents" /\ HubNext /\ UNCHANGED <<gate, unaudited, history>>
          /\ UNCHANGED <<tvars, rvars, avars, vars>>

TeamFairness ==
    /\ \A s \in Sidecars : WF_tvars(part = "triggers" /\ Check(s))
    /\ \A a \in Launches : WF_avars(part = "agents" /\ NbsClaude(a))
    /\ \A l \in Loops : WF_avars(part = "agents" /\ (Loop(l) \/ SidecarStep(l)))
    /\ WF_avars(part = "agents" /\ Script)
    /\ \A i \in Tasks : WF_vars(part = "workers" /\ Watch(i))

TeamSpec == TeamInit /\ [][TeamNext]_teamvars /\ TeamFairness
=============================================================================
