---------------------------- MODULE MC_Repository ----------------------------
(***************************************************************************)
(* TLC instances of module Repository.                                     *)
(*                                                                         *)
(* One run explores several clienteles: the endpoints the clients of a     *)
(* behaviour use are chosen at its start.  A behaviour of a clientele is a *)
(* behaviour of Repository, and every endpoint belongs to a clientele.     *)
(***************************************************************************)
EXTENDS Repository, TLC

CONSTANT Clienteles  \* the sets of endpoints used together

VARIABLE clients     \* the set this behaviour uses

ASSUME ClientelesUseOps == \A ops \in Clienteles : ops \subseteq Ops

Symmetry == Permutations(Callers)

\* A reachable state to start the pull request runs from: the repository is
\* provisioned, every feature branch is tracked and holds one commit.
Provisioned ==
  /\ gh = [repo |-> TRUE,
           branch |-> [b \in Branches |-> b \notin IntegrationBranches],
           commits |-> [b \in Branches |-> IF b \in IntegrationBranches THEN 0 ELSE 1],
           pr |-> [p \in PullRequests |-> "none"],
           head |-> [p \in PullRequests |-> NoBranch],
           release |-> [t \in Tags |-> FALSE]]
  /\ db = [repo |-> TRUE,
           branch |-> [b \in Branches |->
                         IF b \in FeatureBranches THEN "active" ELSE "none"],
           head |-> [b \in Branches |-> IF b \in FeatureBranches THEN 1 ELSE 0],
           pr |-> [p \in PullRequests |-> "none"],
           approvedAt |-> {},
           mergeSha |-> {}]
  /\ recorded = [e \in Events |->
       IF \/ e[1] = "repository.created"
          \/ /\ e[1] \in {"repository.branch.created", "repository.commit.created"}
             /\ e[2] \in FeatureBranches
       THEN 1 ELSE 0]
  /\ sent = recorded
  /\ pc = [c \in Callers |-> "idle"]
  /\ arg = [c \in Callers |-> Project]
  /\ parent = [c \in Callers |-> 0]
  /\ event = [c \in Callers |-> <<"repository.created", Project>>]
  /\ outcome = [c \in Callers |-> "none"]
  /\ calls = 0

\* Only the clients that provision a repository start without one.
MCInit ==
  /\ clients \in Clienteles
  /\ IF "create_repository" \in clients THEN Init ELSE Provisioned

MCNext ==
  /\ \/ \E c \in Callers : Request(c, clients) \/ CallStep(c)
     \/ Restart
  /\ UNCHANGED clients

MCSpec == MCInit /\ [][MCNext]_<<vars, clients>>

\* Clients that delete a branch lose the commits on it.
AcknowledgedCommits == "delete_branch" \notin clients => CommitsLand
=============================================================================
