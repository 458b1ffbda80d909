----------------------------- MODULE ModelCalls -----------------------------
(***************************************************************************)
(* The calls of language models (core/llm) and their costs: the adapters   *)
(* registered at startup, the provider and tier the router selects for     *)
(* BaseAgent.call_llm, the attempts of the adapter, and the token ledger   *)
(* that the budget of the next context is computed from.                   *)
(*                                                                         *)
(* One project.  A pipeline builds a context, which the agent runs it      *)
(* starts share; pipelines and runs overlap.  Money is counted in units of *)
(* the 5 USD below which a budget is tight, and an answered call of a      *)
(* provider that charges costs one unit.                                   *)
(***************************************************************************)
EXTENDS Integers, Sequences, FiniteSets, FiniteSetsExt

CONSTANTS
  McKeyed,      \* the providers whose API keys may be configured
  McContexts,   \* bound: the contexts built
  McRuns,       \* bound: the agent runs
  McRoles,      \* the roles of the agents
  McTasks,      \* the types of their tasks
  McMaxCalls,   \* bound: calls of one run: its own, critiques and improvements
  McMaxLimit    \* bound: the budget of the project

ASSUME ModelCallsAssumption ==
  /\ McKeyed \subseteq {"anthropic", "openai", "gemini", "openrouter"}
  /\ McRoles \subseteq {"worker", "lead", "head", "manager"}
  /\ McMaxCalls \in Nat \ {0} /\ McMaxLimit \in Nat

VARIABLES
  mcKeys,      \* providers with a key
  mcAdapters,  \* LLMProviderRegistry._providers
  mcProject,   \* the project's row and its budget's: llm_provider and limit_usd
  mcContext,   \* what each context says of the budget: "none" when it is not built
  mcRun,       \* agent runs: context, role, task, calls made and usage to record
  mcLedger,    \* the sum of the rows of token_ledger
  mcPaid,      \* what the providers charged
  mcServed     \* the calls an adapter was asked for

mcVars == <<mcKeys, mcAdapters, mcProject, mcContext, mcRun, mcLedger, mcPaid, mcServed>>
mcConfig == <<mcKeys, mcAdapters, mcProject>>

Economy == 0
Premium == 3
RoleToTier == [worker |-> 1, lead |-> 2, head |-> 2, manager |-> 1]
PremiumTasks == {"security_scan", "owasp_check", "architecture_review", "root_cause_analysis"}
StandardTasks == {"traceability_check", "api_design", "database_design"}
EconomyTasks == {"generate_changelog", "generate_readme", "generate_code_comments",
                 "generate_env_template"}
TaskTierOverrides ==
  [t \in PremiumTasks \cup StandardTasks \cup EconomyTasks |->
     IF t \in PremiumTasks THEN Premium ELSE IF t \in StandardTasks THEN 2 ELSE Economy]

FailoverChains ==
  [anthropic  |-> <<"anthropic", "openai", "openrouter", "ollama">>,
   openai     |-> <<"openai", "anthropic", "openrouter", "ollama">>,
   gemini     |-> <<"gemini", "anthropic", "openai", "ollama">>,
   ollama     |-> <<"ollama", "openrouter", "anthropic", "openai">>,
   openrouter |-> <<"openrouter", "anthropic", "openai", "ollama">>]

BaseTier(role, task) ==
  IF task \in DOMAIN TaskTierOverrides THEN TaskTierOverrides[task] ELSE RoleToTier[role]

\* A tight budget takes one tier from a task that is not escalated.
Tier(role, task, escalation, tight) ==
  LET wanted == BaseTier(role, task) + escalation
      tier   == IF wanted > Premium THEN Premium ELSE wanted
  IN  IF tight /\ escalation = 0 /\ tier > Economy THEN tier - 1 ELSE tier

\* Ollama needs no key.
Available == mcKeys \cup {"ollama"}

\* The first provider of the chain with a key; one the table does not know is its own
\* chain.
SelectProvider(preferred, avail) ==
  LET chain == IF preferred \in DOMAIN FailoverChains
               THEN FailoverChains[preferred] ELSE <<preferred>>
      keyed == {i \in DOMAIN chain : chain[i] \in avail}
  IN  IF keyed = {} THEN "none" ELSE chain[Min(keyed)]

Price(provider) == IF provider = "ollama" THEN 0 ELSE 1

\* The table of prices holds no model as OpenRouter names it.
CostUsd(provider) == IF provider \in {"anthropic", "openai", "gemini"} THEN 1 ELSE 0

\* Any name is stored as a project's provider.
Projects == [provider : DOMAIN FailoverChains \cup {"mistral"}, limit : 0 .. McMaxLimit]

\* An adapter whose SDK is missing is skipped; that of Ollama needs none.
Adapters(keys) == {(keys \ missing) \cup {"ollama"} : missing \in SUBSET keys}

McInit ==
  /\ mcKeys \in SUBSET McKeyed /\ mcAdapters \in Adapters(mcKeys)
  /\ mcProject \in Projects
  /\ mcContext = [c \in McContexts |-> "none"]
  /\ mcRun = [a \in McRuns |-> [pc |-> "idle"]]
  /\ mcLedger = 0 /\ mcPaid = 0 /\ mcServed = {}

\* A limit of zero reads as no limit at all.
BudgetTight == mcProject.limit # 0 /\ mcProject.limit - mcLedger < 1

\* _run_department_pipeline: the budget is read once for all its runs.
BuildContext(c) ==
  /\ mcContext[c] = "none"
  /\ mcContext' = [mcContext EXCEPT ![c] = IF BudgetTight THEN "tight" ELSE "roomy"]
  /\ UNCHANGED <<mcConfig, mcRun, mcLedger, mcPaid, mcServed>>

StartAgent(a) ==
  /\ mcRun[a].pc = "idle"
  /\ \E c \in McContexts, role \in McRoles, task \in McTasks :
       /\ mcContext[c] # "none"
       /\ mcRun' = [mcRun EXCEPT ![a] = [pc |-> "calls", context |-> c, role |-> role,
                                         task |-> task, calls |-> 0, usage |-> 0]]
  /\ UNCHANGED <<mcConfig, mcContext, mcLedger, mcPaid, mcServed>>

Fails(a) == mcRun' = [mcRun EXCEPT ![a] = [pc |-> "done"]]

\* The agent's own call fails its run; a critique or improvement is done without.
Unanswered(a) ==
  IF mcRun[a].calls = 0 THEN Fails(a)
  ELSE mcRun' = [mcRun EXCEPT ![a].calls = @ + 1]

\* Only the own call's usage is kept.  No task is given a retry count, so none is
\* escalated.
Answered(a, provider) ==
  mcRun' = [mcRun EXCEPT ![a].calls = @ + 1,
                         ![a].usage = IF mcRun[a].calls = 0 THEN CostUsd(provider) ELSE @]

\* Up to three attempts.  One may be charged whose answer the adapter then cannot
\* read, such as a finish reason it does not know.
Complete(a, provider) ==
  /\ mcServed' = mcServed \cup
       {[provider |-> provider, base |-> BaseTier(mcRun[a].role, mcRun[a].task),
         tier |-> Tier(mcRun[a].role, mcRun[a].task, 0, mcContext[mcRun[a].context] = "tight")]}
  /\ \E charged \in 0 .. 3 :
       /\ mcPaid' = mcPaid + charged * Price(provider)
       /\ (charged > 0 /\ Answered(a, provider)) \/ Unanswered(a)

CallLlm(a) ==
  /\ mcRun[a].pc = "calls" /\ mcRun[a].calls < McMaxCalls
  /\ LET provider == SelectProvider(mcProject.provider, Available)
     IN  \/ provider \in mcAdapters /\ Complete(a, provider)
         \/ provider \notin mcAdapters /\ Unanswered(a) /\ UNCHANGED <<mcPaid, mcServed>>
  /\ UNCHANGED <<mcConfig, mcContext, mcLedger>>

\* Mutant: a ledger write whose metrics fail is repeated.
RecordAgain(a) ==
  /\ mcRun[a].pc = "calls" /\ mcRun[a].calls > 0
  /\ Fails(a) /\ mcLedger' \in {mcLedger, mcLedger + mcRun[a].usage, mcLedger + 2 * mcRun[a].usage}
  /\ UNCHANGED <<mcConfig, mcContext, mcPaid, mcServed>>

\* The run ends and its usage is recorded, unless it failed, escalated or the
\* ledger cannot be written.
PostExecute(a) ==
  /\ mcRun[a].pc = "calls" /\ mcRun[a].calls > 0
  /\ Fails(a) /\ mcLedger' \in {mcLedger, mcLedger + mcRun[a].usage}
  /\ UNCHANGED <<mcConfig, mcContext, mcPaid, mcServed>>

McNext ==
  \/ \E c \in McContexts : BuildContext(c)
  \/ \E a \in McRuns : StartAgent(a) \/ CallLlm(a) \/ PostExecute(a)

McSpec == McInit /\ [][McNext]_mcVars

-----------------------------------------------------------------------------
\* However contexts, calls and the ledger's writes interleave and fail: the project's
\* own provider serves its calls when it has a key; no call is given a lesser model than
\* its task asks for unless the project has really spent all but the tight rest of its
\* budget; and the ledger never holds more than was paid.
CallsKeepTheirTier ==
  /\ mcLedger <= mcPaid
  /\ \A call \in mcServed :
       /\ mcProject.provider \in Available => call.provider = mcProject.provider
       /\ call.tier < call.base => mcProject.limit # 0 /\ mcProject.limit - mcPaid < 1
=============================================================================
