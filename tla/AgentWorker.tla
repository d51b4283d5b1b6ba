------------------------------ MODULE AgentWorker ------------------------------
(***************************************************************************)
(* A worker (services/agent/app/worker.py) beside the gateway's writer:    *)
(* how the process boots, which collection and which tools it ends up      *)
(* with, and how the graph's reasoning nodes answer a ticket from what the *)
(* gateway stored in Chroma.  TicketWorkflow says when a node runs, how    *)
(* often, and what follows the draft; here it is what the nodes compute.   *)
(* A text is the set of the words that the code looks for in it.  One      *)
(* process is followed at a time; it shares no memory with those a rolling *)
(* update runs beside it, of which only their polling is seen.             *)
(***************************************************************************)
EXTENDS KnowledgeWriter, FiniteSets

CONSTANTS
  Deployments,  \* settings a worker may be started with
  Messages,     \* tickets: [words, order_id]
  Mentions,     \* [DocIds -> the words of a document and of its source]
  Replies,      \* [category, plan]: what a provider's model may answer
  McpOffers,    \* the tools an MCP server may offer, {} for none in reach
  Limit,        \* n_results, 4
  MaxBoots      \* bound: how often the process starts

Words == {"refund", "order", "shipping", "lookup_order"}

Categories == {"refund", "order_status", "other"}  \* other: account, product_help too
PlanActions == {"refund", "lookup_order", "none"}
Citations == {"shipping-policy", "refund-policy", "support-handbook", "any text"}

ASSUME WorkerAssumption ==
  /\ Deployments \subseteq [environment : {"development", "production"},
                            model_provider : {"fake", "openai"}, mcp_server_url : BOOLEAN]
  /\ Replies \subseteq [category : Categories, plan : PlanActions]
  /\ Messages \subseteq [words : SUBSET (Words \ {"lookup_order"}), order_id : BOOLEAN]
  /\ Mentions \in [DocIds -> SUBSET Words]
  /\ Limit \in Nat \ {0} /\ MaxBoots \in Nat
  /\ None \notin Citations

VARIABLES
  worker,  \* the process
  ticket,  \* the ticket it works on
  boots

workerVars == <<vars, worker, ticket, boots>>

Down == [pc |-> "down", settings |-> None, collection |-> 0, tools |-> << >>,
         others |-> FALSE]  \* whether Temporal lists another process as a poller
Ticket(m) == [pc |-> "classify", message |-> m, faked |-> TRUE, category |-> None,
              documents |-> {}, plan |-> None, results |-> {}, draft |-> None]

WorkerTypeOK ==
  /\ TypeOK
  /\ worker.pc \in {"down", "collection", "tools", "polling"}
  /\ worker.settings \in Deployments \cup {None} /\ worker.collection \in Ids \cup {0}
  /\ worker.others \in BOOLEAN
  /\ ticket.pc \in {"classify", "retrieve", "plan", "execute_read_tools", "draft", "drafted"}
  /\ ticket.message \in Messages /\ ticket.faked \in BOOLEAN
  /\ ticket.category \in Categories \cup {None} /\ ticket.plan \in PlanActions \cup {None}
  /\ ticket.documents \subseteq Contents /\ ticket.draft \in Citations \cup {None}
  /\ boots \in 0 .. MaxBoots

\* The ticket waits in Temporal, sanitized.
WorkerInit == Init /\ worker = Down /\ ticket \in {Ticket(m) : m \in Messages} /\ boots = 0

-----------------------------------------------------------------------------
(* worker.main().                                                          *)

\* reject_demo_production_configuration()
Rejected(s) == s.environment = "production" /\ s.model_provider = "fake"

(* While it boots Temporal may list others as pollers of the task queue: a *)
(* process that died, for minutes, or the one a rolling update replaces.   *)
Boots(s) ==
  /\ worker.pc = "down" /\ boots < MaxBoots
  /\ \E others \in BOOLEAN :
       worker' = IF Rejected(s) THEN Down
                 ELSE [Down EXCEPT !.pc = "collection", !.settings = s, !.others = others]
  /\ boots' = boots + 1
  /\ UNCHANGED <<vars, ticket>>

\* ChromaKnowledgeRepository.__init__: the collection is resolved once, for good.
OpensCollection ==
  /\ worker.pc = "collection"
  /\ GetOrCreate
  /\ worker' = [worker EXCEPT !.pc = "tools", !.collection = chroma']
  /\ UNCHANGED <<req, mu, collectionID, stored, losses, restarts, ticket, boots>>

Local == {"lookup_order"}

\* Mutant: the local tools are replaced by what the MCP server offers.
create_McpOnly(mcp) == [name \in IF mcp = {} THEN Local ELSE mcp |-> IF mcp = {} THEN "local" ELSE "mcp"]

\* ToolRegistry.create(): an MCP tool overrides the local one of its name.
create(mcp) == [name \in Local \cup mcp |-> IF name \in mcp THEN "mcp" ELSE "local"]

(* The tools are loaded, an MCP server that cannot be reached leaving the  *)
(* local ones, then the worker connects to Temporal and polls; the others  *)
(* on the list go in the end.                                              *)
LoadsTools ==
  /\ worker.pc = "tools"
  /\ \E mcp \in IF worker.settings.mcp_server_url THEN McpOffers ELSE {{}} :
       worker' = [worker EXCEPT !.pc = "polling", !.tools = create(mcp), !.others = FALSE]
  /\ UNCHANGED <<vars, ticket, boots>>

(* Chroma or Temporal cannot be reached, the process is told to stop, or   *)
(* dies: what it held is gone; a call to Chroma may have had its effect.   *)
Exits ==
  /\ worker.pc # "down"
  /\ worker' = Down
  /\ UNCHANGED chroma \/ (worker.pc = "collection" /\ GetOrCreate)
  /\ UNCHANGED <<req, mu, collectionID, stored, losses, restarts, ticket, boots>>

\* has_pollers(): whether the task queue has a poller, not whose it is.
Healthy == worker.pc = "polling" \/ worker.others

-----------------------------------------------------------------------------
(* The models (core/models.py).                                            *)

Fake == worker.settings.model_provider = "fake"

classify(words) ==
  CASE "refund" \in words -> "refund"
    [] "refund" \notin words /\ "order" \in words -> "order_status"
    [] OTHER -> "other"

planned(category) ==
  CASE category = "refund" -> "refund" [] category = "order_status" -> "lookup_order"
    [] OTHER -> "none"

drafted(prompt) ==
  IF {"shipping", "lookup_order"} \cap prompt # {} THEN "shipping-policy"
  ELSE IF "refund" \in prompt THEN "refund-policy" ELSE "support-handbook"

-----------------------------------------------------------------------------
(* SupportNodes, the nodes that reason.  A node that fails stays where it  *)
(* is; TicketWorkflow counts its attempts.                                 *)

Node(name) == worker.pc = "polling" /\ ticket.pc = name
Goes(t) == ticket' = t /\ UNCHANGED <<vars, worker, boots>>

Classifies ==
  /\ Node("classify")
  /\ \E category \in IF Fake THEN {classify(ticket.message.words)} ELSE {r.category : r \in Replies} :
       Goes([ticket EXCEPT !.pc = "retrieve", !.category = category, !.faked = @ /\ Fake])

Found == {stored[d].content : d \in {e \in DocIds : stored[e] # None}}

\* Mutant: a collection that is gone answers like one that is empty.
Search_EmptyWhenGone ==
  IF worker.collection # chroma THEN {{}}
  ELSE {S \in SUBSET Found : Cardinality(S) = Limit \/ (S = Found /\ Cardinality(S) < Limit)}

(* search(): the nearest documents, whichever they are, of the collection  *)
(* resolved at the start; a collection that is gone is an error.           *)
Search ==
  IF worker.collection # chroma THEN {}
  ELSE {S \in SUBSET Found : Cardinality(S) = Limit \/ (S = Found /\ Cardinality(S) < Limit)}

Retrieves ==
  /\ Node("retrieve")
  /\ \E documents \in Search :
       Goes([ticket EXCEPT !.pc = "plan", !.documents = documents])

Plans ==
  /\ Node("plan")
  /\ \E plan \in IF Fake THEN {planned(ticket.category)} ELSE {r.plan : r \in Replies} :
       Goes([ticket EXCEPT !.pc = "execute_read_tools", !.plan = plan, !.faked = @ /\ Fake])

\* Mutant: the order is looked up whenever the ticket names one.
tool_results_AnyPlan(t) ==
  IF t.plan = "lookup_order" \/ t.message.order_id THEN {"lookup_order"} ELSE {}

\* The tool's output under its name, or an error under it when no order is named.
tool_results(t) == IF t.plan = "lookup_order" THEN {"lookup_order"} ELSE {}

ExecutesReadTools ==
  /\ Node("execute_read_tools")
  /\ ticket.plan = "lookup_order" /\ ticket.message.order_id => "lookup_order" \in DOMAIN worker.tools
  /\ Goes([ticket EXCEPT !.pc = "draft", !.results = tool_results(ticket)])

(* The prompt: message, classification, plan, tool results and, between    *)
(* delimiters (safe_context), the documents with their sources.            *)
Prompt(t) ==
  t.message.words \cup t.results \cup (UNION {Mentions[c.doc] : c \in t.documents})
    \cup (IF "refund" \in {t.category, t.plan} THEN {"refund"} ELSE {})
    \cup (IF t.plan = "lookup_order" THEN {"lookup_order"} ELSE {})

Drafts ==
  /\ Node("draft")
  /\ Goes([ticket EXCEPT !.pc = "drafted", !.faked = @ /\ Fake,
                          !.draft = IF Fake THEN drafted(Prompt(ticket)) ELSE "any text"])

-----------------------------------------------------------------------------
ProcessStep == \/ \E s \in Deployments : Boots(s)
               \/ OpensCollection \/ LoadsTools \/ Exits

NodeStep == Classifies \/ Retrieves \/ Plans \/ ExecutesReadTools \/ Drafts

WriterStep == Next /\ UNCHANGED <<worker, ticket, boots>>

WorkerNext == WriterStep \/ ProcessStep \/ NodeStep

WorkerSpec == WorkerInit /\ [][WorkerNext]_workerVars /\ Fairness

-----------------------------------------------------------------------------
(* A worker that polls can carry out whatever a plan asks for (main()'s    *)
(* order): it has resolved its collection, an order can be looked up       *)
(* whatever became of the MCP server, and no demo model answers customers. *)
PollingMeansComplete ==
  worker.pc = "polling" => /\ worker.collection # 0
                           /\ "lookup_order" \in DOMAIN worker.tools
                           /\ ~Rejected(worker.settings)

(* A document that a caller was told is stored is not missed: when a       *)
(* ticket's retrieval succeeds, every document of every request answered   *)
(* ok on the collection Chroma now has is among what was found, or the     *)
(* limit left it out -- whoever wrote last, lost its data or restarted in  *)
(* between.                                                                *)
NothingIsMissed ==
  [][ticket.pc = "retrieve" /\ ticket'.pc = "plan" =>
       \A u \in Upserts : req[u].answer = "ok" /\ req[u].collection = chroma =>
         \/ Cardinality(ticket'.documents) = Limit
         \/ \A i \in Indices(u) : \E c \in ticket'.documents : c.doc = Documents[u][i]]_workerVars

(* "A shipping citation in the final answer is therefore proof that the    *)
(* worker read back what the gateway wrote" (tests/e2e): when the demo     *)
(* model answers a refund ticket that does not mention shipping with the   *)
(* shipping policy, it retrieved a document that does, from a write that   *)
(* reached Chroma.                                                         *)
ShippingMeansReadBack ==
  /\ ticket.draft = "shipping-policy" /\ ticket.faked
  /\ ticket.category = "refund" /\ ticket.message.words \cap {"shipping", "lookup_order"} = {}
  => \E c \in ticket.documents : /\ Mentions[c.doc] \cap {"shipping", "lookup_order"} # {}
                                 /\ req[c.by].write = "landed"

-----------------------------------------------------------------------------
(* "python -m app.healthcheck, which asserts that this process is actually *)
(* polling its task queue" (docs/deployment.md): a process that runs and   *)
(* whose check passes polls.                                               *)
HealthyMeansPolling == worker.pc # "down" /\ Healthy => worker.pc = "polling"
=============================================================================
