----------------------------- MODULE MCAgentWorker -----------------------------
(* Two requests that carry one document in common, the documents of the    *)
(* end-to-end test and of the demo; a worker that may be deployed with the *)
(* demo model, with a provider, or wrongly; a refund ticket that names an  *)
(* order and a ticket about an order it does not name.                     *)
EXTENDS AgentWorker

MCUpserts   == {"u1", "u2"}
MCDocuments == [u \in MCUpserts |-> IF u = "u1" THEN <<"refunds", "delays">> ELSE <<"delays">>]
MCMentions  == [d \in {"refunds", "delays"} |->
                  IF d = "refunds" THEN {"refund"} ELSE {"shipping", "refund"}]

Settings(environment, model_provider, mcp) ==
  [environment |-> environment, model_provider |-> model_provider, mcp_server_url |-> mcp]

MCDeployments == {Settings("development", "fake", TRUE), Settings("production", "openai", FALSE),
                  Settings("production", "fake", FALSE)}
\* A server that is gone leaves what a deployment without one has, and one
\* that replaces the local tool a registry with the same names.
MCMcpOffers == {{"get_shipping_region"}}

MCReplies == {[category |-> "refund", plan |-> "lookup_order"]}

MCMessages == {[words |-> {"refund"}, order_id |-> TRUE],
               [words |-> {"order"}, order_id |-> FALSE]}
=============================================================================
