SPECIFICATION WorkerSpec
CONSTANTS
  Upserts <- MCUpserts
  Documents <- MCDocuments
  MaxLosses = 1
  MaxRestarts = 1
  Deployments <- MCDeployments
  Messages <- MCMessages
  Mentions <- MCMentions
  Replies <- MCReplies
  McpOffers <- MCMcpOffers
  Limit = 4
  MaxBoots = 2
  None = None
INVARIANTS
  HealthyMeansPolling
CHECK_DEADLOCK FALSE
