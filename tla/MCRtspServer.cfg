CONSTANTS
  Keys = {"k1"}
  MaxServers = 2
  Offered = {"tcp", "udp", "none"}
SPECIFICATION FairSpec
INVARIANTS SessionsAndThreadsAgree HandlersSafe StrikesHaveCause
PROPERTIES RequestsAndStopsEnd
CHECK_DEADLOCK FALSE
