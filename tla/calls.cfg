SPECIFICATION FairSpec
CONSTANTS
  Connectors = {"MediaDb", "DeviceDb"}
  Senders = {"walk", "other"}
  Nobody = "nobody"
  Worlds <- MCWorlds
INVARIANTS TypeOK AnswersFindTheirCall AloneMeansAnswered
  SessionsAreUnanswered
PROPERTIES CallsReturn
CHECK_DEADLOCK FALSE
