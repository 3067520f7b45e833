SPECIFICATION FairSpec
CONSTANTS
  t1 = t1
  t2 = t2
  t3 = t3
  h1 = h1
  h2 = h2
  ct = ct
  s1 = s1
  ContentTopic = {ct}
  Shard = {s1}
  NoShard = NoShard
  AutoSharding = TRUE
  GetShard <- OneShard
  RelayMounted = TRUE
  FilterMounted = TRUE
  Task = {t1, t2}
  NoTask = NoTask
  MsgHash = {h1, h2}
  HashOf <- PlainHash
  TopicOf <- OneTopic
  Ephemeral = {}
  LightpushMounted = TRUE
  CheckStore = TRUE
  MayRaise = TRUE

PROPERTY CachedIsAnswered
CHECK_DEADLOCK FALSE
