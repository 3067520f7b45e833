SPECIFICATION FairSpec
CONSTANTS
  t1 = t1
  t2 = t2
  t3 = t3
  h1 = h1
  h2 = h2
  ct = ct
  s1 = s1
  ContentTopic = {ct}
  Shard = {s1}
  NoShard = NoShard
  AutoSharding = TRUE
  GetShard <- OneShard
  RelayMounted = TRUE
  FilterMounted = FALSE
  Task = {t1, t2, t3}
  NoTask = NoTask
  MsgHash = {h1, h2}
  HashOf <- SharedHash
  TopicOf <- OneTopic
  Ephemeral = {t2}
  LightpushMounted = TRUE
  CheckStore = TRUE
  MayRaise = TRUE
INVARIANTS TypeOK ToldAtMostOnce NoSilentLoss SentOnlyIfStored CachedIsRetried Ownership
PROPERTIES FinalIsLast KeepsPromise AnsweredUnlessOver
CHECK_DEADLOCK FALSE
