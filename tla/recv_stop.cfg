SPECIFICATION FairSpec
CONSTANTS
  m1 = m1
  m2 = m2
  t1 = t1
  t2 = t2
  s1 = s1
  s2 = s2
  Message = {m1, m2}
  ContentTopic = {t1}
  Shard = {s1}
  NoShard = NoShard
  AutoSharding = TRUE
  GetShard <- OneShard
  RelayMounted = TRUE
  FilterMounted = FALSE
  ShardOf <- SameShard
  TopicOf <- SameTopic
  Stamp <- EarlyAndLate
  MaxMessageLife = 3
  DelayExtra = 1
  PageSize = 2
  QueriesFail = FALSE
  MaxTime = 1
PROPERTY StopEnds
