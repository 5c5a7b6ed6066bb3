SPECIFICATION Spec
CONSTANTS
  NoOne = NoOne
  OpKeys = {k1}
  Goals = {reply, confirm}
  Repeats = {w1, w2, w3}
  Chats = {n1, n2}
  AskKeys = {k1}
  Texts = {v1, v2}
  AskPhones = {w1, w2}
  RefreshTokens = {t1, t2, t3}
  Logins = {l1}
  Codes = {c1}
  Requests = {w1, w2, w3}
  Users = {n1, n2}
  Apps = {a1}
  PushTokens = {t1}
  DeviceIds = {d1, d2, d3}
  Registrations = {w1, w2}
  Callers = {w1, w2, w3}
  BucketLimit = 2
  MaxCount = 5
  Phones = {p1}
  FeedLimit = 1
  Retrievals = {n1, n2}
  Keys = {x1}
  Sweeps = {w1, w2}
  Batch = 1
  MemoryKeys = {n1, n2}
  Bodies = {v1, v2}
  Writers = {w1, w2}
INVARIANTS TypeOK AnswersStand ToldIsTheAsk TwoListenersNeedOverlap OneTokenPerLogin
INVARIANTS OneAgentPerCode OneRowEach WindowAdmitsLimit SnapshotsMatchRows ToldIsTheMemory
INVARIANTS SyncedPhoneIsCurrent
PROPERTIES ClaimIsKept AskEndsOnce DeletedIsFinal
SYMMETRY Symmetry
CHECK_DEADLOCK FALSE
