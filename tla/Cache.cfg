CONSTANTS
  k1 = k1
  c1 = c1
  None = None
  Keys <- OneKey
  Clients <- OneClient
  Data = {2}
  BlockSize = 2
  EncryptData = TRUE
  HasReadCache = TRUE
  Ops = {"Set", "Add", "Replace", "Delete", "Flush", "AddExistingEntry", "RedisExpireAt", "Get", "Exists"}
  TPS = 2
  Half32 = 2
  Configs <- ThreeConfigs
  Exps <- AllExps
  Epochs = {2}
  Start = 1
  MaxNow = 3
  MaxLag = 1
SPECIFICATION Spec
INVARIANTS CryptoTransparent MortalUnlessAsked ExpiresAtFirst
