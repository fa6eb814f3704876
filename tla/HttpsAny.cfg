CONSTANT
  LookupErrors = {"negative", "positive"}
SPECIFICATION FairSpec
INVARIANTS
  OnlyFailedSetupLeaks
  RequestOnVerifiedSocket
  StoreSafe
  MainGoesOn
  CallbackOnce
PROPERTIES
  GoodCertKept
  StoreWrittenOffline
  TickServed
