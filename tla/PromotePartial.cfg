\* One promoter that may die between two pointer writes.
SPECIFICATION RegimeSpec
CONSTANTS
    Regimes = {"concurrent"}
    SpecId = {"home", "detail"}
    Env = {"dev", "prod"}
    Promoter = {"p1"}
    Mortal = {"p1"}
    Serial = TRUE
    SpecDoc <- PlainDocs
    Batch <- PairBatch
    ApiList <- NoApis
    Route <- DevToProd
    Manual = {"dev"}
    MaxVersion = 2
    MaxJobs = 1
INVARIANTS NoPartialPromotion
CHECK_DEADLOCK FALSE
