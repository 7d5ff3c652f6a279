\* Two promoters that may die, pushes and envs --set at any time.
SPECIFICATION RegimeSpec
CONSTANTS
    Regimes = {"serial", "concurrent"}
    SpecId = {"home", "api"}
    Env = {"dev", "prod"}
    Promoter = {"p1", "p2"}
    Mortal = {"p1", "p2"}
    Serial = FALSE
    SpecDoc <- ContractDocs
    Batch <- ContractBatches
    ApiList <- ContractApis
    Route <- DevToProd
    Manual = {"dev"}
    MaxVersion = 1
    MaxJobs = 2
INVARIANTS DestinationSound PromotionSound
CHECK_DEADLOCK FALSE
