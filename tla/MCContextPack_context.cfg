SPECIFICATION Spec
CONSTANTS
    NoBudget = NoBudget
    Words <- MCWords
    Class <- MCClass
    Cue <- MCCue
    Glossary <- MCGlossary
    Alphabet <- MCAlphabet
    Longer <- MCLonger
    Segments <- MCSegments
    Indexed <- MCIndexed
    Inside <- MCInside
    Scattered <- MCScattered
    IndexLimit = 4
    NameLimit = 3
    WitnessLimit = 2
    Doc <- MCDoc
    Ent <- MCEnt
    Reg <- MCReg
    Rels <- MCRels
    Home <- MCHome
    Roots <- MCRoots
    Source <- MCSource
    Patch <- MCPatch
    Committed <- MCCommitted
    Recency <- MCRecency
    DenseOrder <- MCDenseOrder
    Requests <- MCRequests
    Environments <- MCEnvironments
    Manifests <- MCManifests
    GrammarLangs = {"rust", "python"}
    TemplateLangs = {"rust"}
    ConfigLangs = {"toml"}
    PairTermsMax = 3
    PairClausesMax = 2
    UbiquityFraction = 2
    UbiquityMin = 2
    RarityFraction = 3
    RarityFloor = 2
    FlowSeeds = 6
    FlowSeedDegree = 4
    FlowFrontier = 2
    FlowEmitMax = 2
    HeadSlots = 2
    MidSlots = 3
    RerankPool = 3
    PrfFeedbackDocs = 2
    PrfExpansionTerms = 2
    OrientationSize = 3
    FileCapMax = 2
INVARIANTS
    TypeOK
    OnePlacePerHit
    HeadIsDiverse
    AbsenceIsTrue
    PastIsNotRefuted
    FlowIsGrounded
    AnswersHaveEvidence
    PackIsBounded
    OmissionsAreTrue
    SubjectsFollowTheirSource
PROPERTIES
    RerankKeepsEvidence
    EveryRequestEnds
