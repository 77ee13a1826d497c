SPECIFICATION Spec
CONSTANTS
  None = None
  Counsel = {userCounsel, opposingCounsel}
  OpposingCounsel = {opposingCounsel}
  Witnesses = {w1}
  Parties = {"plaintiff", "defense", "insurer"}
  Terms = {"low", "high"}
  Facts = {}
  AuthoredFacts = {}
  Exhibits = {}
  Appearances = {a1}
  Questions = {q1, q2}
  Responses = {r1, r2}
  Objections = {o1}
  Motions = {m1}
  Offers = {s1, s2, s3}
  Steps = {step1}
  Recallable = {}
  AllowCounter = TRUE
  OfferEvents = 2
  MaxRevision = 1
  SideOf <- MCSideOf
  Callable <- EveryCall
  Knows <- AllKnown
  Seen <- AllSeen
  Related <- AllRelated
  Offerable <- EveryOffer
  Authenticators <- AllMayAuthenticate
  InitialFact <- AllHidden
  PartyOf <- MCPartyOf
  PartySide <- MCPartySide
  Authority <- MCAuthority
  OpenPhases <- OpenInChief
SYMMETRY IdSymmetry
CONSTRAINT HearingScope
INVARIANTS
  
  RecordClosedBeforeArgument
  FloorIsTheOpenQuestion
  PendingObjectionHoldsFloor
  SettlementIsBilateral
PROPERTIES
  ImplementsFloor
CHECK_DEADLOCK FALSE
