SPECIFICATION Spec
CONSTANTS
  None = None
  Counsel = {userCounsel, opposingCounsel}
  OpposingCounsel = {opposingCounsel}
  Witnesses = {w1, w2}
  Parties = {}
  Terms = {}
  Facts = {f1, g1}
  AuthoredFacts = {f1}
  Exhibits = {e1}
  Appearances = {a1, a2, a3}
  Questions = {q1, q2}
  Responses = {r1, r2}
  Objections = {}
  Motions = {m1, m2}
  Offers = {}
  Steps = {}
  Recallable = {w1}
  AllowCounter = FALSE
  OfferEvents = 1
  MaxRevision = 0
  SideOf <- MCSideOf
  Callable <- EveryCall
  Knows <- AllKnown
  Seen <- AllSeen
  Related <- AllRelated
  Offerable <- EveryOffer
  Authenticators <- FirstMayAuthenticate
  InitialFact <- AllHidden
  PartyOf <- MCPartyOf
  PartySide <- MCPartySide
  Authority <- MCAuthority
  OpenPhases <- ClosedNegotiation
SYMMETRY IdSymmetry
CONSTRAINT StandAndRecord
INVARIANTS
  StandIsConsistent
  LegsOpenInOrder
  StrickenFactHasNoTestimony
CHECK_DEADLOCK FALSE
