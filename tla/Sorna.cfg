SPECIFICATION SornaSpec
CONSTANTS
  Rules <- MCRules
  Cases <- MCCases
  Expected = {2}
  Dirs = {"base", "mut"}
  Invocations = 2
  Plans <- MCPlans
  HelperKinds = {"group-held", "outside-held"}
  Sandboxed = TRUE
  Crashes = 1
  Mutations = {1, 2}
  ExpectedRuleIDs = {1, 2}
  Observed <- MCObserved
  Campaigns = 2
  Remakes = 1
  CaseKinds <- MCCaseKinds
  Answers <- MCAnswers
  Intents = {1, 2}
  Seen = {1, 2}
  CaseIds = {1, 2}
INVARIANTS NothingOutlives VerdictIsObserved VerifiedIsOneRun ReplayIsSound
PROPERTIES CommandEnds ConclusionIsSound PassedIsTrueNow
CHECK_DEADLOCK FALSE
