SPECIFICATION SornaSpec
CONSTANTS
  Rules <- MCRules
  Cases <- MCCases
  Expected = {2}
  Dirs = {"base", "mut"}
  Invocations = 2
  Plans <- MCPlans
  HelperKinds = {"group"}
  Sandboxed = FALSE
  Crashes = 0
  Mutations = {1, 2}
  ExpectedRuleIDs = {1, 2}
  Observed <- MCObserved
  Campaigns = 2
  Remakes = 1
  CaseKinds <- MCCaseKinds
  Answers <- MCAnswers
  Intents = {1, 2}
  Seen = {1}
  CaseIds = {1, 2}
CHECK_DEADLOCK FALSE
INVARIANT NoOrphanedSubject
