\* Three commits, two identities, three records around the gate runs: reviews,
\* acceptances, agreements, amendments and rebases, under either setting and
\* with or without a review required.
SPECIFICATION Spec
SYMMETRY PeopleSymmetry
ACTION_CONSTRAINT NextQuestion
CONSTANTS
  People = {ann, bob}
  Findings = {"f1", "f2"}
  Advisories = {"a1"}
  Verdicts <- MCVerdicts
  MaxCommits = 3
  MaxRecords = 3
  MaxContract = 2
INVARIANTS
  NoObjectionMergedUnanswered
  NobodyApprovesTheirOwn
  MergedUnderAgreedContract
  CompletionAnswersJudgedReview
CHECK_DEADLOCK FALSE
