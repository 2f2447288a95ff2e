SPECIFICATION Spec
CONSTANTS
  Null = Null
  Fold <- Spelled
  Alike = {}
  MonthsOf <- MCMonthsOf
  Canonical = {"3 years"}
  Employer <- MCEmployer
  Marked <- MCMarked
  CertName <- MCCertName
  Width <- MCWidth
  PersonNames = {"Kim", "Lee"}
  Leaked <- MCLeaked
  Initial <- MCInitial
  Candidates <- MCCandidates
  Pages <- MCPages
  ValidRefs = {"d1", "d2"}
  Codes = {"J1", "J2", "T1", "T2", "E1"}
  Corrections <- MCCorrections
  NewRows <- MCNewRows
  FieldEdits <- MCFieldEdits
  RelationSets = {{}}
  JobSets = {{}}
  SkillSets <- MCSkillSets
  ExpertiseSets <- MCExpertiseSets
  ScalarEdits <- MCScalarEdits
  Retirable = {"T2"}
  MaxRuns = 1
  MaxEdits = 1
  MaxSelected = 2
INVARIANTS PreviewedDatesConfirm LinksPointAtRows
PROPERTIES OnlyReviewedChanges NothingNewTwice GuardsSettle DecisionsSurvive
CHECK_DEADLOCK FALSE
