SPECIFICATION Spec
CONSTANTS
  MaxVersion = 3
  MaxOthers = 2
  MaxFails = 1
  MaxGitFails = 2
PROPERTIES
  HiddenOnlyBy
  ChangeIndexed
