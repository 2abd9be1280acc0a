SPECIFICATION MCSpec
CONSTANTS
  b = b
  c = c
  WordKeys = {}
  CmdKeys <- MCCmdKeys
  BoxKeys <- MCBoxKeys
  Vals = {v1}
  Null = Null
  Undef = Undef
  Fonts = {}
  NoFont = NoFont
  Font0 = Font0
  GroupKinds <- MCGroupKinds
  Envs = {e1, e2}
  NoEnv = NoEnv
  Tokens = {}
  LastRegister = r1023
  MaxLevel = 4
  MaxStack = 7
  MaxInput = 1
  MaxCalls = 3
  Authors <- MCAuthors
CHECK_DEADLOCK FALSE
INVARIANTS
  EnvNameIsInnermost
  GroupLevelIsDepth
  CallsMatchBoundaries
  NoCrash
