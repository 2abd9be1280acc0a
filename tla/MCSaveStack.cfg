SPECIFICATION MCSpec
CONSTANTS
  w = w
  c = c
  b = b
  v1 = v1
  v2 = v2
  e1 = e1
  e2 = e2
  t1 = t1
  t2 = t2
  f1 = f1
  f2 = f2
  WordKeys <- MCWordKeys
  CmdKeys <- MCCmdKeys
  BoxKeys <- MCBoxKeys
  Vals <- MCVals
  Null = Null
  Undef = Undef
  Fonts <- MCFonts
  NoFont = NoFont
  Font0 = Font0
  GroupKinds <- MCGroupKinds
  Envs <- MCEnvs
  NoEnv = NoEnv
  Tokens <- MCTokens
  LastRegister = r1023
  MaxLevel = 4
  MaxStack = 6
  MaxInput = 3
INVARIANTS
  TypeOK
  LevelIsDepth
  LoopMeetsBoundary
  SavedOncePerGroup
PROPERTY
  ScopesAreImplemented
