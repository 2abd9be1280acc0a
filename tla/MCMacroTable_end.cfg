SPECIFICATION MSpec
CONSTANTS
  m = m
  endfoo = endfoo
  foo = foo
  WordKeys = {}
  CmdKeys = {m, endfoo}
  BoxKeys = {}
  Vals <- MCVals
  Null = Null
  Undef = Undef
  Relax = Relax
  EndCommand <- MCEndCommand
  MaxMacros = 2
  Fonts = {}
  NoFont = NoFont
  Font0 = Font0
  GroupKinds <- MCGroupKinds
  Envs = {foo}
  NoEnv = NoEnv
  Tokens = {}
  LastRegister = r1023
  MaxLevel = 3
  MaxStack = 5
  MaxInput = 1
INVARIANT
  EndCodeExists
