SPECIFICATION Spec
CONSTANTS
  exe = exe
  ntdll = ntdll
  plugin = plugin
  target = target
  detour = detour
  none = none
  Images <- MCImages
  Exe = exe
  SizeOf <- MCSizeOf
  BasesOf <- MCBasesOf
  PageSize = 2
  Pages = 6
  NoModule = none
  MaxLoads = 2
  Asked = {2, 5, 6, 9}
  MaxProtects = 2
  Functions = {f}
  Replacements = {detour}
  Genuine = target
  ClientNames <- MCNames
  Again = FALSE
  Starts = {0, 2, 3}
  Lengths = {3, 7, 12}
INVARIANTS
  ModulesTrue
  HooksUndone
  ReadAccounts
CHECK_DEADLOCK FALSE
