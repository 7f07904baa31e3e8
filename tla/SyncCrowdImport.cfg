CONSTANTS
  Machines = {1, 2}
  Recorders = {1}
  e1 = e1
  e2 = e2
  i1 = i1
  i2 = i2
  Exporters = {e1}
  Importers = {i1, i2}
  Home <- OneWay
  Local = Local
  Hist = Hist
  HistSeqs = {1}
  SegCap = 1
  Batch = 2
  MaxCommands = 2
  MaxId = 2
  MaxCrashes = 0
  InOrder = TRUE
  Torn = FALSE
  DeleteNewest = FALSE
SPECIFICATION Spec
INVARIANT NoGap
INVARIANT Faithful
PROPERTY ImplementsPromise
