CONSTANTS
  Machines = {1, 2}
  Recorders = {1}
  e1 = e1
  e2 = e2
  i1 = i1
  i2 = i2
  Exporters = {e1}
  Importers = {i1}
  Home <- OneWay
  Local = Local
  Hist = Hist
  HistSeqs = {}
  SegCap = 2
  Batch = 2
  MaxCommands = 2
  MaxId = 3
  MaxCrashes = 0
  InOrder = TRUE
  Torn = FALSE
  DeleteNewest = TRUE
SPECIFICATION Spec
INVARIANT ExportComplete
