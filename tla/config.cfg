SPECIFICATION FairConfigSpec
CONSTANTS
  n0 = n0
  n1 = n1
  n2 = n2
  a = a
  b = b
  upper = upper
  i1 = i1
  w1 = w1
  m1 = m1
  Vars = {i1, w1, m1}
  TypeOf <- SomeTypes
  Types = {"int", "vec", "map"}
  Names <- SomeNames
  Illegal = {upper}
  Loaders = {t1}
  Visitors = {t2}
  Documents <- SomeDocuments
  Values = {n0, n1}
  Default = n0
  Setters = {t1, t2}
  Registrars = {t1, t2}
  Listeners = {l1}
  Throwing = {l1}
  Listened = {i1}
  MaxId = 2
  MaxItems = 4
  MaxDepth = 2
  MaxLoads = 1
  Null = Null
INVARIANTS OneVarPerName
PROPERTIES IterationValid LoadApplied CallsReturn
