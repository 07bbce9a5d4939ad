SPECIFICATION Spec
CONSTANTS
  c1 = c1
  c2 = c2
  f1 = f1
  f2 = f2
  l1 = l1
  l2 = l2
  t1 = t1
  t2 = t2
  Invocations = {"first", "second"}
  Configs = {c1}
  Locals = {l1}
  Features = {f1, f2}
  Toolchains = {t1}
  Generators = {"cob"}
  Generator <- GeneratorNamed
  NoBackend = NoBackend
  Broken = Broken
  Absent = Absent
  Partial = Partial
  Unread = Unread
INVARIANT
  PartialNeverCurrent
