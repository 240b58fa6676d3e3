SPECIFICATION MCSpec
CONSTANTS
  m1 = m1
  s1 = s1
  s2 = s2
  s3 = s3
  Migrators = {m1, m2}
  Nobody = nobody
  Stmts = {s1, s2, s3}
  Args <- MCArgs
INVARIANTS
  SuccessIsComplete
  OneAtATime
  OwnStatement
  MapNotTorn
  CachedIsProven
  SomebodyMoves
PROPERTIES
  BrokenStaysBroken
  KeepsSchemaContract
  EveryMigrationEnds
  EveryStatementEnds
