SPECIFICATION OdbcSpec
CONSTANTS
  Txs = {t1, t2}
  Stmts = {s1}
  Risks = {}
  MaxBatch = 2
  Uses = {{"tx", "bind"}, {"tx", "async"}, {"bind", "async", "tvp"}, {"rows"}}
  Sets <- MCSets
  Rowsets = {1, 2}
  Nulls = {2}
INVARIANTS TransactionsCounted  NullsOfRow
PROPERTIES MarkHonoured ImplementsRows
CHECK_DEADLOCK FALSE
