SPECIFICATION Spec
CONSTANTS
  Ids = {1, 2, 3}
  Admins = {1, 2}
  New = New
  Edits = {e1, e2}
  Kilo = 4
  Populations <- MCPopulations
  Defaults <- MCDefaults
  Quotas = {0, 8, 52}
  Typed <- MCTyped
  Budgets <- MCBudgets
  MaxLoads = 2
INVARIANTS
  TypeOK
  TableCurrent
PROPERTIES
  OnlyWhatWasTouched
  DefaultsApply
CHECK_DEADLOCK FALSE
