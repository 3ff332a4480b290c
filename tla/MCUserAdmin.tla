---------------------------- MODULE MCUserAdmin ----------------------------
EXTENDS UserAdmin

User1(quota) == [permission |-> "readwrite", quota |-> quota, disabled |-> FALSE]

MCPopulations == {[i \in Ids |-> IF i \in Admins THEN User1(IF i = 1 THEN 0 ELSE 52) ELSE Absent]}

MCDefaults == {[permission |-> "read", quota |-> 8]}

Budget(edit, foreign, fail, visit) ==
  [edit |-> edit, foreign |-> foreign, fail |-> fail, settings |-> visit]

MCTyped == {-5, 15}

MCBudgets == {Budget(2, 0, 0, 0), Budget(1, 0, 1, 1), Budget(1, 1, 0, 0)}
=============================================================================
