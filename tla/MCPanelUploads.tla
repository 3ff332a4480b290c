--------------------------- MODULE MCPanelUploads ---------------------------
EXTENDS PanelUploads

CONSTANTS a, b, ada, bob

MCDirs == {<<>>, <<a>>}

MCDisks == {[place \in Places |-> IF place.dir = Top THEN {a, b} ELSE {a}]}

MCSelections == {[folder |-> FALSE, tops |-> <<a>>],
                 [folder |-> FALSE, tops |-> <<a, b>>],
                 [folder |-> TRUE, tops |-> <<a, a>>]}

Budget(nav, act, file, foreign, fail, prev) ==
  [nav |-> nav, act |-> act, file |-> file, foreign |-> foreign, fail |-> fail,
   preview |-> prev, alert |-> fail]

MCBudgets == {
  Budget(2, 0, 0, 0, 1, 0),
  Budget(1, 1, 0, 0, 1, 0),
  Budget(0, 2, 0, 0, 0, 0),
  Budget(1, 0, 0, 1, 0, 2),
  Budget(0, 1, 0, 1, 0, 0),
  Budget(0, 1, 1, 0, 0, 0),
  Budget(1, 0, 2, 0, 0, 0),
  Budget(0, 0, 2, 0, 1, 0),
  Budget(0, 0, 3, 0, 0, 0)}
=============================================================================
