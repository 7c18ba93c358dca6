-------------------------- MODULE MCRequestBudget --------------------------
EXTENDS RequestBudget, TLC

CONSTANTS turn, quota, review, c1, c2
MCBudgets == {turn, quota, review}
MCGates == (c1 :> <<turn, quota>>) @@ (c2 :> <<quota, review>>)
MCCallsMode == (turn :> "enforce") @@ (quota :> "observe") @@ (review :> "progress")
MCBytes == (turn :> TRUE) @@ (quota :> TRUE) @@ (review :> FALSE)
=============================================================================
