\* A fleet of four, as in the comment of should_claim_task.
SPECIFICATION SplitSpec
CONSTANTS
  Agent = {1, 2, 3, 4}
  Utility = {1, 2}
INVARIANTS
  OneClaim
\* Agents that have heard from all of their half and decided are done.
CHECK_DEADLOCK FALSE
