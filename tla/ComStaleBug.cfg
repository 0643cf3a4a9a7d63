SPECIFICATION Spec
CONSTANTS
  Amounts = {8, 12}
  Prompts = {FALSE}
INVARIANTS
  EveryReadIsComplete
