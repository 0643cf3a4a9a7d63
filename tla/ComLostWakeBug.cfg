SPECIFICATION FairSpec
CONSTANTS
  Amounts = {8, 12}
  Prompts = {FALSE}
PROPERTIES
  EveryReadCompletes
