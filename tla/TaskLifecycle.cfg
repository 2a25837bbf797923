\* open_task and free_task on a dynamically and a statically linked target
\* that may die at any step, with any leftover of a killed controller.
CONSTANTS
  Layouts <- BothLayouts
  SymNames <- MCSymNames
  MaxDeaths = 1

SPECIFICATION Spec

INVARIANT TypeOK
INVARIANT ElfMemorySafe
