\* task_vma_symbol_value checked against LibBase + st_value for every library layout.

CONSTANTS
  MaxSegs <- MCMaxSegs
  MaxPage <- MCMaxPage
  LibBase <- MCLibBase
  MaxArgs <- MCMaxArgs
  MaxCalls <- MCMaxCalls
  DataPages <- MCDataPages
  TargetLayouts <- MCTargetLayouts

SPECIFICATION USpec




INVARIANT SymbolValueCorrect
