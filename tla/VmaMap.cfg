\* read_task_vmas, find_vma and find_vma_span_area over every library
\* layout of up to three segments; the note readers over the map read; then
\* one ultask command of up to three options against two of the targets.
CONSTANTS
  MaxSegs <- MCMaxSegs
  MaxPage <- MCMaxPage
  LibBase <- MCLibBase
  MaxArgs <- MCMaxArgs
  MaxCalls <- MCMaxCalls
  DataPages <- MCDataPages
  TargetLayouts <- MCTargetLayouts

SPECIFICATION USpec

INVARIANT TypeOK
INVARIANT FindVmaCorrect
INVARIANT SpanFirstFit
INVARIANT LeaderGroups
INVARIANT FileNoteDescribesMaps
INVARIANT FileNoteTruncationSafe
INVARIANT SiginfoNoteSafe
INVARIANT SdtNoteDecodes
INVARIANT GnuPropertyNoteSafe
INVARIANT UTypeOK
PROPERTY MappedFileUnmapExact
