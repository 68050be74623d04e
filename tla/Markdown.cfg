\* One behaviour follows one text or one page of lines.
SPECIFICATION Spec
CONSTANTS
  Documents <- MCDocuments
  Pages <- MCPages
\* A document that has been read is not read again.
CHECK_DEADLOCK FALSE
INVARIANTS
  MarkersPaired
  NotesAgree
  WordsWhole
  BlocksRead
