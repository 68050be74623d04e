\* One behaviour follows the page, its scrolling, or one string through the codec.
SPECIFICATION Spec
CONSTANTS
  Texts = {"", "a", "bad"}
  InitialText = "a"
  Unrenderable = {"bad"}
  OptionKeys = {"_strict", "_highlight"}
  Links <- MCLinks
  WaitTicks = 1
  MaxWaitTicks = 2
  Drafts <- MCDrafts
  Widths = {"wide", "narrow"}
  LineHeight = 2
  PaneHeight = 5
  ScrollBound = 2
  Words <- MCWords
  ByteRuns <- MCByteRuns
\* A string that has been read is not read again.
CHECK_DEADLOCK FALSE
INVARIANTS
  PanesSound
  CodecSound
PROPERTIES
  ShownAtLast
  LinkSound
