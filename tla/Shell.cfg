SPECIFICATION Spec
CONSTANTS
  None = None
  MAXARGS = 3
  NPROC = 6
  NFILE = 5
  NOFILE = 5
  Lines <- MCLines
  tree <- parsecmd
  Command <- MCCommand
  Wire <- Wired
  ParseLines <- MCParseLines
INVARIANT ParsesAsGrammar
INVARIANT FileRefs
INVARIANT Wiring
INVARIANT PromptMeansDone
PROPERTY LineEnds
