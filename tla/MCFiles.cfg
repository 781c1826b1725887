\* Five processes for pipelines of three; a disk of twelve blocks whose files
\* have one direct block and one indirect; an image of 28 blocks whose inodes
\* have two direct blocks and two pointers to a block.
SPECIFICATION FileSpec
CONSTANTS
  Procs = {1, 2, 3, 4, 5}
  OpenMax = 8
  Lines <- MCLines
  MaxLines = 2
  ExitLine <- MCExit
  Executable <- MCExecutable
  Filters <- MCFilters
  Openable <- MCOpenable
  Creatable <- MCCreatable
  Codes = {0, 1, sig}
  Signalled = sig
  Unset = unset
  FsSize = 12
  NMeta = 3
  BSize = 3
  NDirect = 1
  Packed <- MCPacked
  Sources <- MCSources
  Offsets = {0, 3, 4, 15}
  Width = 16
  MaxCalls = 2
  N = 28
  M = 1
  Slots = 2
  Visible = 1
  Direct = 2
  Indirect = 1
  Ptrs = 2
  PackFiles <- MCPackFiles
  Owners <- MCOwners
  Sparse = {"s"}
  Garbage = {0, 4, 99}
INVARIANTS  FsBlocksOnce PackerTrue
PROPERTIES ShellReturns FsImplementsFiles
CHECK_DEADLOCK FALSE
