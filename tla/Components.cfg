SPECIFICATION Spec
CONSTANTS
  Approvals = {a1, a2}
  MaxLines = 4
  Chars = {"/", "a", " "}
  MaxLength = 2
  MaxHistory = 1
  Hints <- MCHints
  Catalog <- MCCatalog
  Transcript = 5
  Heights = {2, 3}
  Lines = {"a", "b"}
  MaxText = 2
  Content = {"a", "b"}
  MaxOthers = 1
  MaxSnapshots = 2
  Paths = {p1}
  Default = p1
  Names = {"a"}
  Parts = {"hooks"}
  Nothing = Nothing
  Malformed = Malformed
  k1 = k1
  Shared = "openai-compatible"
  Aliases = {"openai"}
  Others = {}
  Keys = {k1}
  Models <- MCModels
  CliModels <- MCCliModels
  Bases <- MCBases
  Mock = Mock
  NoKey = NoKey
  NoModel = NoModel
  MaxRetries = 1
  MaxItems = 4
  Indexes = {0, 1}
  Hooked <- MCHooked
  OwnHooks = "hooks"
  Tooled <- MCTooled
  Mcp = {"mcp1", "mcp2"}
  Storage = "db"
  MaxDisposals = 2
  Sessions = {s1, s2}
  NoSession = NoSession
  Statuses = {"idle", "running"}
  Modes = {"build"}
  Bodies = {b1, b2}
  Keeps = {0, 1, 3}
  MaxMessages = 3
INVARIANTS TypeOK ConsentSeen EnterActsOnShown PatchAsMeant RevertRestores NothingLost CopiedIsThere ModelsKept RestartKeepsConnection CallsWhole NothingLeaks
PROPERTIES ClosedEnds ImportKeepsFiles AbortSettles CreationSettles FileImplementsStore
CHECK_DEADLOCK FALSE
