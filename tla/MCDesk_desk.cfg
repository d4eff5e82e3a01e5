SPECIFICATION DeskSpec
CONSTANTS
  Unset = Unset
  Respelt <- MCRespelt
  NoKeys <- MCNoKeys
  Agents <- MCAgents
  Themes <- MCThemes
  Layouts <- MCLayouts
  DefaultTimeout = 120
  Minute = 60
  MostSeconds = 180
  DefaultContext = 1
  DefaultStep = 1
  MostLines = 2
  KeyRows <- MCKeyRows
  Typed <- MCTyped
  Runnable <- MCRunnable
  EditorEnv = EditorEnv
  PathWidth = 40
  NoteWidth = 60
  Blocks <- MCBlocks
  Tree = 4
  Diff <- MCDiff
  Default_cols = 40
  Least_rows = 8
  Margin = 3
  ResizeStep = 4
  Hits <- MCHits
  Landing = 11
  Completes <- MCCompletes
  Configs <- MCConfigs
  Areas <- MCAreas
  Presses <- MCPresses
  Columns <- MCColumns
  MaxLine = 14
  Entries <- MCEntries
CONSTRAINT Near
INVARIANTS ScreenIsTheConfig BindingsAnswer UnderThePointer
PROPERTY DividerMoves
