SPECIFICATION TerminalSpec
CONSTANTS
  Shown = {"s", "k"}
  AskedPrompts = {"p"}
  PromptOf <- MCPromptOf
  MaxLogged = 2
  MaxBreaks = 1
  MaxTyped = 2
INVARIANTS TranscriptIsOwn
CHECK_DEADLOCK FALSE
