SPECIFICATION Spec
CONSTANTS
  Programs <- MCPrograms
  Avoid = {"capturedBreak", "sharedLoop", "postCapture", "extraArgs"}
  MaxFuel = 4
INVARIANTS TypeOK LexicalAccess StatementHeight OpenInOrder
