CONSTANTS
  CmdChars = {"a", "q", " "}
  Secrets = {"s"}
  CmdLen = 4
  AnswerLen = 4
  HistNum = 2
  LoginRetry = 1
  Accounts <- MCAccounts
  Quit <- MCQuit
  Ask <- MCAsk
  Questions = 2
SPECIFICATION Spec
INVARIANTS TypeOK SecretsNotRecalled
PROPERTIES IsLineEditor
