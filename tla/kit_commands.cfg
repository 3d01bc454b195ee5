SPECIFICATION Spec
CONSTANTS
    MaxReports = 2
    MaxCommands = 3
    Retries = 2
    HoldTicks = 2
INVARIANTS
    ProcessesOneCommand
    AnswerIsOwn
    ExecutedOnce
PROPERTIES
    CommandsAnswered
    ClientRunsAgain
