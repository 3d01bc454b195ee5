\* A behaviour ends where the code leaves a buffer.
SPECIFICATION Spec
CONSTANTS
    Commands <- MCCommands
    Answers <- MCAnswers
    Size = 8
INVARIANTS
    DataAsSent
    AnswerAsMeant
CHECK_DEADLOCK FALSE
