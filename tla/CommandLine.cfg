\* Three commands; answers of up to two pieces.
CONSTANTS
    Commands <- MCCommands
    Inputs <- MCInputs
    Exit <- MCExit
    None = None
    MaxParts = 2
    MaxBacklog = 2
SPECIFICATION Spec
INVARIANT
    AnswerIsForCommand
PROPERTY
    EveryCommandEnds
