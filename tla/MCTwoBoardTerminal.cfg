CONSTANT Burst = 2
SPECIFICATION TerminalSpec
INVARIANT AnswersEveryCommand
CHECK_DEADLOCK FALSE
