SPECIFICATION FairSpec
CONSTANTS
    anthropic = anthropic
    ollama = ollama
    openai = openai
    None = None
    Sound = Sound
    Registered <- MCRegistered
    Serves <- MCServes
    Analysts = 1
    MaxDebateRounds = 1
    Views = 2
    Limits <- MCLimits
    Held <- MCHeld
    Size = 3
    Config <- MCConfig
    MaxRuns = 2
    MaxLate = 1
INVARIANTS
    TypeOK
    AnswersItsQuestion
    ReportRestsOnDebate
    LimitsBind
    LogTellsTheRun
PROPERTIES
    RunEnds
CHECK_DEADLOCK FALSE
