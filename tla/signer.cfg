SPECIFICATION FairSpec
CONSTANTS
    Callers = {c1, c2}
    Margin = 2
    FetchLimit = 1
    BuildLimit = 1
    Lives = {1, 4}
    MaxTime = 8
    None = None
INVARIANTS SurvivesPromptRead
PROPERTIES OneFetchPerMargin SignReturns
