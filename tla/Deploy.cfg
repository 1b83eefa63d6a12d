SPECIFICATION FairSpec
CONSTANTS
    Configs = {c1, c2}
    c1 = c1
    c2 = c2
    None = None
INVARIANT OkMeansDone
PROPERTIES TakesNothingDown RepeatedDeployWorks
