\* A run of enter_fastboot.py and one of run_yocto_trial.py on a board.
CONSTANTS
    f1 = f1
    y1 = y1
    Controllers = {f1}
    Trials = {y1}
    MaxPrompts = 2
SPECIFICATION FairSpec
INVARIANTS
    TypeOK
    ActiveWhenAnnounced
    BootsAfterLoading
PROPERTIES
    BackInDebian
CHECK_DEADLOCK FALSE
