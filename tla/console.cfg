SPECIFICATION FairSpec
CONSTANTS
    Texts = {"", "exit", "code", "text"}
    Types = {"prompt", "final", "other"}
    MaxDialogues = 2
INVARIANT TypeOK
INVARIANT OneDialogueSpeaks
PROPERTY CalmDialoguesReturn
CHECK_DEADLOCK FALSE
