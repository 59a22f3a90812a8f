SPECIFICATION FairSpec
CONSTANTS
    MaxRetry = 2
    NCreds = 2
    MaxRadio = 8
    MaxUi = 2

    
    
PROPERTIES
    RetriesContinue
CHECK_DEADLOCK FALSE
