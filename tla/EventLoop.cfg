\* One client descriptor and a second refused; clients time out after five
\* seconds, and a round may take two.
SPECIFICATION FairSpec
CONSTANTS
    Timeout = 5
    Limit = 0
    SetSize = 3
    Delay = 2
    Backlog = 2
INVARIANTS TypeOK InSync NoFreedClient Punctual
PROPERTIES NotHasty Served QuitEnds
CHECK_DEADLOCK FALSE
