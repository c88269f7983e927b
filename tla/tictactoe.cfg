CONSTANTS
    Ids = {0, 1}
    None = None
SPECIFICATION GameSpec
INVARIANTS GameTypeOK MarksAlternate ResultIsRight MembersSeeTheGame
CHECK_DEADLOCK FALSE
