SPECIFICATION FairSpec
CONSTANTS
    SLOTS_BUF_SIZE = 10
    LINE_ROOM = 14
    Tokens <- MCTokens
    Replies <- MCReplies
    AclLists <- MCAclLists
    FailingCalls = {"INFO", "CLUSTER INFO", "CLUSTER NODES", "ACL LIST"}
INVARIANTS TypeOK GateGuards SlotsReported ReportsAgree
PROPERTY GateOpens
