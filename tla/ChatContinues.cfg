SPECIFICATION ChatSpec
CONSTANTS
    Agents = {a}
    Cap = 2
    Idle = 2
    ChatFaults = {}
    MaxSeq = 4
PROPERTIES OpenConversationContinues
