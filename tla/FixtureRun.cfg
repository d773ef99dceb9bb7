SPECIFICATION FairSpec
CONSTANT Scripts <- ShortScripts
PROPERTIES KeepsContract Answered
CHECK_DEADLOCK FALSE
