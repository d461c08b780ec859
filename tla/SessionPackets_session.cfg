CONSTANTS
  Kinds = {"game", "swing", "logout", "cancel", "enum", "login", "ack"}
  MaxProcessed = 1
  MaxPackets = 4
SPECIFICATION FairSpec
INVARIANTS TypeOK OnePlace HandledInOrder LogoutHasPlayer LoginReplacesNobody
PROPERTIES MapKeepsPlayer LeftoverProcessed
