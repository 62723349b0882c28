CONSTANTS
  a = a
  c = c
  n1 = n1
  n2 = n2
  ma = ma
  p = p
  Nothing = Nothing
  Chats = {a, c}
  NumberOf <- MCNumberOf
  Messages = {ma}
  ChatOf <- MCChatOf
  ButtonOf <- MCButtonOf
  Media = {p}
  Tabs = {"text", "media", "reaction"}
  MaxPosts = 2
  MaxWaiting = 2

SPECIFICATION ComposerSpec
CHECK_DEADLOCK FALSE

INVARIANT QuotesStayInTheConversation
PROPERTY BusyEnds
