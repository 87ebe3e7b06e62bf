SPECIFICATION Spec
CONSTANTS
  c1 = c1
  c2 = c2
  r1 = r1
  r2 = r2
  Conversation <- MCConversation
  NoConversation = NoConversation
  Request <- MCRequest
  Limits <- MCLimits
  NoLimit = NoLimit
  MaxMessages = 4
  MaxWidgets = 2
  MaxMishaps = 1
SYMMETRY Alike
PROPERTY MessagesAreLimited
