SPECIFICATION Spec
CONSTANTS
  m1 = m1
  m2 = m2
  m3 = m3
  x1 = x1
  x2 = x2
  s1 = s1
  s2 = s2
  Messages <- MCMessages
  Extensions <- MCExtensions
  Objects <- MCObjects
  Text = Text
  None = None
  Cut = Cut
  MaxEvents = 3
  MaxKills = 2
SYMMETRY Alike
INVARIANTS
  RestartFindsConversation
  UnsavedIsDirty
