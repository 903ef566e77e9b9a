SPECIFICATION Spec
CONSTANTS
  Heads = {h1, h2}
  Items = {a, b, c}
  Null = Null
INVARIANTS
  DoublyLinked
  WalkStaysOnList
PROPERTIES
  ImplementsLists
