SPECIFICATION Spec
CONSTANTS
  None = None
  Torn = Torn
  a1 = a1  a2 = a2
  here = here  there = there
  Apps = {a1, a2}
  Paths = {here, there}
  Online = {there}
  MaxHandle = 2
  MaxPosts = 2
SYMMETRY Symmetry
INVARIANTS TypeOK ContextIsOpen UsingIsEntered PublishedOnce
PROPERTY ImplementsOpenFiles
