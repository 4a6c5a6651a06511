SPECIFICATION Spec
CONSTANTS
  o1 = o1
  o2 = o2
  Origins = {o1, o2}
  NoOrigin = NoOrigin
  AllowLists <- MCAllowLists
INVARIANTS
  OnlyPagesLetIn
  PagesLetInServed
