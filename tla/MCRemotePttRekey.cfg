SPECIFICATION Spec
CONSTANTS
  c1 = c1
  c2 = c2
  t1 = t1
  t2 = t2
  NoClient = NoClient
  CatClients <- TwoCat
  TciClients <- TwoTci
  MaxPosted = 3
SYMMETRY Symmetry
INVARIANT TciHolderIsKnown
