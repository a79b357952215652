SPECIFICATION HFairSpec
CONSTANTS
  Top = 2
  Cascade = 2
  Timer = 0
  Crtv = 1
  DefaultImr <- NoneMasked
  Guests <- CardsGuest
  Rotations = {TRUE, FALSE}
INVARIANTS InServiceIsStack
PROPERTIES RequestsServed
