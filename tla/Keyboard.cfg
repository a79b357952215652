SPECIFICATION FairSpec
CONSTANTS
  a = a
  b = b
  caps = caps
  w = w
  x = x
  y = y
  z = z
  NC = NC
  Keys = {a, b, caps}
  Single = {caps}
  Shifts = {caps}
  Lamps = {caps}
  Hosts = {w, x, y, z}
  Code <- SharedCode
  Mechanical = {z}
  CtrMax = 4
  BufMax = 3
  RepMax = 2
  Setups <- FourUsers
INVARIANTS TypeOK NoKeySticks
PROPERTIES NoSpuriousInterrupt BytesArrive
