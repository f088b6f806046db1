\* Power fails anywhere, downloads break off and bytes are lost on the way to flash.
SPECIFICATION Spec
CONSTANTS
  Blocks = {a, b, c, d}
  Images = {old, new}
  Size = 2
  Faults = {"write"}
SYMMETRY Symmetry
INVARIANTS
  TypeOK
  BanksHoldImages
  BanksApart
PROPERTY Installs
