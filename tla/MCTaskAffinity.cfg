SPECIFICATION Spec
CONSTANTS
  Tids = {main, t1, t2}
  Main = main
  Masks = {pin, wide, narrow}
  NoMask = NoMask
  Pin = pin
  MaxAttempts = 2
SYMMETRY TidSymmetry
INVARIANTS
  TypeOK
  PinSound
  RestoreSound
