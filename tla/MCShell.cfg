SPECIFICATION ShellSpec
CONSTANTS
  ada = ada  Ada = Ada  bob = bob  b = b
  Setup = Setup  Nobody = Nobody  NoRow = NoRow  NoToken = NoToken
  Tx = {c1, c2}
  Pages = {laptop}
  Members = {b}
  Addresses = {ada, Ada, bob}
  Stored <- MCStored
  EmailOf <- MCEmailOf
  Lifetime = 1
  Horizon = 1
SYMMETRY MCSymmetry
INVARIANTS OneAccountPerAddress AccountAnswersAreTrue LogoutIsImmediate NothingOutlivesSignOut
PROPERTY EndedStaysEnded
CHECK_DEADLOCK FALSE
