\* Two-byte values: a GET can reply with a value no SET named.
CONSTANTS
  Clients = {c1, c2}
  Keys = {k1}
  Char = {a, b}
  Width = 2
  Position = 1
  Blank = Blank
  NoClient = NoClient
  SharedReads = FALSE
SPECIFICATION Spec
SYMMETRY Symmetry
INVARIANTS RepliesAreValues
