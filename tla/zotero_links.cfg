SPECIFICATION Spec
CONSTANTS
  x1 = x1
  x2 = x2
  x3 = x3
  b1 = b1
  b2 = b2
  Lem = Lem
  Eco = Eco
  Solaris = Solaris
  SolarisPunct = SolarisPunct
  Katar = Katar
  i1 = i1
  i2 = i2
  i1short = i1short
  na = na
  Blank = Blank
  Item = {x1, x2, x3}
  Book = {b1, b2}
  norm_title <- Titles
  isbn13 <- Isbn13
  Catalogues <- Shelf
  Exports <- TwoBooks
  PAGE = 2
  MAX_PAGES = 2
INVARIANTS
  TypeOK
  SweepExact
PROPERTIES
  NoWrongLink
