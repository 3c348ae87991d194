SPECIFICATION Spec
CONSTANTS
  p1 = p1  p2 = p2  p3 = p3
  fa = fa  fb = fb  ck = ck  tp = tp
  i1 = i1  i2 = i2  i3 = i3  i4 = i4  i5 = i5  i6 = i6
  Procs <- MCProcs
  FormulaFiles <- MCFormulaFiles
  CaskFiles <- MCCaskFiles
  TapFiles <- MCTapFiles
  Listing <- MCListing
  Inodes <- MCInodes
  NoInode = NoInode
  Commands <- All
INVARIANTS
  FormulaeExclusive
