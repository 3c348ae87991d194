SPECIFICATION Spec
CONSTANTS
  p1 = p1  p2 = p2
  lib = lib  app = app  alt = alt
  core = core  extra = extra
  Procs <- MCProcs
  Formulae <- MCFormulae
  Taps <- MCTaps
  Order <- MCOrder
  Needs <- MCNeeds
  Conflicts <- MCConflicts
  TapOf <- MCTapOf
  Commands <- BothCommands
  Racks <- MCRacks
PROPERTIES
  NoPourIntoConflict
