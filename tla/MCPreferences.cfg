SPECIFICATION Spec
CONSTANTS
  Starts <- MCStarts
  Typed = {"red", "bright-blue", "bright_red", "none", "orange"}
  Agents = {"build", "plan"}
  Prompted = {"plan"}
  Personas = {"poet"}
  Spinners = {"default", "pirate"}
  Toggled = {"color", "bofh"}
  Facts = {"f"}
  MaxFacts = 1
  MaxSteps = 5
INVARIANTS ColorStays
CHECK_DEADLOCK FALSE
