CONSTANTS
  Name = {"", "a", "b", "e", "f", "g", "h", "i", "k", "m", "n", "p", "q", "t", "u", "v", "x", "y", "A", "B", "C", "E", "N", "U"}
  Class = {"", "B", "C", "U"}
  Units <- MCUnits
  MaxNodes = 3
  Alphabet = {"block", "while", "do", "for", "if", "switch", "case", "try", "catch", "variable", "use", "break", "continue"}

SPECIFICATION Spec

INVARIANTS
  MethodsSeeMembers
