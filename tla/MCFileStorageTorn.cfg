\* Two saves that overlap on the one temporary name.
SPECIFICATION Spec
CONSTANTS
  Savers = {s1, s2}
  Files = {f1, f2, f3, f4}
  NoFile = NoFile
  MaxSnapshot = 3
INVARIANT FileWhole
