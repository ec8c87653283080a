\* One save at a time, five snapshots, crashes and failing calls anywhere.
SPECIFICATION Spec
CONSTANTS
  Savers = {s1}
  Files = {f1, f2, f3}
  NoFile = NoFile
  MaxSnapshot = 5
INVARIANTS
  TypeOK
  FileWhole
PROPERTIES
  NeverOlder
  StoreSpec
