CONSTANTS
  Workers = {w1, w2}
  Connections = {c1, c2}
  Artifacts = {a1}
  NoOne = NoOne
  MaxBoots = 3
SPECIFICATION Spec
INVARIANTS
  PublishedOnce
PROPERTIES
  AuthorityWasHeld
  
SYMMETRY Alike
VIEW UpToOtherMoments
