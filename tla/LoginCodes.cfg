\* Two requests at a time over three codes.
SPECIFICATION Spec
CONSTANTS
  h1 = h1
  h2 = h2
  Handler <- TwoHandlers
  Code <- ThreeCodes
  MaxVerifyAttempts = 2
SYMMETRY Symmetry
INVARIANTS
  LoginsBounded
  AttemptsBounded
  UnusedBounded
  WelcomesBounded
