\* Every fault, in bounded number; a fair process, broker and API.
CONSTANTS
  Feature <- MCFeature
  FaultKinds <- Kinds
  MaxFaults = 3
SPECIFICATION FairSpec
INVARIANTS IInv FirstsInOrder
PROPERTIES ImplementsProjection EventuallySettled
