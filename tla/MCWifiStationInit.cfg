SPECIFICATION Spec
CONSTANTS
  Capacity = 1
  MaxResults = 2
  MaxPosted = 2
INVARIANT InitializeRepeatable
