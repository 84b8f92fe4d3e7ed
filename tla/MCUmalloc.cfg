SPECIFICATION Spec
CONSTANTS
  GROW = 2
  SHRINK = 8
  MaxHeap = 14
  Requests = {1, 3, 10}
PROPERTY MallocReturns
