\* Whether data read in from a file has the elements its tensor's shape calls for.
SPECIFICATION Spec
CONSTANTS
  Built <- MCBuilt
  Foreign <- MCForeign
  FileSizes = {4, 8}
  UsizeMax = 63
INVARIANT InlineFitsShape
