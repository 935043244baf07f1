SPECIFICATION Spec
CONSTANTS
  None = None
  U8 = 256
  U32 = 32768
  Uploads <- MCUploads
  Tempi = {19, 20, 301}
  Inputs <- MCInputs
INVARIANTS
  StoreSound
  FirstFaultReported
  BytesUnderstood
