\* 32-value "uint32_t", 4-byte frames, requests of up to three frames.
CONSTANTS
    DataLen = 4
    Width = 5
    MaxPayload = 12
SPECIFICATION Spec
INVARIANT SendDataCoversProduct
