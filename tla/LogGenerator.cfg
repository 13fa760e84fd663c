\* A picture of four by three, and a FIFO that can run full and dry.
SPECIFICATION LogSpec
CONSTANTS
    Width = 4
    Height = 3
    Depth = 5
    AlmostFull = 3
    AlmostEmpty = 2
PROPERTIES SendsTheStream KeepsSending
