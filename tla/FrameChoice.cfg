SPECIFICATION ChoiceSpec
CONSTANTS
    Length = 4
    Bits = {b1, b2}
    MaxSharpness = 2
    BlurThreshold = 1
    TransitionMin = 1
    Thresholds <- MCThresholds
    Caps <- MCCaps
INVARIANTS DuplicatesHaveOriginals CapSpreads
PROPERTIES DedupKeepsTheSharpest
SYMMETRY MCSymmetry
