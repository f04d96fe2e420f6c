\* Blocks of any length and phase, damaged or cut, in both modes of the spacer.
CONSTANTS
    Cards = 3
    MaxBlock = 8
SPECIFICATION Spec
INVARIANTS TypeOK RightAfterSpacer RightFromFirstWord
