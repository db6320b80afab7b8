SPECIFICATION Spec
CONSTANTS
    Chars <- MCChars
    MaxLen <- MCMaxLen
    IntBits <- MCIntBits
INVARIANT ShownTextReadsBack
INVARIANT DecodersAcceptNumerals
INVARIANT IntIsTheNumber
