SPECIFICATION Spec
CONSTANTS
    Values <- MCValues
    Fnames <- MCFnames
    MaxDepth = 2
    MaxArgs = 2
    Limits = {4, 9, 12, 20}
INVARIANT TypeOK
INVARIANT PrettyIsDisplay
INVARIANT FlatLinesFit
