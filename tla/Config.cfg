SPECIFICATION Spec
CONSTANTS
    MaxAddrs = 2
INVARIANT TypeOK
INVARIANT AcceptedIsSound
INVARIANT LoadsFirstExisting
