\* Three slots; Shift, Caps Lock and a letter; one wait of up to two ticks.
SPECIFICATION FairSpec
CONSTANTS
    KB_BUFFER_SIZE = 3
    Letters = {"a"}
    Symbols = {}
    Mute = {"esc"}
    Sent <- SomeBytes
    MaxTicks = 2
    MaxWaits = 1
INVARIANT HaltsInTime
PROPERTY Implements
PROPERTY KeysAreTaken
