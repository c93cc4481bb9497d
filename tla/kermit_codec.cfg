\* Every combination of answer, name and short file.
SPECIFICATION Spec
CONSTANTS
    Answers <- MCAnswers
    Names <- MCNames
    Files <- MCFiles
INVARIANTS PacketFits RoundTrip NoControlInside FramesSound
