SPECIFICATION Spec
CONSTANTS
    LastVoice = 3
    Ghost = 3
    BaseFreq <- FourFreqs
    MinPitch = 45
    MaxPitch = 353
    PitchStep = 5
    MinGain <- LowGain
    VoiceGain <- StartGain
    GainStep = 5
    MinRate <- LowRate
    RateStep = 20
    RateBound = 20
    Keys = {"forward", "backward", "louder", "quieter", "faster", "slower", "pitchUp", "pitchDown", "reset", "speak", "exit"}
    MenuVoices = {1, 2}
    MaxPresses = 4
INVARIANTS
    TypeOK
    PitchFollowsKeys
    SelectionMatches
PROPERTY SettingsSurvive
CHECK_DEADLOCK FALSE
