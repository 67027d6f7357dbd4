CONSTANTS
    Configs <- SoundConfigs
SPECIFICATION Spec
INVARIANTS
    StartsUnlessMistaken
