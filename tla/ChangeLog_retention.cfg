SPECIFICATION FairSpec
CONSTANTS
    w1 = w1
    w2 = w2
    r1 = r1
    story = story
    mission = mission
    nobody = nobody
    Writers <- OneWriter
    Readers <- OneReader
    Entities <- StoryAndMission
    Retained <- OnlyStory
    PageLimit = 2
    MaxSequence = 3
    NoWriter <- nobody
PROPERTIES
    CatchesUp
