SPECIFICATION FairSpec
CONSTANTS
    w1 = w1
    w2 = w2
    r1 = r1
    story = story
    mission = mission
    nobody = nobody
    Writers <- TwoWriters
    Readers <- OneReader
    Entities <- StoryAndMission
    Retained <- OnlyStory
    PageLimit = 2
    MaxSequence = 4
    NoWriter <- nobody
INVARIANTS
    TypeOK
    NumbersAreFree
    TableIsHistory
    ReplicaIsFaithful
PROPERTIES
    CommitsInOrder
    FeedSpec
    OnlyHolesStop
