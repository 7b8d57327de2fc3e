SPECIFICATION OpportunityFairSpec
CONSTANTS
    Pairs = {1, 2}
    FrozenPairs = {}
    LeftVenue <- MCLeftVenue
    RightVenue <- MCRightVenue
    OpportunityScenes <- MCOpportunityScenes
PROPERTIES RulesTakePart
CHECK_DEADLOCK FALSE
