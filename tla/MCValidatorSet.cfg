CONSTANTS
    Roots <- MCRoots
    Keys <- MCKeys
    genesis <- MCGenesis
    Me = "me"
    op_key <- MCOpKey
    RotationCerts <- MCRotations
    SetChangeCerts <- MCChanges
    Blocks <- MCBlocks
    MAX_VOTING_POWER = 10
    ROTATION_FRESHNESS_HORIZON = 1
    rotation_v2_from = 2
    bootstrap_height = 2
    founding_power = 4
    MaxHeight = 3
SPECIFICATION Spec
CHECK_DEADLOCK FALSE
INVARIANTS FollowsBlocks SetIsRunnable
