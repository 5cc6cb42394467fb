\* One player finishes games one after the other, a cooldown apart; a power
\* outlasts several cooldowns.
SPECIFICATION GameSpec
CONSTANTS
    Sockets = {s1}
    PlayerOf <- MCOnePlayer
    GameNames = {memory}
    GameCalls = {k1}
    Goal = 1
    GameCooldown = 2
    MinPlay = 1
    LongPower = 8
    ShortPower = 6
    MaxPowers = 2
    MaxGameTime = 8
    MaxGameAsks = 4
INVARIANT PowersLimited
CHECK_DEADLOCK FALSE
