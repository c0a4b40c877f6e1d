CONSTANTS
    p1 = p1
    Procs = {p1}
    NumAlerts = 2
    Name <- Names
    Cooldown <- Cooldowns
    Webhooks = {1, 2}
    Commands = {2}
    Retention = 3
    MaxNow = 7
SPECIFICATION Spec
INVARIANTS CooldownHonoured
PROPERTIES NotSilenced
