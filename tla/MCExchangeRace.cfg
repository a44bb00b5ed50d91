SPECIFICATION Spec
CONSTANTS
    c1 = c1
    c2 = c2
    server = server
    Server = server
    Client = {c1, c2}
    Bundle2 = {c1}
    Committers = {c1, c2}
    Releasers = {c1, server}
    Forcing = {c2}
    MaxNode = 3
PROPERTY NoPushRace
