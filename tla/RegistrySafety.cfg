\* A plugin does not load and a program uses the name of the other.
CONSTANTS
    r1 = r1
    r2 = r2
    r3 = r3
    None = None
    Threads <- ThreeThreads
    Builtins = {"docker"}
    Plugins = {"modal", "nomad"}
    Broken = {"nomad"}
    Own = {"modal", "docker"}
    Replace = {TRUE, FALSE}
SPECIFICATION Spec
INVARIANTS RegistryTypeOK OneLoader DiscoveryComplete
PROPERTIES FirstWins UnknownOnlyWhileLoading
