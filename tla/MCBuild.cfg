\* Twelve kinds of hosts, every sequence of builds with 27 sets of options.
SPECIFICATION Spec
CONSTANTS
    Hosts <- EveryHost
    Options <- EveryOption
    None = None
INVARIANTS
    InstalledAsReported
    OptionsHonoured
