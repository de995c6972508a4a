\* Plain patterns against every short host name, with and without ipvlan-.
CONSTANTS
    Patterns <- MCPlainPatterns
    Hosts <- MCHosts
SPECIFICATION Spec
INVARIANTS
    SelectedAsSpecified
