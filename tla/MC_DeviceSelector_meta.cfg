\* Patterns with "." or "|", formatted into the expression unescaped.
CONSTANTS
    Patterns <- MCMetaPatterns
    Hosts <- MCHosts
SPECIFICATION Spec
INVARIANTS
    SelectedAsSpecified
