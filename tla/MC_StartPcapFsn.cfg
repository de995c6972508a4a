\* Every combination of the environment variables the script reads.
SPECIFICATION Spec
PROPERTIES
    ExecOnceDirExists
