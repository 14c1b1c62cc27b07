\* One workspace, with a stray directory.  Its life may end in a purge.
SPECIFICATION Spec
CONSTANT MaxStrays = 1
INVARIANTS LiveHasFiles LiveIsOpen RunHasWorkspace
PROPERTIES DeletionIsRecorded ExpiredIsPurged
CHECK_DEADLOCK FALSE
