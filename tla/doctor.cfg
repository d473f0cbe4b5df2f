SPECIFICATION LiveSpec
CONSTANTS
    Hosts <- MCHosts
    NoTmp = NoTmp
CHECK_DEADLOCK FALSE
INVARIANTS CleanBillTrue RightSubsystemBlamed
PROPERTY DoctorFinishes
