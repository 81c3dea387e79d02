SPECIFICATION ShellSpec
CONSTANTS Presses = 2
INVARIANTS
    LeavesNoServer
    SomethingToLookAt
    OneInstallAtATime
PROPERTIES
    WhatBeginsEnds
CHECK_DEADLOCK FALSE
