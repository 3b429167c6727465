SPECIFICATION LifecycleSpec
CONSTANTS
    main = main
    worker = worker
    IoThreads = {main, worker}
    ClientThread = clientThread
    ServerThread = serverThread
    MaxInFlight = 2
    CommandLines <- Lines
CHECK_DEADLOCK FALSE
INVARIANTS LifecycleTypeOK NothingHalfMade OutliveTheirUsers SctpPoolIsSingle
    CrashIsARace NothingLeftBehind
PROPERTY MainReturns
