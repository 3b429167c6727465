SPECIFICATION LifecycleSpec
CONSTANTS
    main = main
    worker = worker
    IoThreads = {main, worker}
    ClientThread = clientThread
    ServerThread = serverThread
    MaxInFlight = 2
    CommandLines <- Lines
CHECK_DEADLOCK FALSE
INVARIANT PoolQuietAtTeardown
