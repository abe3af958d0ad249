SPECIFICATION StartupSpec
INVARIANT NoNullSemaphore
