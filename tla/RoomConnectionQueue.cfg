\* One frame sent before the connection opens.
CONSTANTS
    Sockets = {s1}
    AutoReconnect = TRUE
    QueueCap = 3
    MaxFrames = 1
    MaxCallbacks = 1
SPECIFICATION Spec
\* A store that has disconnected does nothing more.
CHECK_DEADLOCK FALSE
INVARIANT QueuedFramesTaken
