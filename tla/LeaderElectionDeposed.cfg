SPECIFICATION Spec
CONSTANTS NumThreads = 3 Interval = 1 Timeout = 3 Beats = 3 MaxIdle = 5
PROPERTY ElectsOnlyIfNoMaster
