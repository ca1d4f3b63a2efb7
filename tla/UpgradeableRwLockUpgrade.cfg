CONSTANT Threads = {t1, t2}
SPECIFICATION FairSpec
PROPERTIES UpgradeHappens
CHECK_DEADLOCK FALSE
