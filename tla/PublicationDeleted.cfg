SPECIFICATION PublicationSpec
CONSTANTS
    Publishers = {1, 2}
    Offers <- TwoImages
    MaxEvictions = 1
    MaxMishaps = 0
    MaxWithdrawals = 0
    MaxRestarts = 0
    MaxLooks = 0
INVARIANT DeletionRemovesEveryFile
CHECK_DEADLOCK FALSE
