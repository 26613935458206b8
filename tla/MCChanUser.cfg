SPECIFICATION FairSpec
CONSTANTS
    n1 = n1
    n2 = n2
    n3 = n3
    c1 = c1
    c2 = c2
    m1 = m1
    NONE = NONE
    Nick <- MCNick
    Chan <- MCChan
    Mask <- MCMask
    Worlds <- MCWorlds
    MaxBurst = 2
INVARIANTS PictureAccurate ChanuserSound
 
