\* Two phrases with three keys, a cache of one, a cleanup above four entries, deaths of
\* the process and failed copies at any time.
CONSTANTS
    Phrases <- ThePhrases
    KeysOf <- TheKeysOf
    SysKeys <- TheSysKeys
    MaxEntry = 4
    DefaultPri = 1
    MaxPri = 2
    CacheMax = 1
    FdLimit = 3
    MaxData = 5
SPECIFICATION FairSpec
INVARIANTS TypeOK BackupGood  FileExact NothingForgotten Capacity
PROPERTIES  SavedUnlessStuck 
