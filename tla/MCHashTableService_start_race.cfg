CONSTANTS
    Records = {r1, r2}
    Names <- MCNames
    UpperCase <- MCUpperCase
    Configs <- MCConfigs
    StreamSetting <- MCStreamSetting
    MaxTables = 3
    Null = Null
SPECIFICATION FairSpec
PROPERTIES
    DestructorReturns
