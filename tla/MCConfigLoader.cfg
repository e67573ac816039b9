\* Two sections, up to two overlapping entries, indices 0..3, three settings.
CONSTANTS
    Class1 = Class1
    Class2 = Class2
    Var1 = Var1
    Var2 = Var2
    Typo = Typo
    Default = Default
    NoText = NoText
    Unset = Unset
    Absent = Absent
    WrongType = WrongType
    NotANumber = NotANumber
    IndexRange = 4
    CounterRange = 8
    Sections <- MCSections
    Fields <- MCFields
    EnumFields <- MCEnumFields
    Names <- MCNames
    Fallback <- MCFallback
    Initial <- MCInitial
    DefaultLast <- MCDefaultLast
    DefaultPoint <- MCDefaultPoint
    Settings <- MCSettings
    EnvSettings <- MCEnvSettings
    Width <- MCWidth
    DefaultOf <- MCDefaultOf
    Launches <- MCLaunches
SPECIFICATION LoaderSpec
INVARIANTS
    TypeOK
    LastSetterWins
    FallbackIsUnreachable
    NoEntryIsVoid
    EffectiveSettings
    
    LoggedRunsAreExact
PROPERTY
    ConfigurationEnds
CHECK_DEADLOCK FALSE
